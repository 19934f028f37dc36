--------------------------- MODULE OrderedMatcher ----------------------------
(***************************************************************************)
(* The OrderedMatcher of core/ordered_queue.rs: from the path of a result  *)
(* and its number of children to the path of the next in depth-first       *)
(* order, by a stack of how many results are left at each level.           *)
(***************************************************************************)
EXTENDS IndexPath

DecrementRemaining(stack) ==
    [stack EXCEPT ![Len(stack)] = IF @ > 0 THEN @ - 1 ELSE 0]

\* The deepest level with results left; 0 if there is none.
Deepest(stack) ==
    CHOOSE k \in 0 .. Len(stack) :
        /\ k # 0 => stack[k] # 0
        /\ \A j \in (k + 1) .. Len(stack) : stack[j] = 0

\* Mutant: the last index is incremented twice on the way to a sibling.
AdvanceTwice(path, stack, child_count) ==
    LET k == Deepest(DecrementRemaining(stack))
    IN  IF child_count > 0 THEN Adding(path, 0)
        ELSE IF k = 0 THEN <<>>
        ELSE IncrementLast(IncrementLast(SubSeq(path, 1, k)))

\* After a result with child_count children: down to its first child, or on
\* to the next sibling of the deepest ancestor-or-self that has one.
AdvancePath(path, stack, child_count) ==
    LET k == Deepest(DecrementRemaining(stack))
    IN  IF child_count > 0 THEN Adding(path, 0)
        ELSE IF k = 0 THEN <<>>
        ELSE IncrementLast(SubSeq(path, 1, k))

\* Mutant: used-up levels stay on the stack.
AdvanceUnpopped(stack, child_count) ==
    LET rest == DecrementRemaining(stack)
    IN  IF child_count > 0 THEN Append(rest, child_count) ELSE rest

AdvanceStack(stack, child_count) ==
    LET rest == DecrementRemaining(stack)
    IN  IF child_count > 0 THEN Append(rest, child_count)
        ELSE SubSeq(rest, 1, Deepest(rest))

------------------------------------------------------------------------------

(***************************************************************************)
(* The results of a tree rooted at <<0>>: one result per path, and the     *)
(* children of a path are numbered from 0 below its child_count.           *)
(***************************************************************************)
ResultTree(results) ==
    /\ \A r \in results :
          /\ r.index_path \in Paths \ {<<>>}
          /\ r.child_count \in Nat
          /\ r.index_path[1] = 0
          /\ \A k \in 1 .. (Len(r.index_path) - 1) : \E s \in results :
                /\ s.index_path = SubSeq(r.index_path, 1, k)
                /\ r.index_path[k + 1] < s.child_count
          /\ \A i \in 0 .. (r.child_count - 1) :
                \E s \in results : s.index_path = Adding(r.index_path, i)
    /\ \A r, s \in results : r.index_path = s.index_path => r = s
    /\ \E r \in results : r.index_path = <<0>>
==============================================================================

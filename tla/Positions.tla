------------------------------ MODULE Positions ------------------------------
(***************************************************************************)
(* Selecting some items of a sequence by their positions, in order: what   *)
(* Iterator::filter does, said without recursion.                          *)
(***************************************************************************)
EXTENDS Naturals, Sequences, FiniteSets

\* The positions in ascending order.
InOrder(positions) ==
    CHOOSE order \in [1 .. Cardinality(positions) -> positions] :
        /\ \A n \in positions : \E k \in DOMAIN order : order[k] = n
        /\ \A j, k \in DOMAIN order : j < k => order[j] < order[k]

\* The items there.
ItemsAt(seq, positions) ==
    LET order == InOrder(positions)
    IN  [k \in 1 .. Cardinality(positions) |-> seq[order[k]]]
==============================================================================

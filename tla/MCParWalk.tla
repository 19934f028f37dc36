----------------------------- MODULE MCParWalk -------------------------------
(* Small instances of ParWalk for TLC. *)
EXTENDS ParWalk, MCTrees

\* The specs of the root and of all that can be pushed below it.
MCPushable ==
    LET Below[depth \in 0 .. MaxDepth] ==
            IF depth = 0 THEN {RootSpec}
            ELSE UNION {PushedFrom(parent, f[parent.value.dir]) :
                           parent \in Below[depth - 1], f \in FaultCases}
    IN  UNION {Below[depth] : depth \in 0 .. MaxDepth}

\* By another name: TLC evaluates a definition once, and a replacement anew.
MCSpecSet == MCPushable

Faultless == [d \in Dirs |-> NoFault]

MCNoFault == {Faultless}

\* An error a retry heals, one that is not retried, and one that comes in the
\* middle of a listing, where there are no subdirectories of known type: see
\* MCBreakA for the others.
MCFaults ==
    MCNoFault \cup {[Faultless EXCEPT !["r"] = Fault(FALSE, 0, EAGAIN, MaxRetries),
                                     !["a"] = Fault(FALSE, 0, EIO, 1)],
                    [Faultless EXCEPT !["b"] = Fault(TRUE, 1, EAGAIN, MaxRetries + 1)]}

\* The listing of a breaks off after its first subdirectory.
MCBreakA == {[Faultless EXCEPT !["a"] = Fault(TRUE, 1, EIO, 1)]}

\* The hypothesis of the theorems about the whole walk holds of the tree of
\* LinkedTree, with these faults.
ASSUME LinkedStreamsCleanly ==
    Listing = LinkedTree /\ FaultCases = MCFaults => StreamsCleanly
==============================================================================

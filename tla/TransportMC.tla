---------------------------- MODULE TransportMC ----------------------------
(* The transport with loops of three and four units of time and of one,    *)
(* which is shorter than a block.                                          *)
EXTENDS Transport

MCLoops == {[start |-> 1, end |-> 4], [start |-> 0, end |-> 4], [start |-> 2, end |-> 3]}

=============================================================================

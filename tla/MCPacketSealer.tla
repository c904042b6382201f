--------------------------- MODULE MCPacketSealer ---------------------------
(***************************************************************************)
(* Instances of PacketSealer for TLC.                                      *)
(***************************************************************************)
EXTENDS PacketSealer, TLC

CONSTANTS p1, p2, p3

MCPackets == {p1, p2, p3}
Symmetry == Permutations(MCPackets)
=============================================================================

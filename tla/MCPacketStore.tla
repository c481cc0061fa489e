--------------------------- MODULE MCPacketStore ---------------------------
(* PacketStore for model checking: the accounts are interchangeable.         *)
EXTENDS PacketStore, TLC

Symmetry == Permutations(Servers)
=============================================================================

------------------------------- MODULE MCRooms -------------------------------
(* Small instances of Rooms for TLC. *)
EXTENDS Rooms, TLC

Symmetry == Permutations(Workers) \cup Permutations(Gateways)
              \cup Permutations(Names)

==============================================================================

-------------------------- MODULE MCRoomStatistics --------------------------
(* Small instances of RoomStatistics for TLC. *)
EXTENDS RoomStatistics, TLC

Symmetry == Permutations(Handlers) \cup Permutations(Rooms)

=============================================================================

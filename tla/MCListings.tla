----------------------------- MODULE MCListings -----------------------------
(* Small instances of Listings, and with it of Composites, for TLC. *)
EXTENDS Listings, TLC

Symmetry == Permutations(Puts) \cup Permutations(Composites) \cup Permutations(Rooms)

==============================================================================

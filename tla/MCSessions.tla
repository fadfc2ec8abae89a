----------------------------- MODULE MCSessions -----------------------------
(* Small instances of Sessions for TLC. *)
EXTENDS Sessions, TLC

Symmetry == Permutations(Workers) \cup Permutations(Users)
              \cup Permutations(Handles) \cup Permutations(Ids)

=============================================================================

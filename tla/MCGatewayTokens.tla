--------------------------- MODULE MCGatewayTokens ---------------------------
(* Small instances of GatewayTokens for TLC. *)
EXTENDS GatewayTokens, TLC

\* LastOf chooses among ages that differ, so the names of tokens do not matter.
Symmetry == Permutations(Tokens)

==============================================================================

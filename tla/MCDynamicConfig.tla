--------------------------- MODULE MCDynamicConfig ---------------------------
(***************************************************************************)
(* Small instances of DynamicConfig for TLC.                               *)
(***************************************************************************)
EXTENDS DynamicConfig

==============================================================================

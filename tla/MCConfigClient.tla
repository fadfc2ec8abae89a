--------------------------- MODULE MCConfigClient ---------------------------
(***************************************************************************)
(* A small instance of ConfigClient for TLC.                               *)
(***************************************************************************)
EXTENDS ConfigClient

==============================================================================

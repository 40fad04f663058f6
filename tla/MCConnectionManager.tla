------------------------ MODULE MCConnectionManager ------------------------
(* An instance of ConnectionManager for TLC. *)
EXTENDS ConnectionManager, TLC

CONSTANTS a, b, c1, c2
=============================================================================

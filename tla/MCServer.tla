------------------------------ MODULE MCServer ------------------------------
(* Instances of the server for TLC: two sessions, each of which may send a   *)
(* query, an insert or a query that does not parse.                          *)
EXTENDS Server

CONSTANTS s1, s2
=============================================================================

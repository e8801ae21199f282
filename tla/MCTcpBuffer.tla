---------------------------- MODULE MCTcpBuffer -----------------------------
(* Instances of the protocol for TLC: bytes of two values would not give a   *)
(* block of five bytes a length of two bytes, so a byte has four.            *)
EXTENDS TcpBuffer
=============================================================================

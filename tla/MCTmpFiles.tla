----------------------------- MODULE MCTmpFiles -----------------------------
(* Instances of the temporary files for TLC.                                 *)
EXTENDS TmpFiles, TLC

CONSTANTS t1, t2

\* t1 got its position in an earlier query, t2 has never asked for one.
FirstAssigned == (t1 :> 0) @@ (t2 :> None)
=============================================================================

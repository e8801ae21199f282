--------------------------- MODULE MCBufferManager ---------------------------
(* Instances of the buffer manager for TLC: two threads, a pool of two frames *)
(* and more pages than frames, so that every page is evicted and reloaded.    *)
EXTENDS BufferManager, TLC

CONSTANTS t1, t2, a1, a2, b1

\* One thread with two references, one with a single one.
TwoThreads == (a1 :> t1) @@ (a2 :> t1) @@ (b1 :> t2)
\* One thread with two references.
OneThread == (a1 :> t1) @@ (a2 :> t1)
=============================================================================

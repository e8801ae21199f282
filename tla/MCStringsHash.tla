--------------------------- MODULE MCStringsHash ----------------------------
(* Instances of the strings hash for TLC.                                    *)
EXTENDS StringsHash

CONSTANTS s1, s2, s3, s4, s5, s6, s7

\* s1 and s2 collide and s3 differs from them in the third bit only; the other
\* four need two bits while the directory may already use three.
Hashes == s1 :> 0 @@ s2 :> 0 @@ s3 :> 4 @@ s4 :> 1 @@ s5 :> 3 @@ s6 :> 7 @@ s7 :> 5
\* Lengths of one and of two digits of two bits.
Lengths == s1 :> 3 @@ s2 :> 4 @@ s3 :> 5 @@ s4 :> 2 @@ s5 :> 3 @@ s6 :> 6 @@ s7 :> 2
\* Two that fill a bucket and leave room in the block for the strings that split
\* it; one that steps over the rest of a block, and one with a string across the
\* end of a block, which both split buckets.
Imported == { <<s2, s1>>, <<s4, s5>>, <<s5, s1, s4, s2, s3>>, <<s5, s1, s3, s6, s2, s4, s7>> }
=============================================================================

---------------------------- MODULE MCPathSearch ----------------------------
(* Instances of path evaluation for TLC.                                    *)
EXTENDS PathSearch

E(f, t, y, i) == [from |-> f, type |-> t, to |-> y, id |-> i]

\* Two shortest ways from 1 to 4, a cycle and a loop; two edges between the
\* same nodes; a way from 1 to 5 in two steps and one in three.
Diamond == { E(1, "a", 2, 1), E(1, "a", 3, 2), E(2, "b", 4, 3), E(3, "b", 4, 4), E(4, "a", 1, 5), E(2, "a", 2, 6) }
Twins   == { E(1, "a", 2, 1), E(1, "a", 2, 2), E(1, "b", 2, 3), E(2, "b", 3, 4), E(3, "a", 1, 5) }
Ladder  == { E(2, "b", 1, 1), E(3, "b", 1, 2), E(4, "b", 3, 3), E(5, "b", 4, 4), E(5, "b", 2, 5) }
MCGraphs == {Diamond, Twins, Ladder}

Item(i) == <<WAtom("a", FALSE, Plain), WAtom("b", FALSE, Plain), WAtom("b", TRUE, Star), WAtom("a", FALSE, Opt)>>[i]
PairOf(i, j) == WSeq(<<Item(i), Item(j)>>)
AltOf(i, j) == WAlt(<<Item(i), Item(j)>>)

\* Sequences and alternatives of two, and around some of them a suffix.
Short   == { WGroup(PairOf(i, j), FALSE, Plain) : i \in {1, 4}, j \in 2 .. 4 }
           \cup { WGroup(AltOf(i, j), FALSE, Plain) : i \in 1 .. 2, j \in 2 .. 4 }
Starred2 == { WGroup(PairOf(i, j), TRUE, s) : i \in {1, 4}, j \in {2}, s \in {Star, Times(1, 2)} }
           \cup {WGroup(AltOf(2, 4), FALSE, Plus), WGroup(AltOf(1, 3), TRUE, Opt)}
\* A star inside a sequence that is starred or optional.
Deep    == { WGroup(PairOf(i, 3), FALSE, s) : i \in {1, 4}, s \in {Star, Opt} }

FlatQueries == Short \cup Starred2
AllQueries  == FlatQueries \cup Deep

\* ([:b]|[:a]?)+ on the diamond, which leads back to where it begins.
BackAgain == {WGroup(AltOf(2, 4), FALSE, Plus)}
OneGraph  == {Diamond}
=============================================================================

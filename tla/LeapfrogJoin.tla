---------------------------- MODULE LeapfrogJoin ----------------------------
(***************************************************************************)
(* The leapfrog join (execution/binding_id_iter/leapfrog_join.cc) and the  *)
(* two iterators it joins, over a B+ tree and over the edge table          *)
(* (storage/index/leapfrog).                                               *)
(*                                                                         *)
(* An iterator has entered the columns up to level, counted from 0 as in   *)
(* the code: its tuple agrees with the others on those.  init are the      *)
(* ranges of its first columns, then come the columns of the intersection  *)
(* variables and then those of the enumeration variables.                  *)
(***************************************************************************)
EXTENDS Objects

Got(ok, it) == [ok |-> ok, it |-> it]

\* A record that starts as r does in its first n columns.
Prefix(r, n, rest) == [i \in DOMAIN r |-> IF i <= n THEN r[i] ELSE rest]

get_key(it) == it.tuple[it.level + 1]
KeptColumns(it) == Len(it.init) + Len(it.inter)
WithEnumeration(it, b, r) == [v \in DOMAIN b |-> IF \E i \in DOMAIN it.enums : it.enums[i] = v
                                                 THEN r[KeptColumns(it) + CHOOSE i \in DOMAIN it.enums : it.enums[i] = v] ELSE b[v]]

(***************************************************************************)
(* LeapfrogBptIter.                                                        *)
(***************************************************************************)
LeapfrogBptIter(D, ix, n, init, inter, enums) ==
    [k |-> "bpt", ix |-> ix, init |-> init, inter |-> inter, enums |-> enums, level |-> -1,
     tuple |-> [i \in 1..n |-> 0], rest |-> <<>>]

\* internal_search: moves only when it finds a record.
internal_search(D, it, min, max) ==
    LET Least(within) == CHOOSE r \in within : \A s \in within : AtMost(r, s)
        Moved(within) == IF within = {} THEN Got(FALSE, it) ELSE Got(TRUE, [it EXCEPT !.tuple = Least(within)])
    IN  Moved({r \in Index(D, it.ix) : AtMost(min, r) /\ AtMost(r, max)})

BptSeek(D, it, key) ==
    internal_search(D, it, [Prefix(it.tuple, it.level, 0) EXCEPT ![it.level + 1] = key], Prefix(it.tuple, it.level, MAX_ID))
BptNext(D, it) == BptSeek(D, it, get_key(it) + 1)
BptDown(D, it) ==
    LET l == it.level + 1
    IN  internal_search(D, [it EXCEPT !.level = l], Prefix(it.tuple, l, 0), Prefix(it.tuple, l, MAX_ID)).it

BptOpenTerms(D, it, b) ==
    LET At(F(_, _), rest) == [i \in DOMAIN it.tuple |-> IF i <= Len(it.init) THEN F(it.init[i], b) ELSE rest]
    IN  internal_search(D, [it EXCEPT !.level = Len(it.init) - 1], At(get_min, 0), At(get_max, MAX_ID))

BptBeginEnumeration(D, it) == [it EXCEPT !.rest = get_range(D, it.ix, it.tuple, Prefix(it.tuple, it.level + 1, MAX_ID))]
BptNextEnumeration(it, b) ==
    IF it.rest = <<>> THEN [ok |-> FALSE, it |-> it, b |-> b]
    ELSE [ok |-> TRUE, it |-> [it EXCEPT !.rest = Tail(@)], b |-> WithEnumeration(it, b, Head(it.rest))]

(***************************************************************************)
(* LeapfrogEdgeTableIter.  Record(i) is the table's record at position     *)
(* i - 1, where edge i is.                                                 *)
(***************************************************************************)
LeapfrogEdgeTableIter(init, inter, enums, permutation) ==
    [k |-> "table", permutation |-> permutation, init |-> init, inter |-> inter, enums |-> enums, level |-> -1,
     tuple |-> <<0, 0, 0, 0>>, saved_edge_enum |-> 0, current_edge_enum |-> 0]

HasRecord(D, i) == i \in DOMAIN D.edges
RecordTuple(D, it, id, i) == <<id>> \o [c \in 1..3 |-> D.edges[i][it.permutation[c]]]
Load(D, it, id) == [it EXCEPT !.tuple = RecordTuple(D, it, id, EdgeNumber(id))]

TableDown(D, it) == IF it.level = -1 THEN [Load(D, it, MASK_EDGE + 1) EXCEPT !.level = 0] ELSE [it EXCEPT !.level = @ + 1]

TableSeek(D, it, key) ==
    IF it.level > 0 THEN Got(get_key(it) >= key, it)
    ELSE IF IsEdge(key) /\ HasRecord(D, EdgeNumber(key)) THEN Got(TRUE, Load(D, it, key))
    ELSE Got(FALSE, it)
TableNext(D, it) == IF it.level = 0 THEN TableSeek(D, it, it.tuple[1] + 1) ELSE Got(FALSE, it)

\* The level stays when there are no terms.  The record of a given edge is
\* read at the position of the edge after it.
TableOpenTerms(D, it, b) ==
    LET id == get_min(it.init[1], b)
        i == EdgeNumber(id) + 1
        at == [it EXCEPT !.tuple = RecordTuple(D, it, id, i)]
    IN  IF it.init = <<>> THEN IF HasRecord(D, 1) THEN Got(TRUE, Load(D, it, MASK_EDGE + 1)) ELSE Got(FALSE, it)
        ELSE IF ~IsEdge(id) \/ ~HasRecord(D, i) THEN Got(FALSE, it)
        ELSE IF \E c \in 2..Len(it.init) : at.tuple[c] # get_min(it.init[c], b) THEN Got(FALSE, at)
        ELSE Got(TRUE, [at EXCEPT !.level = Len(it.init) - 1])

TableBeginEnumeration(it) ==
    [it EXCEPT !.saved_edge_enum = EdgeNumber(it.tuple[1]) - 1, !.current_edge_enum = EdgeNumber(it.tuple[1]) - 1]
TableNextEnumeration(D, it, b) ==
    LET next == [it EXCEPT !.current_edge_enum = @ + 1]
        i == next.current_edge_enum
    IN  IF it.level = -1
          THEN IF HasRecord(D, i) THEN [ok |-> TRUE, it |-> next, b |-> WithEnumeration(it, b, RecordTuple(D, it, MASK_EDGE + i, i))]
               ELSE [ok |-> FALSE, it |-> next, b |-> b]
          ELSE IF it.saved_edge_enum # it.current_edge_enum THEN [ok |-> FALSE, it |-> it, b |-> b]
          ELSE [ok |-> TRUE, it |-> next, b |-> WithEnumeration(it, b, it.tuple)]

(***************************************************************************)
(* Either iterator.                                                        *)
(***************************************************************************)
IsTable(it) == it.k = "table"
IterUp(it) == [it EXCEPT !.level = @ - 1]
IterDown(D, it) == IF IsTable(it) THEN TableDown(D, it) ELSE BptDown(D, it)
IterNext(D, it) == IF IsTable(it) THEN TableNext(D, it) ELSE BptNext(D, it)
IterSeek(D, it, key) == IF IsTable(it) THEN TableSeek(D, it, key) ELSE BptSeek(D, it, key)
OpenTerms(D, it, b) == IF IsTable(it) THEN TableOpenTerms(D, it, b) ELSE BptOpenTerms(D, it, b)
BeginEnumeration(D, it) == IF IsTable(it) THEN TableBeginEnumeration(it) ELSE BptBeginEnumeration(D, it)
ResetEnumeration(D, it) == IF IsTable(it) THEN [it EXCEPT !.current_edge_enum = it.saved_edge_enum] ELSE BptBeginEnumeration(D, it)
NextEnumeration(D, it, b) == IF IsTable(it) THEN TableNextEnumeration(D, it, b) ELSE BptNextEnumeration(it, b)

(***************************************************************************)
(* LeapfrogJoin.  iters_for_var gives for each level the iterators, by     *)
(* their position, that intersect its variable.                            *)
(***************************************************************************)
LeapfrogJoin(iters, var_order, enumeration_level) ==
    [t |-> "leapfrog", iters |-> iters, var_order |-> var_order, enumeration_level |-> enumeration_level, level |-> -1,
     iters_for_var |-> [l \in 1..enumeration_level |->
         SelectSeq([i \in DOMAIN iters |-> i], LAMBDA i : var_order[l] \in ToSet(iters[i].inter))]]

ItersAt(j) == j.iters_for_var[j.level + 1]
LastAt(j) == ItersAt(j)[Len(ItersAt(j))]
Key(j, i) == get_key(j.iters[i])

\* open_terms, iterator after iterator until one fails.
RECURSIVE OpenAll(_, _, _, _)
OpenAll(D, j, b, i) ==
    IF i > Len(j.iters) THEN Got(TRUE, j)
    ELSE LET Opened(o) == Got(o.ok, [j EXCEPT !.iters[i] = o.it])
             Others(g) == IF g.ok THEN OpenAll(D, g.it, b, i + 1) ELSE g
         IN  Others(Opened(OpenTerms(D, j.iters[i], b)))

\* begin_enumeration, and next_enumeration of all but the first.
Enumerating(D, j, b) ==
    LET First(it) == BeginEnumeration(D, it)
        Step(s, i) == LET n == NextEnumeration(D, First(j.iters[i]), s.b) IN [it |-> [s.it EXCEPT !.iters[i] = n.it], b |-> n.b]
    IN  FoldLeft(Step, [it |-> [j EXCEPT !.iters[1] = First(@)], b |-> b], [i \in 1..(Len(j.iters) - 1) |-> i + 1])

JoinUp(j) ==
    [j EXCEPT !.iters = [i \in DOMAIN @ |-> IF i \in ToSet(ItersAt(j)) THEN IterUp(@[i]) ELSE @[i]], !.level = @ - 1]

JoinDown(D, j, b) ==
    LET at == [j EXCEPT !.level = @ + 1]
        down == [at EXCEPT !.iters = [i \in DOMAIN @ |-> IF i \in ToSet(ItersAt(at)) THEN IterDown(D, @[i]) ELSE @[i]]]
    IN  IF at.level = j.enumeration_level THEN Enumerating(D, at, b)
        ELSE [it |-> [down EXCEPT !.iters_for_var[at.level + 1] = SortSeq(@, LAMBDA x, y : Key(down, x) < Key(down, y))], b |-> b]

JoinReset(D, j, b) ==
    LET Closed(o) == [o EXCEPT !.it.level = -1]
        Entered(o) == IF o.ok THEN JoinDown(D, o.it, b) ELSE [it |-> o.it, b |-> b]
    IN  Entered(Closed(OpenAll(D, j, b, 1)))

\* find_intersection_for_current_level, with the p-th iterator the least.
RECURSIVE Intersect(_, _, _, _)
Intersect(D, j, max, p) ==
    LET i == ItersAt(j)[p]
        Sought(s) == IF s.ok THEN Intersect(D, [j EXCEPT !.iters[i] = s.it], get_key(s.it), (p % Len(ItersAt(j))) + 1)
                     ELSE Got(FALSE, j)
    IN  IF Key(j, i) = max THEN Got(TRUE, j) ELSE Sought(IterSeek(D, j.iters[i], max))

\* next() of the last iterator of the level.
NextOfLast(D, j) ==
    LET Moved(n) == Got(n.ok, [j EXCEPT !.iters[LastAt(j)] = n.it])
    IN  Moved(IterNext(D, j.iters[LastAt(j)]))

\* Back to a level whose last iterator moves forward: by up() from an
\* intersection that failed, where level 0 ends the join as it is.
RECURSIVE Backtrack(_, _)
Backtrack(D, j) ==
    LET Moved(n) == IF n.ok THEN n.it ELSE Backtrack(D, n.it)
    IN  IF j.level = 0 THEN [j EXCEPT !.level = -1] ELSE Moved(NextOfLast(D, JoinUp(j)))

\* After the enumeration, where up() also leaves level 0.
RECURSIVE Forward(_, _)
Forward(D, j) ==
    LET Moved(n) == IF n.ok THEN n.it ELSE Forward(D, JoinUp(n.it))
    IN  IF j.level < 0 THEN j ELSE Moved(NextOfLast(D, j))

\* The next combination of the rows that the iterators enumerate: the first
\* that has one more moves, the ones before it start again.
RECURSIVE Combine(_, _, _, _)
Combine(D, j, b, i) ==
    IF i > Len(j.iters) THEN [ok |-> FALSE, it |-> j, b |-> b]
    ELSE LET At(s, k, n) == [s EXCEPT !.it.iters[k] = n.it, !.b = n.b]
             Again(s, k) == At(s, k, NextEnumeration(D, ResetEnumeration(D, s.it.iters[k]), s.b))
             Moved(n) == IF n.ok THEN FoldLeft(Again, At([ok |-> TRUE, it |-> j, b |-> b], i, n), [k \in 1..(i - 1) |-> i - k])
                         ELSE Combine(D, [j EXCEPT !.iters[i] = n.it], b, i + 1)
         IN  Moved(NextEnumeration(D, j.iters[i], b))

RECURSIVE JoinNext(_, _, _)
JoinNext(D, j, b) ==
    IF j.level < 0 THEN [ok |-> FALSE, it |-> j, b |-> b]
    ELSE LET Again(s) == JoinNext(D, s.it, s.b)
             Found(it) == JoinDown(D, it, [b EXCEPT ![j.var_order[j.level + 1]] = Key(it, LastAt(it))])
             Intersected(f) == IF f.ok THEN Found(f.it) ELSE [it |-> Backtrack(D, f.it), b |-> b]
             Up(c) == [c EXCEPT !.it.level = @ - 1]
             Combined(c) == IF c.ok THEN c
                            ELSE IF j.enumeration_level = 0 THEN Up(c)
                            ELSE JoinNext(D, Forward(D, Up(c).it), c.b)
         IN  IF j.level < j.enumeration_level THEN Again(Intersected(Intersect(D, j, Key(j, LastAt(j)), 1)))
             ELSE Combined(Combine(D, j, b, 1))

\* assign_nulls; mutant: nothing is unset.
JoinNullsKept(j, b) == b
JoinNulls(j, b) == [v \in DOMAIN b |-> IF v \in ToSet(j.var_order) THEN NULL_ID ELSE b[v]]

=============================================================================

--------------------------- MODULE QueryIterators ---------------------------
(***************************************************************************)
(* The BindingIdIters of a query (execution/binding_id_iter): begin, next, *)
(* reset and assign_nulls.  They write the binding they share, and what a  *)
(* row before left in it stays until something overwrites it.              *)
(***************************************************************************)
EXTENDS LeapfrogJoin

Res(ok, it, b) == [ok |-> ok, it |-> it, b |-> b]

EmptyIter == [t |-> "empty"]
SingleResult == [t |-> "single", returned |-> FALSE]
IndexScan(ix, ranges) == [t |-> "scan", ix |-> ix, ranges |-> ranges, rows |-> <<>>]
EdgeTableLookup(edge, from, to, type) ==
    [t |-> "lookup", edge |-> edge, ends |-> <<from, to, type>>, already_looked |-> FALSE]
ObjectEnum(var, mask, max_count) == [t |-> "enum", var |-> var, mask |-> mask, max_count |-> max_count, current_node |-> 0]
UnionOf(iters) == [t |-> "union", iters |-> iters, current_iter |-> 1]
IndexNestedLoopJoin(lhs, rhs) == [t |-> "join", outer |-> FALSE, lhs |-> lhs, rhs |-> rhs, on |-> FALSE, must_return_null |-> FALSE]
IndexLeftOuterJoin(lhs, rhs) == [t |-> "join", outer |-> TRUE, lhs |-> lhs, rhs |-> rhs, on |-> FALSE, must_return_null |-> FALSE]

\* begin() and reset() of a scan.
Opened(D, it, b) ==
    LET Bound(F(_, _)) == [i \in DOMAIN it.ranges |-> F(it.ranges[i], b)]
    IN  [it EXCEPT !.rows = get_range(D, it.ix, Bound(get_min), Bound(get_max))]

ScanNext(it, b) ==
    IF it.rows = <<>> THEN Res(FALSE, it, b)
    ELSE Res(TRUE, [it EXCEPT !.rows = Tail(@)], Assign(b, it.ranges, LAMBDA i : Head(it.rows)[i]))

EnumNext(it, b) ==
    IF it.current_node >= it.max_count THEN Res(FALSE, it, b)
    ELSE Res(TRUE, [it EXCEPT !.current_node = @ + 1], [b EXCEPT ![it.var] = it.mask + it.current_node + 1])

\* check_id: a variable that is not null must have the value, whether this
\* row or an earlier one gave it; otherwise it gets it.
CheckId(s, id, value) ==
    IF ~s.ok THEN s
    ELSE IF IsObj(id) THEN [s EXCEPT !.ok = id.id \in {NULL_ID, value}]
    ELSE IF s.b[id.v] \in {NULL_ID, value} THEN [s EXCEPT !.b[id.v] = value]
    ELSE [s EXCEPT !.ok = FALSE]

LookupNext(D, it, b) ==
    LET looked == [it EXCEPT !.already_looked = TRUE]
        id == IF IsObj(it.edge) THEN it.edge.id ELSE b[it.edge.v]
        row == D.edges[EdgeNumber(id)]
        s == FoldLeft(LAMBDA c, i : CheckId(c, it.ends[i], row[i]), [ok |-> TRUE, b |-> b], <<1, 2, 3>>)
    IN  IF it.already_looked \/ ~IsEdge(id) \/ ~HasRecord(D, EdgeNumber(id)) THEN Res(FALSE, looked, b)
        ELSE Res(s.ok, looked, s.b)

RECURSIVE Nulls(_, _)
Nulls(it, b) ==
    CASE it.t = "scan" -> Assign(b, it.ranges, LAMBDA i : NULL_ID)
      [] it.t = "lookup" -> [v \in DOMAIN b |-> IF Var(v) \in ToSet(it.ends) \cup {it.edge} THEN NULL_ID ELSE b[v]]
      [] it.t = "enum" -> [b EXCEPT ![it.var] = NULL_ID]
      [] it.t = "union" -> Nulls(it.iters[it.current_iter], b)
      [] it.t = "leapfrog" -> JoinNulls(it, b)
      [] it.t = "join" -> Nulls(it.rhs, Nulls(it.lhs, b))
      [] OTHER -> b

RECURSIVE NextRow(_, _, _)
RECURSIVE ResetIter(_, _, _)

UnionNext(D, it, b) ==
    LET from[i \in 1..(Len(it.iters) + 1)] ==
            LET Moved(n) == IF n.ok THEN Res(TRUE, [it EXCEPT !.iters[i] = n.it, !.current_iter = i], n.b) ELSE from[i + 1]
            IN  IF i > Len(it.iters) THEN Res(FALSE, [it EXCEPT !.current_iter = i], b) ELSE Moved(NextRow(D, it.iters[i], b))
    IN  from[it.current_iter]

\* The loop of IndexNestedLoopJoin::next and IndexLeftOuterJoin::next: on is
\* FALSE when rhs is the empty iterator because lhs had no row at all.
JoinRow(D, it, b) ==
    LET Row(r, nb) == Res(TRUE, [it EXCEPT !.rhs = r.it, !.must_return_null = FALSE], nb)
        Again(l, s) == NextRow(D, [it EXCEPT !.lhs = l.it, !.rhs = s.it, !.must_return_null = it.outer], s.b)
        Left(r, l) == IF l.ok THEN Again(l, IF it.on THEN ResetIter(D, r.it, l.b) ELSE Res(TRUE, r.it, l.b))
                      ELSE Res(FALSE, [it EXCEPT !.lhs = l.it, !.rhs = r.it], l.b)
        Right(r) == IF r.ok THEN Row(r, r.b)
                    ELSE IF it.must_return_null THEN Row(r, Nulls(r.it, r.b))
                    ELSE Left(r, NextRow(D, it.lhs, r.b))
    IN  Right(IF it.on THEN NextRow(D, it.rhs, b) ELSE Res(FALSE, it.rhs, b))

NextRow(D, it, b) ==
    CASE it.t = "empty" -> Res(FALSE, it, b)
      [] it.t = "single" -> Res(~it.returned, [it EXCEPT !.returned = TRUE], b)
      [] it.t = "scan" -> ScanNext(it, b)
      [] it.t = "lookup" -> LookupNext(D, it, b)
      [] it.t = "enum" -> EnumNext(it, b)
      [] it.t = "union" -> UnionNext(D, it, b)
      [] it.t = "leapfrog" -> JoinNext(D, it, b)
      [] it.t = "join" -> JoinRow(D, it, b)

\* The first row of lhs decides whether rhs takes part.
JoinStarted(it, l, r) ==
    Res(TRUE, [it EXCEPT !.lhs = l.it, !.rhs = r.it, !.on = l.ok, !.must_return_null = it.outer /\ l.ok], r.b)

JoinOpened(D, it, b) == LET Opening(r) == Res(TRUE, r.it, r.b) IN Opening(JoinReset(D, it, b))

RECURSIVE BeginIter(_, _, _)
BeginIter(D, it, b) ==
    CASE it.t = "scan" -> Res(TRUE, Opened(D, it, b), b)
      [] it.t = "leapfrog" -> JoinOpened(D, it, b)
      [] it.t = "union" -> Res(TRUE, [it EXCEPT !.iters = [i \in DOMAIN @ |-> BeginIter(D, @[i], b).it]], b)
      [] it.t = "join" -> LET Both(l) == JoinStarted(it, l, BeginIter(D, it.rhs, l.b))
                              First(begun) == NextRow(D, begun.it, begun.b)
                          IN  Both(First(BeginIter(D, it.lhs, b)))
      [] OTHER -> Res(TRUE, it, b)

ResetIter(D, it, b) ==
    CASE it.t = "scan" -> Res(TRUE, Opened(D, it, b), b)
      [] it.t = "single" -> Res(TRUE, [it EXCEPT !.returned = FALSE], b)
      [] it.t = "lookup" -> Res(TRUE, [it EXCEPT !.already_looked = FALSE], b)
      [] it.t = "enum" -> Res(TRUE, [it EXCEPT !.current_node = 0], b)
      [] it.t = "leapfrog" -> JoinOpened(D, it, b)
      [] it.t = "union" -> Res(TRUE, [it EXCEPT !.iters = [i \in DOMAIN @ |-> ResetIter(D, @[i], b).it], !.current_iter = 1], b)
      [] it.t = "join" -> LET Both(l) == JoinStarted(it, l, IF l.ok THEN ResetIter(D, it.rhs, l.b) ELSE Res(TRUE, it.rhs, l.b))
                              First(again) == NextRow(D, again.it, again.b)
                          IN  Both(First(ResetIter(D, it.lhs, b)))
      [] OTHER -> Res(TRUE, it, b)

=============================================================================

------------------------------ MODULE Objects ------------------------------
(***************************************************************************)
(* Object ids, the indexes of the quad model as the queries see them, and  *)
(* the bindings.  A database D is                                          *)
(*   [nodes |-> set of ids, anonymous_nodes |-> their number,              *)
(*    edges |-> sequence of <<from, to, type>>,                            *)
(*    labels |-> set of <<node, label>>,                                   *)
(*    properties |-> set of <<object, key, value>>].                       *)
(* The i-th anonymous node has the id MASK_ANON + i, the i-th edge         *)
(* MASK_EDGE + i, and every other id is below.  A binding is a function    *)
(* from variables to ids.                                                  *)
(***************************************************************************)
EXTENDS Integers, Sequences, FiniteSets, FiniteSetsExt, SequencesExt, TLC

NULL_ID == 0
MASK_ANON == 50
MASK_EDGE == 100
MAX_ID == 199          \* UINT64_MAX, also OBJECT_ID_NOT_FOUND

IsEdge(id) == MASK_EDGE < id /\ id < MAX_ID
IsAnon(id) == MASK_ANON < id /\ id <= MASK_EDGE
EdgeNumber(id) == id - MASK_EDGE

\* One row for each edge that satisfies Cond, its columns in the given order.
Quads(D, cols, Cond(_)) ==
    {[c \in DOMAIN cols |-> IF cols[c] = 4 THEN MASK_EDGE + i ELSE D.edges[i][cols[c]]] : i \in {j \in DOMAIN D.edges : Cond(D.edges[j])}}
All(e) == TRUE
FromIsTo(e) == e[1] = e[2]
FromIsType(e) == e[1] = e[3]
ToIsType(e) == e[2] = e[3]

Index(D, name) ==
    CASE name = "from_to_type_edge" -> Quads(D, <<1, 2, 3, 4>>, All)
      [] name = "to_type_from_edge" -> Quads(D, <<2, 3, 1, 4>>, All)
      [] name = "type_from_to_edge" -> Quads(D, <<3, 1, 2, 4>>, All)
      [] name = "type_to_from_edge" -> Quads(D, <<3, 2, 1, 4>>, All)
      [] name = "equal_from_to" -> Quads(D, <<1, 3, 4>>, FromIsTo)
      [] name = "equal_from_to_inverted" -> Quads(D, <<3, 1, 4>>, FromIsTo)
      [] name = "equal_from_type" -> Quads(D, <<1, 2, 4>>, FromIsType)
      [] name = "equal_from_type_inverted" -> Quads(D, <<2, 1, 4>>, FromIsType)
      [] name = "equal_to_type" -> Quads(D, <<2, 1, 4>>, ToIsType)
      [] name = "equal_to_type_inverted" -> Quads(D, <<1, 2, 4>>, ToIsType)
      [] name = "equal_from_to_type" -> Quads(D, <<1, 4>>, LAMBDA e : FromIsTo(e) /\ ToIsType(e))
      [] name = "node_label" -> D.labels
      [] name = "label_node" -> {<<l[2], l[1]>> : l \in D.labels}
      [] name = "object_key_value" -> D.properties
      [] name = "key_value_object" -> {<<p[2], p[3], p[1]>> : p \in D.properties}
      [] name = "nodes" -> {<<n>> : n \in D.nodes}

\* Records are ordered by their first column that differs.
Less(r, s) == \E i \in DOMAIN r : r[i] < s[i] /\ \A j \in 1..(i - 1) : r[j] = s[j]
AtMost(r, s) == r = s \/ Less(r, s)

\* get_range: the records from min to max, in order.
get_range(D, name, min, max) == SetToSortSeq({r \in Index(D, name) : AtMost(min, r) /\ AtMost(r, max)}, Less)

(***************************************************************************)
(* An Id is an object or a variable; a ScanRange is an object, a variable  *)
(* that has its value or one that gets it from the scan.                   *)
(***************************************************************************)
Obj(id) == [k |-> "obj", id |-> id]
Var(v) == [k |-> "var", v |-> v]
IsObj(x) == x.k = "obj"

Term(id) == [k |-> "term", id |-> id]
AssignedVar(v) == [k |-> "assigned", v |-> v]
UnassignedVar(v) == [k |-> "unassigned", v |-> v]
ScanRange(x, assigned) == IF IsObj(x) THEN Term(x.id) ELSE IF assigned THEN AssignedVar(x.v) ELSE UnassignedVar(x.v)

get_min(r, b) == CASE r.k = "term" -> r.id [] r.k = "assigned" -> b[r.v] [] OTHER -> 0
get_max(r, b) == CASE r.k = "term" -> r.id [] r.k = "assigned" -> b[r.v] [] OTHER -> MAX_ID

\* try_assign, for all the ranges of a scan.
Assign(b, ranges, Value(_)) ==
    LET Of(v) == {i \in DOMAIN ranges : ranges[i].k = "unassigned" /\ ranges[i].v = v}
    IN  [v \in DOMAIN b |-> IF Of(v) = {} THEN b[v] ELSE Value(Max(Of(v)))]

============================================================================

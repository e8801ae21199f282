---------------------------- MODULE QueryPlanner ----------------------------
(***************************************************************************)
(* From a logical plan to iterators (query_optimizer/quad_model).  The     *)
(* costs that choose between the orders of a join are left out: every      *)
(* order that some costs choose is possible.                               *)
(*                                                                         *)
(* A base plan is [p |-> kind, ids |-> its columns, in |-> input vars].    *)
(* D.ids gives the id of every element in the database.                    *)
(***************************************************************************)
EXTENDS MDBQueryVisitor, QueryIterators

get_object_id(D, e) == IF e \in DOMAIN D.ids THEN D.ids[e] ELSE MAX_ID

EdgePlan(from, to, type, edge) == [p |-> "edge", ids |-> <<from, to, type, edge>>, in |-> {}]
LabelPlan(n, label) == [p |-> "label", ids |-> <<n, label>>, in |-> {}]
PropertyPlan(object, key, value) == [p |-> "property", ids |-> <<object, key, value>>, in |-> {}]
UnjointObjectPlan(var) == [p |-> "unjoint", ids |-> <<var>>, in |-> {}]

IsAssigned(pl, x) == IsObj(x) \/ x.v \in pl.in
PlanVars(pl) == {x.v : x \in {y \in ToSet(pl.ids) : ~IsAssigned(pl, y)}}

\* UnjointObjectPlan ignores the input vars.
set_input_vars(pl, vars) == IF pl.p = "unjoint" THEN pl ELSE [pl EXCEPT !.in = @ \cup vars]

(***************************************************************************)
(* The index that a plan scans, and the order of the columns in it.        *)
(***************************************************************************)
EdgeIndex(pl) ==
    LET A(x) == IsAssigned(pl, x)
        from == pl.ids[1]
        to == pl.ids[2]
        type == pl.ids[3]
        edge == pl.ids[4]
    IN  CASE from = to /\ from = type -> <<"equal_from_to_type", <<from, edge>> >>
          [] from = to /\ from # type /\ A(type) -> <<"equal_from_to_inverted", <<type, from, edge>> >>
          [] from = to /\ from # type /\ ~A(type) -> <<"equal_from_to", <<from, type, edge>> >>
          [] from # to /\ to = type /\ A(from) -> <<"equal_to_type_inverted", <<from, to, edge>> >>
          [] from # to /\ to = type /\ ~A(from) -> <<"equal_to_type", <<to, from, edge>> >>
          [] from # to /\ from = type /\ A(to) -> <<"equal_from_type_inverted", <<to, from, edge>> >>
          [] from # to /\ from = type /\ ~A(to) -> <<"equal_from_type", <<from, to, edge>> >>
          [] A(from) /\ ~A(type) -> <<"from_to_type_edge", <<from, to, type, edge>> >>
          [] ~A(from) /\ A(to) -> <<"to_type_from_edge", <<to, type, from, edge>> >>
          [] OTHER -> <<"type_from_to_edge", <<type, from, to, edge>> >>

PlanIter(D, pl) ==
    LET ids == pl.ids
        A(x) == IsAssigned(pl, x)
        Scan(c) == IndexScan(c[1], Mapped(c[2], LAMBDA x : ScanRange(x, A(x))))
    IN  CASE pl.p = "edge" /\ A(ids[4]) -> EdgeTableLookup(ids[4], ids[1], ids[2], ids[3])
          [] pl.p = "edge" /\ ~A(ids[4]) -> Scan(EdgeIndex(pl))
          [] pl.p = "label" -> Scan(IF A(ids[1]) THEN <<"node_label", ids>> ELSE <<"label_node", <<ids[2], ids[1]>> >>)
          [] pl.p = "property" -> Scan(IF A(ids[1]) THEN <<"object_key_value", ids>>
                                       ELSE <<"key_value_object", <<ids[2], ids[3], ids[1]>> >>)
          [] pl.p = "unjoint" -> UnionOf(<<IndexScan("nodes", <<UnassignedVar(ids[1].v)>>),
                                           ObjectEnum(ids[1].v, MASK_ANON, D.anonymous_nodes),
                                           ObjectEnum(ids[1].v, MASK_EDGE, Len(D.edges))>>)

(***************************************************************************)
(* The leapfrog iterator of a plan, where an index has the columns in the  *)
(* order of the join: first terms, then the intersection variables as they *)
(* are ordered, then the others.                                           *)
(***************************************************************************)
LeapfrogOrders(pl) ==
    CASE pl.p = "edge" -> << <<"from_to_type_edge", <<1, 2, 3, 4>> >>, <<"to_type_from_edge", <<2, 3, 1, 4>> >>,
                             <<"type_from_to_edge", <<3, 1, 2, 4>> >>, <<"type_to_from_edge", <<3, 2, 1, 4>> >> >>
      [] pl.p = "label" -> << <<"node_label", <<1, 2>> >>, <<"label_node", <<2, 1>> >> >>
      [] pl.p = "property" -> << <<"object_key_value", <<1, 2, 3>> >>, <<"key_value_object", <<2, 3, 1>> >> >>
      [] OTHER -> <<>>

TableOrders == << <<1, 2, 3>>, <<1, 3, 2>>, <<2, 1, 3>>, <<2, 3, 1>>, <<3, 1, 2>>, <<3, 2, 1>> >>

\* A variable in two columns of an edge.  An edge that is an object is asked
\* for its variable all the same, and the query fails.
RepeatedVar(pl) == \E i, j \in DOMAIN pl.ids : i # j /\ ~IsObj(pl.ids[i]) /\ pl.ids[i] = pl.ids[j]
RepeatedEnds(pl) == \E i, j \in 1..3 : i # j /\ ~IsObj(pl.ids[i]) /\ pl.ids[i] = pl.ids[j]
Throws(pl) == pl.p = "edge" /\ IsObj(pl.ids[4]) /\ ~RepeatedEnds(pl) /\ \E i \in 1..3 : ~IsObj(pl.ids[i])

get_leapfrog_iter(D, pl, inter) ==
    LET enum == Len(inter)
        LevelOf(x) == CASE IsAssigned(pl, x) -> -1
                        [] ~IsAssigned(pl, x) /\ x.v \in ToSet(inter) -> (CHOOSE i \in DOMAIN inter : inter[i] = x.v) - 1
                        [] OTHER -> enum
        Lvl(i) == LevelOf(pl.ids[i])
        Ordered(cols) == \A i, j \in DOMAIN cols : i < j => Lvl(cols[i]) <= Lvl(cols[j])
        Cols(cols, Cond(_)) == Mapped(SelectSeq(cols, LAMBDA c : Cond(Lvl(c))), LAMBDA c : pl.ids[c])
        Parts(cols) == [init |-> Mapped(Cols(cols, LAMBDA l : l = -1), LAMBDA x : ScanRange(x, TRUE)),
                        inter |-> Mapped(Cols(cols, LAMBDA l : -1 < l /\ l < enum), LAMBDA x : x.v),
                        enums |-> Mapped(Cols(cols, LAMBDA l : l = enum), LAMBDA x : x.v)]
        table == SelectSeq(TableOrders, LAMBDA c : Ordered(<<4>> \o c))
        trees == SelectSeq(LeapfrogOrders(pl), LAMBDA o : Ordered(o[2]))
    IN  IF pl.p = "edge" /\ RepeatedVar(pl) THEN <<>>
        ELSE IF pl.p = "edge" /\ table # <<>>
          THEN LET s == Parts(<<4>> \o table[1]) IN <<LeapfrogEdgeTableIter(s.init, s.inter, s.enums, table[1])>>
        ELSE IF trees # <<>>
          THEN LET s == Parts(trees[1][2]) IN <<LeapfrogBptIter(D, trees[1][1], Len(pl.ids), s.init, s.inter, s.enums)>>
        ELSE <<>>

(***************************************************************************)
(* LeapfrogOptimizer: the variables of two plans or more, connected ones   *)
(* first, then the others.                                                 *)
(***************************************************************************)
PlansOf(plans, v) == {i \in DOMAIN plans : v \in PlanVars(plans[i])}
AllVars(plans) == UNION {PlanVars(plans[i]) : i \in DOMAIN plans}
IntersectionVars(plans) == {v \in AllVars(plans) : Cardinality(PlansOf(plans, v)) > 1}

RECURSIVE VarOrders(_, _, _, _)
VarOrders(plans, order, left, connected) ==
    IF left = {} THEN {order}
    ELSE UNION {LET next == UNION {PlanVars(plans[i]) : i \in PlansOf(plans, v)}
                IN  VarOrders(plans, Append(order, v), left \ {v}, (connected \cup (next \cap left)) \ {v}) :
                    v \in IF connected = {} THEN left ELSE connected}

\* The plans are asked one after the other until one has no iterator or
\* throws; those of isolated variables, which have none, come first.
Outcome(threw, iters) == [threw |-> threw, iters |-> iters]
try_get_iter(D, plans, inter) ==
    LET iters == Mapped(plans, LAMBDA pl : IF Throws(pl) THEN <<>> ELSE get_leapfrog_iter(D, pl, inter))
        throwing == {i \in DOMAIN plans : Throws(plans[i])}
        without == {i \in DOMAIN plans : iters[i] = <<>>} \ throwing
        join == LeapfrogJoin(FlattenSeq(iters), inter \o Listed(AllVars(plans) \ IntersectionVars(plans)), Len(inter))
    IN  {Outcome(TRUE, <<>>) : i \in {j \in throwing : \A k \in without : plans[k].p # "unjoint"}}
        \cup {Outcome(FALSE, <<>>) : i \in without}
        \cup IF throwing \cup without = {} THEN {Outcome(FALSE, <<join>>)} ELSE {}

(***************************************************************************)
(* GreedyOptimizer (SelingerOptimizer is for at most MAX_SELINGER_PLANS    *)
(* plans, which is 0): left deep, at each step the join that costs least,  *)
(* a cartesian product only if there is no other.  With the costs left     *)
(* out every order is tried: those that it may choose, and more.           *)
(***************************************************************************)
RECURSIVE LeftDeep(_, _, _, _)
LeftDeep(D, left, vars, it) ==
    IF left = {} THEN {it}
    ELSE UNION {LET rhs == set_input_vars(pl, vars)
                IN  LeftDeep(D, left \ {pl}, vars \cup PlanVars(rhs), IndexNestedLoopJoin(it, PlanIter(D, rhs))) : pl \in left}

FirstScans(D, plans) ==
    UNION {LeftDeep(D, ToSet(plans) \ {pl}, PlanVars(pl), PlanIter(D, pl)) : pl \in ToSet(plans)}

(***************************************************************************)
(* BindingIdIterVisitor.  s is the visitor: the variables assigned so far, *)
(* those with a fixed value, the properties that WHERE pushes into every   *)
(* pattern, and whether it threw.  Each result has the iterator of op.     *)
(***************************************************************************)
IdOf(D, s, e) ==
    IF ~IsVar(e) THEN Obj(get_object_id(D, e))
    ELSE IF e \in DOMAIN s.fixed THEN Obj(s.fixed[e]) ELSE Var(e)

term_exists(D, id) ==
    CASE IsEdge(id) -> EdgeNumber(id) <= Len(D.edges)
      [] IsAnon(id) -> id - MASK_ANON <= D.anonymous_nodes
      [] OTHER -> id \in D.nodes

PushWhere(s, b) == FoldSet(LAMBDA p, c : add_property(c, p), b, s.where)
Refused(s, b) == \E p, q \in b.properties \cup s.where : SameProperty(p, q) /\ p.value # q.value

\* A property of a variable fixes the variable of its value.
FixValues(D, s, b) ==
    LET new == [x \in {PropertyVar(p.node, p.key) : p \in {q \in b.properties : IsVar(q.node)}} |->
                   get_object_id(D, (CHOOSE p \in b.properties : IsVar(p.node) /\ PropertyVar(p.node, p.key) = x).value)]
    IN  [s EXCEPT !.fixed = @ @@ new]

BasePlans(D, s, b) ==
    {UnjointObjectPlan(Var(v)) : v \in {x \in b.isolated_vars : x \notin DOMAIN s.fixed /\ \A p \in s.where : p.node # x}}
    \cup {LabelPlan(IdOf(D, s, l.node), Obj(get_object_id(D, Elem("string", l.label)))) : l \in b.labels}
    \cup {PropertyPlan(IdOf(D, s, p.node), Obj(get_object_id(D, Elem("string", p.key))), Obj(get_object_id(D, p.value))) : p \in b.properties}
    \cup {EdgePlan(IdOf(D, s, e.from), IdOf(D, s, e.to), IdOf(D, s, e.type), IdOf(D, s, e.edge)) : e \in b.edges}

\* A term, or a variable with a fixed value, that stands alone and is not in
\* the database.  WHERE is pushed between the two tests.
MissingTerm(D, b) == \E t \in b.isolated_terms : ~term_exists(D, get_object_id(D, t))
MissingVar(D, s, b) == \E v \in b.isolated_vars \cap DOMAIN s.fixed : ~term_exists(D, s.fixed[v])

BgpIters(D, s, bgp) ==
    LET b == PushWhere(s, bgp)
        s1 == FixValues(D, s, b)
        plans == Mapped(Listed(BasePlans(D, s, b)), LAMBDA pl : set_input_vars(pl, s.assigned))
        done == [s1 EXCEPT !.assigned = @ \cup AllVars(plans)]
        leapfrog == IF Len(plans) < 2 THEN {Outcome(FALSE, <<>>)}
                    ELSE UNION {try_get_iter(D, plans, o) : o \in VarOrders(plans, <<>>, IntersectionVars(plans), {})}
        iters == UNION {ToSet(l.iters) : l \in leapfrog} \cup IF Outcome(FALSE, <<>>) \in leapfrog THEN FirstScans(D, plans) ELSE {}
        nothing == {[s |-> s, it |-> EmptyIter]}
        threw == {[s |-> [s EXCEPT !.threw = TRUE], it |-> EmptyIter]}
    IN  IF MissingTerm(D, bgp) THEN nothing
        ELSE IF Refused(s, bgp) THEN threw
        ELSE IF MissingVar(D, s, bgp) THEN nothing
        ELSE IF plans = <<>> THEN {[s |-> s1, it |-> SingleResult]}
        ELSE {[s |-> done, it |-> i] : i \in iters} \cup IF Outcome(TRUE, <<>>) \in leapfrog THEN threw ELSE {}

RECURSIVE PatternIters(_, _, _)
PatternIters(D, s, op) ==
    IF op.k = "bgp" THEN BgpIters(D, s, op)
    ELSE FoldLeft(LAMBDA rs, child :
                      UNION {{[s |-> c.s, it |-> IndexLeftOuterJoin(r.it, c.it)] : c \in PatternIters(D, r.s, child)} : r \in rs},
                  PatternIters(D, s, op.op), op.optionals)

(***************************************************************************)
(* BindingIterVisitor.  Expr2BindingExpr moves equalities between a        *)
(* property and a constant out of WHERE, unless they are under OR or NOT.  *)
(***************************************************************************)
IsPushable(e) == e.op = "EQ" /\ {e.args[1].op, e.args[2].op} = {"property", "constant"}
Pushed(e) ==
    LET prop == IF e.args[1].op = "property" THEN e.args[1].elem ELSE e.args[2].elem
        const == IF e.args[1].op = "constant" THEN e.args[1].elem ELSE e.args[2].elem
    IN  OpProperty(ObjectOf(prop), <<prop.v[2]>>, const)

RECURSIVE Conjuncts(_)
Conjuncts(exprs) == FlattenSeq(Mapped(exprs, LAMBDA e : IF e.op = "and" THEN Conjuncts(e.args) ELSE <<e>>))
WhereProperties(q) == {Pushed(e) : e \in {x \in ToSet(Conjuncts(q.where)) : IsPushable(x)}}
WhereRest(q) == SelectSeq(Conjuncts(q.where), LAMBDA e : ~IsPushable(e))

ItemVars(q) == {q.items[i].var : i \in DOMAIN q.items} \cup {q.order[i].var : i \in DOMAIN q.order}
WhereVars(q) == UNION {ExprVars(q.where[i]) : i \in DOMAIN q.where}
OpVars(q) == PatternVars(q.pattern) \cup ItemVars(q) \cup WhereVars(q) \cup {q.set[i].var : i \in DOMAIN q.set}

\* Properties that are only read become optional scans.
ReadProperties(q, fixed) == {v \in ItemVars(q) \cup WhereVars(q) : IsProperty(v) /\ v \notin DOMAIN fixed}
WithProperties(D, it, vars) ==
    FoldLeft(LAMBDA i, v : IndexLeftOuterJoin(i, IndexScan("object_key_value",
                 <<AssignedVar(ObjectOf(v)), Term(get_object_id(D, Elem("string", <<v.v[2]>>))), UnassignedVar(v)>>)),
             it, Listed(vars))

PhysicalPlans(D, q) ==
    LET set == [v \in {q.set[i].var : i \in DOMAIN q.set} |->
                   get_object_id(D, q.set[CHOOSE i \in DOMAIN q.set : q.set[i].var = v].elem)]
        s == [assigned |-> {}, fixed |-> set, where |-> WhereProperties(q), threw |-> FALSE]
    IN  {[threw |-> r.s.threw, it |-> WithProperties(D, r.it, ReadProperties(q, r.s.fixed)),
          b |-> [v \in OpVars(q) |-> IF v \in DOMAIN r.s.fixed THEN r.s.fixed[v] ELSE NULL_ID]] :
            r \in PatternIters(D, s, q.pattern)}

\* BindingExpr::eval, for conditions that are TRUE or FALSE.
RECURSIVE EvalExpr(_, _, _)
EvalExpr(D, b, e) ==
    LET Value(x) == IF x.op = "constant" THEN get_object_id(D, x.elem) ELSE b[x.elem]
        Arg(i) == EvalExpr(D, b, e.args[i])
    IN  CASE e.op = "and" -> \A i \in DOMAIN e.args : Arg(i)
          [] e.op = "or" -> \E i \in DOMAIN e.args : Arg(i)
          [] e.op = "K_NOT" -> ~Arg(1)
          [] e.op = "EQ" -> Value(e.args[1]) = Value(e.args[2])
          [] e.op = "NEQ" -> Value(e.args[1]) # Value(e.args[2])
          [] e.op = "is" -> (Value(e.args[1]) = NULL_ID) # e.not

=============================================================================

-------------------------- MODULE MDBQueryVisitor --------------------------
(***************************************************************************)
(* From the tree of a query to its logical plan (grammar/mdb/query_visitor *)
(* .h and op/mdb), and the three passes over the plan: CheckVarNames,      *)
(* CheckWellDesigned and OptimizeOptionalTree.                             *)
(*                                                                         *)
(* A QueryElement is [k |-> kind, v |-> text], the text a tuple: <<name>>, *)
(* <<name, key>> for the variable of a property, <<"_", n>> for the n-th   *)
(* anonymous variable, which no query can write.  The text of a token is   *)
(* without its delimiters (? : . and quotes).  A visitor is the record of  *)
(* its members; an exception sets err, after which nothing matters.        *)
(***************************************************************************)
EXTENDS Grammar, SequencesExt, TLC

Paths == INSTANCE PathExpressions WITH Types <- {}, MaxWord <- 0

(* The tree. *)
IsRule(n, r) == "rule" \in DOMAIN n /\ n.rule = r
IsTok(n, t) == "tok" \in DOMAIN n /\ n.tok = t
Kids(n, r) == SelectSeq(n.kids, LAMBDA x : IsRule(x, r))
Toks(n, t) == SelectSeq(n.kids, LAMBDA x : IsTok(x, t))
HasKid(n, r) == Kids(n, r) # <<>>
HasTok(n, t) == Toks(n, t) # <<>>
Kid(n, r) == Kids(n, r)[1]
Txt(n, t) == Toks(n, t)[1].v
Only(n) == n.kids[1]
Mapped(s, F(_)) == [i \in DOMAIN s |-> F(s[i])]
Listed(S) == FoldSet(LAMBDA a, s : Append(s, a), <<>>, S)   \* in some order

Elem(k, v) == [k |-> k, v |-> v]
Variable(v) == Elem("var", v)
IsVar(e) == e.k = "var"

\* deduce: by the first character of the text, here the kind of the first
\* token.  Only lower case true and false are Boolean.
deduce(n) ==
    LET Deduced(t, text) ==
            CASE t = "VARIABLE" -> Variable(text)
              [] t = "STRING" -> Elem("string", text)
              [] t = "ANON_ID" -> Elem("anon", text)
              [] t = "EDGE_ID" -> Elem("edge", text)
              [] t = "UNSIGNED_INTEGER" -> Elem("int", text)
              [] t = "UNSIGNED_FLOAT" -> Elem("float", text)
              [] t \in {"K_TRUE", "K_FALSE"} /\ text[1] \in {"true", "false"} -> Elem("bool", text)
              [] OTHER -> Elem("named", text)
    IN  Deduced(Last(Yield(n)).tok, Mapped(Yield(n), LAMBDA t : t.v))

\* VARIABLE KEY?: ?x or ?x.key
VarKey(n) == Variable(IF HasTok(n, "KEY") THEN <<Txt(n, "VARIABLE"), Txt(n, "KEY")>> ELSE <<Txt(n, "VARIABLE")>>)
ObjectOf(var) == Variable(<<var.v[1]>>)
IsProperty(var) == Len(var.v) = 2 /\ var.v[1] # "_"

(***************************************************************************)
(* OpBasicGraphPattern.                                                    *)
(***************************************************************************)
VarsOf(S) == {e \in S : IsVar(e)}
PropertyVar(node, key) == Variable(node.v \o key)

OpLabel(node, label) == [node |-> node, label |-> label]
OpProperty(node, key, value) == [node |-> node, key |-> key, value |-> value]
OpEdge(from, to, type, edge) == [from |-> from, to |-> to, type |-> type, edge |-> edge]
OpPath(var, from, to, all, path) == [var |-> var, from |-> from, to |-> to, all |-> all, path |-> path]

LabelVars(l) == VarsOf({l.node})
PropertyVars(p) == IF IsVar(p.node) THEN {p.node, PropertyVar(p.node, p.key)} ELSE {}
EdgeVars(e) == VarsOf({e.from, e.to, e.type, e.edge})
PathVars(p) == VarsOf({p.from, p.to}) \cup {p.var}

OpBasicGraphPattern ==
    [k |-> "bgp", labels |-> {}, properties |-> {}, edges |-> {}, paths |-> {},
     isolated_vars |-> {}, isolated_terms |-> {}, vars |-> {}]

add_label(b, l) == [b EXCEPT !.labels = @ \cup {l}, !.vars = @ \cup LabelVars(l)]

\* Properties are compared by object and key only.
SameProperty(p, q) == p.node = q.node /\ p.key = q.key
Contradicts(b, p) == \E q \in b.properties : SameProperty(p, q) /\ p.value # q.value
add_property(b, p) == [b EXCEPT !.properties = @ \cup {p}, !.vars = @ \cup PropertyVars(p)]

add_edge(b, e) == [b EXCEPT !.edges = @ \cup {e}, !.vars = @ \cup EdgeVars(e)]

\* Paths are compared by their ends and expression, not by their variable.
add_path(b, p) ==
    [b EXCEPT !.paths = IF \E q \in @ : q.from = p.from /\ q.to = p.to /\ q.path = p.path THEN @ ELSE @ \cup {p},
              !.vars = @ \cup PathVars(p)]

add_isolated_var(b, v) == [b EXCEPT !.isolated_vars = @ \cup {v}, !.vars = @ \cup {v}]
try_add_possible_isolated_var(b, v) == IF v \in b.vars THEN b ELSE add_isolated_var(b, v)
add_isolated_term(b, t) == [b EXCEPT !.isolated_terms = @ \cup {t}]

OpOptional(op, optionals) == [k |-> "optional", op |-> op, optionals |-> optionals]

\* get_vars of a pattern.
RECURSIVE PatternVars(_)
PatternVars(op) ==
    IF op.k = "bgp" THEN op.vars
    ELSE PatternVars(op.op) \cup UNION {PatternVars(op.optionals[i]) : i \in DOMAIN op.optionals}

(***************************************************************************)
(* Graph patterns.                                                         *)
(***************************************************************************)
QueryVisitor ==
    [anon_var_counter |-> 0, bgp |-> OpBasicGraphPattern, possible_isolated_vars |-> {}, first_element_isolated |-> FALSE,
     last_node_id |-> Elem("none", <<>>), saved_node_id |-> Elem("none", <<>>), op |-> OpBasicGraphPattern, err |-> FALSE]

Anon(s, i) == Variable(<<"_", s.anon_var_counter + i>>)
Took(s, n) == [s EXCEPT !.anon_var_counter = @ + n]

PropertyValue(p) ==
    CASE HasKid(p, "value") -> deduce(Kid(p, "value"))
      [] HasTok(p, "TRUE_PROP") -> Elem("bool", <<"true">>)
      [] OTHER -> Elem("bool", <<"false">>)

\* The properties written after a node or inside an edge.
AddProperties(s, n, id) ==
    LET Added(st, new) == IF Contradicts(st.bgp, new) THEN [st EXCEPT !.err = TRUE] ELSE [st EXCEPT !.bgp = add_property(@, new)]
    IN  IF ~HasKid(n, "properties") THEN s
        ELSE FoldLeft(LAMBDA st, p : Added(st, OpProperty(id, deduce(Kid(p, "identifier")).v, PropertyValue(p))),
                      s, Kids(Kid(n, "properties"), "property"))

visitFixedNodeInside(s, n) ==
    LET Seen(id) == [s EXCEPT !.last_node_id = id, !.bgp = IF s.first_element_isolated THEN add_isolated_term(@, id) ELSE @]
    IN  Seen(deduce(n))

visitVarNode(s, n) ==
    LET named == HasTok(n, "VARIABLE")
        id == IF named THEN Variable(<<Txt(n, "VARIABLE")>>) ELSE Anon(s, 0)
        isolated == s.first_element_isolated /\ ~HasTok(n, "TYPE") /\ ~HasKid(n, "properties")
        s1 == IF named
                THEN [s EXCEPT !.possible_isolated_vars = IF isolated THEN @ \cup {id} ELSE @]
                ELSE [Took(s, 1) EXCEPT !.bgp = IF isolated THEN add_isolated_var(@, id) ELSE @]
        s2 == FoldLeft(LAMBDA st, t : [st EXCEPT !.bgp = add_label(@, OpLabel(id, <<t.v>>))], s1, Toks(n, "TYPE"))
    IN  [AddProperties(s2, n, id) EXCEPT !.last_node_id = id]

visitNode(s, n) ==
    IF IsRule(Only(n), "fixedNode") THEN visitFixedNodeInside(s, Kid(Only(n), "fixedNodeInside"))
    ELSE visitVarNode(s, Only(n))

\* The edge and its type, and the visitor that has named the anonymous ones.
EdgeId(s, n) ==
    CASE HasTok(n, "VARIABLE") -> Variable(<<Txt(n, "VARIABLE")>>)
      [] HasTok(n, "EDGE_ID") -> Elem("edge", <<Txt(n, "EDGE_ID")>>)
      [] OTHER -> Anon(s, 0)
TypeId(s, n) ==
    CASE HasTok(n, "TYPE_VAR") -> Variable(<<Txt(n, "TYPE_VAR")>>)
      [] HasTok(n, "TYPE") -> Elem("named", <<Txt(n, "TYPE")>>)
      [] OTHER -> Anon(s, 0)

visitEdge(s, n) ==
    LET inside == IF HasKid(n, "edgeInside") THEN Kid(n, "edgeInside") ELSE Node("edgeInside", <<>>)
        edge == EdgeId(s, inside)
        s1 == IF edge = Anon(s, 0) THEN Took(s, 1) ELSE s
        type == TypeId(s1, inside)
        s2 == AddProperties(IF type = Anon(s1, 0) THEN Took(s1, 1) ELSE s1, inside, edge)
    IN  [s2 EXCEPT !.bgp = add_edge(@, IF HasTok(n, "GT") THEN OpEdge(s.saved_node_id, s.last_node_id, type, edge)
                                                          ELSE OpEdge(s.last_node_id, s.saved_node_id, type, edge))]

\* What a path writes, for Paths!visit.
Number(text) == CHOOSE n \in 0..9 : ToString(n) = text
Suffix(n) ==
    IF ~HasKid(n, "pathSuffix") THEN Paths!Plain
    ELSE LET x == Kid(n, "pathSuffix")
         IN  CASE HasTok(x, "STAR") -> Paths!Star
               [] HasTok(x, "PLUS") -> Paths!Plus
               [] HasTok(x, "QUESTION_MARK") -> Paths!Opt
               [] OTHER -> LET m == Toks(x, "UNSIGNED_INTEGER") IN Paths!Times(Number(m[1].v), Number(m[2].v))

RECURSIVE Written(_)
Written(n) ==
    LET inv == HasTok(n, "PATH_NEGATION")
        Many(items, F(_)) == IF Len(items) > 1 THEN F(Mapped(items, Written)) ELSE Written(items[1])
    IN  CASE n.rule = "pathAlternatives" -> Many(Kids(n, "pathSequence"), Paths!WAlt)
          [] n.rule = "pathSequence" -> Many(Kids(n, "pathAtom"), Paths!WSeq)
          [] n.rule = "pathAtom" -> Written(Only(n))
          [] n.rule = "pathAtomSimple" -> Paths!WAtom(Txt(n, "TYPE"), inv, Suffix(n))
          [] OTHER -> Paths!WGroup(Written(Kid(n, "pathAlternatives")), inv, Suffix(n))

visitPath(s, n) ==
    LET named == HasTok(n, "VARIABLE")
        var == IF named THEN Variable(<<Txt(n, "VARIABLE")>>) ELSE Anon(s, 0)
        all == HasKid(n, "pathType") /\ HasTok(Kid(n, "pathType"), "K_ALL")
        path == Paths!visit(Written(Kid(n, "pathAlternatives")), FALSE)
    IN  [(IF named THEN s ELSE Took(s, 1)) EXCEPT !.bgp =
            add_path(@, IF HasTok(n, "GT") THEN OpPath(var, s.saved_node_id, s.last_node_id, all, path)
                                           ELSE OpPath(var, s.last_node_id, s.saved_node_id, all, path))]

\* The first node, then each node before the edge or path that leads to it.
visitLinearPattern(s, n) ==
    LET Saved(st) == [st EXCEPT !.saved_node_id = st.last_node_id]
        Link(st, x) == IF IsRule(x, "edge") THEN visitEdge(st, x) ELSE visitPath(st, x)
        first == Saved(visitNode([s EXCEPT !.first_element_isolated = Len(n.kids) = 1], n.kids[1]))
        at[i \in 0..((Len(n.kids) - 1) \div 2)] ==
            IF i = 0 THEN first ELSE Saved(Link(visitNode(at[i - 1], n.kids[2 * i + 1]), n.kids[2 * i]))
    IN  at[(Len(n.kids) - 1) \div 2]

\* possible_isolated_vars is never cleared: a pattern also takes those that
\* patterns before it left.
visitBasicPattern(s, n) ==
    LET WithIsolated(s1) == [s1 EXCEPT !.bgp = FoldSet(LAMBDA v, b : try_add_possible_isolated_var(b, v), @, s1.possible_isolated_vars)]
    IN  WithIsolated(FoldLeft(visitLinearPattern, [s EXCEPT !.bgp = OpBasicGraphPattern], Kids(n, "linearPattern")))

RECURSIVE visitGraphPattern(_, _)
visitGraphPattern(s, n) ==
    LET Main(s1) == [s |-> s1, op |-> s1.bgp, optionals |-> <<>>]
        Optional(r, s1) == [r EXCEPT !.s = s1, !.optionals = Append(@, s1.op)]
        Built(r) == [r.s EXCEPT !.op = IF r.optionals = <<>> THEN r.op ELSE OpOptional(r.op, r.optionals)]
    IN  Built(FoldLeft(LAMBDA r, o : Optional(r, visitGraphPattern(r.s, Kid(o, "graphPattern"))),
                       Main(visitBasicPattern(s, Kid(n, "basicPattern"))), Kids(n, "optionalPattern")))

(***************************************************************************)
(* Expressions.  The code tests '|' where the token of modulo is '%', so   *)
(* modulo throws.                                                          *)
(***************************************************************************)
Expr(op, args) == [op |-> op, args |-> args]
Leaf(op, e) == [op |-> op, args |-> <<>>, elem |-> e]
Is(not, type, arg) == [op |-> "is", args |-> <<arg>>, not |-> not, type |-> type]
Modulo == "PERCENT"

RECURSIVE visitExpr(_)
visitExpr(n) ==
    LET \* one operand alone, or the list of them
        ListIn(op, r) == LET ks == Kids(n, r)
                         IN  IF Len(ks) > 1 THEN Expr(op, Mapped(ks, visitExpr)) ELSE visitExpr(ks[1])
        \* operands and operators alternate: the next operand takes all so far for its left one
        LeftToRight == LET at[i \in 0..(Len(n.kids) \div 2)] ==
                               IF i = 0 THEN visitExpr(n.kids[1])
                               ELSE Expr(n.kids[2 * i].tok, <<at[i - 1], visitExpr(n.kids[2 * i + 1])>>)
                       IN  at[Len(n.kids) \div 2]
    IN  CASE n.rule = "conditionalOrExpr" -> ListIn("or", "conditionalAndExpr")
          [] n.rule = "conditionalAndExpr" -> ListIn("and", "comparisonExpr")
          [] n.rule = "comparisonExprIs" ->
               Is(HasTok(n, "K_NOT"), Only(Kid(n, "exprTypename")).tok, visitExpr(Kid(n, "additiveExpr")))
          [] n.rule \in {"comparisonExprOp", "additiveExpr", "multiplicativeExpr"} -> LeftToRight
          [] n.rule = "unaryExpr" /\ Len(n.kids) = 2 -> Expr(n.kids[1].tok, <<visitExpr(n.kids[2])>>)
          [] n.rule = "exprVar" -> Leaf(IF HasTok(n, "KEY") THEN "property" ELSE "var", VarKey(n))
          [] n.rule = "exprValueExpr" -> Leaf("constant", deduce(n))
          [] n.rule = "exprParenthesis" -> visitExpr(n.kids[2])
          [] OTHER -> visitExpr(Only(n))

RECURSIVE SubExprs(_)
SubExprs(e) == {e} \cup UNION {SubExprs(e.args[i]) : i \in DOMAIN e.args}
ExprVars(e) == {x.elem : x \in {y \in SubExprs(e) : y.op \in {"var", "property"}}}

(***************************************************************************)
(* The items of RETURN, ORDER BY and GROUP BY.                             *)
(***************************************************************************)
ReturnItem(f, var) == [f |-> f, var |-> var]
CountOf(n) ==
    ReturnItem(IF HasTok(n, "K_DISTINCT") THEN "count distinct" ELSE "count",
               IF HasTok(n, "VARIABLE") THEN VarKey(n) ELSE Elem("star", <<>>))
visitItem(n) ==
    CASE n.rule \in {"returnItemVar", "orderByItemVar"} -> ReturnItem("", VarKey(n))
      [] n.rule \in {"returnItemAgg", "orderByItemAgg"} -> ReturnItem(Only(Kid(n, "aggregateFunc")).tok, VarKey(n))
      [] OTHER -> CountOf(n)

\* The variable of an item is named after what it computes.
get_var(item) == IF item.f = "" THEN item.var ELSE Elem("agg", <<item.f>> \o item.var.v)

visitMatchStatement(n) == visitGraphPattern(QueryVisitor, Kid(Kid(n, "matchStatement"), "graphPattern"))

\* The logical plan of a MATCH query, v its pattern: OpReturn over OpOrderBy, OpGroupBy,
\* OpWhere and OpMatch, those that are there, and OpSet around it.
visitMatchQuery(n, set, v) ==
    LET where == IF HasKid(n, "whereStatement") THEN <<visitExpr(Kid(Kid(n, "whereStatement"), "conditionalOrExpr"))>> ELSE <<>>
        group == IF HasKid(n, "groupByStatement") THEN Mapped(Kids(Kid(n, "groupByStatement"), "groupByItem"), VarKey) ELSE <<>>
        order == IF HasKid(n, "orderByStatement") THEN Mapped(Kids(Kid(n, "orderByStatement"), "orderByItem"), Only) ELSE <<>>
        ret == Only(Kid(n, "returnStatement"))
        items == Mapped(order, visitItem)
        all == {x \in PatternVars(v.op) \cup UNION {ExprVars(where[i]) : i \in DOMAIN where} \cup ToSet(group)
                       \cup {get_var(items[i]) : i \in DOMAIN items} : x.v[1] # "_"}
    IN  [k |-> "match", pattern |-> v.op, set |-> set, where |-> where, group |-> group, order |-> items,
         ascending |-> Mapped(order, LAMBDA x : ~HasTok(x, "K_DESC")),
         items |-> IF ret.rule = "returnList" THEN Mapped(Kids(ret, "returnItem"), LAMBDA x : visitItem(Only(x)))
                                              ELSE Listed({ReturnItem("", x) : x \in all}),
         distinct |-> HasTok(ret, "K_DISTINCT"),
         limit |-> Mapped(Toks(ret, "UNSIGNED_INTEGER"), LAMBDA t : Number(t.v)),
         err |-> v.err \/ \E i \in DOMAIN where : \E e \in SubExprs(where[i]) : e.op = Modulo]

visitSetItem(n) == [var |-> Variable(<<Txt(n, "VARIABLE")>>), elem |-> deduce(Kid(n, "fixedNodeInside"))]

\* INSERT: the labels, properties and edges in the order in which it lists them,
\* as often as it does (exec_inserts stops at one that is there: QuadModel).
visitInsertLabelElement(n) ==
    OpLabel(IF HasKid(n, "identifier") THEN deduce(Kid(n, "identifier")) ELSE Elem("anon", <<Txt(n, "ANON_ID")>>),
            <<Txt(n, "STRING")>>)
visitInsertPropertyElement(n) ==
    OpProperty(deduce(Kid(n, "fixedNodeInside")), <<Txt(n, "STRING")>>, deduce(Kid(n, "value")))
visitInsertEdgeElement(n) ==
    LET ends == Kids(n, "fixedNodeInside")
    IN  OpEdge(deduce(ends[1]), deduce(ends[2]), deduce(Kid(n, "identifier")), Variable(<<"e">>))

visitInsertQuery(n) ==
    LET list == n.kids[2]
        Each(r, F(_)) == Mapped(Kids(list, r), F)
    IN  [k |-> "insert", labels |-> Each("insertLabelElement", visitInsertLabelElement),
         properties |-> Each("insertPropertyElement", visitInsertPropertyElement),
         edges |-> Each("insertEdgeElement", visitInsertEdgeElement), err |-> FALSE]

\* The logical plan of a tree.
visitRoot(n) ==
    LET set == IF HasKid(n, "setStatement") THEN Mapped(Kids(Kid(n, "setStatement"), "setItem"), visitSetItem) ELSE <<>>
    IN  CASE HasKid(n, "matchQuery") -> visitMatchQuery(Kid(n, "matchQuery"), set, visitMatchStatement(Kid(n, "matchQuery")))
          [] HasKid(n, "insertQuery") -> visitInsertQuery(Kid(n, "insertQuery"))
          [] OTHER -> [k |-> "describe", node |-> deduce(Kid(Kid(n, "describeQuery"), "fixedNodeInside")), err |-> FALSE]


(***************************************************************************)
(* CheckVarNames: what it has declared after each basic pattern, in the    *)
(* order of the visit, and what it then accepts.                           *)
(***************************************************************************)
RECURSIVE Patterns(_)
Patterns(op) ==
    IF op.k = "bgp" THEN <<op>>
    ELSE Patterns(op.op) \o FlattenSeq(Mapped(op.optionals, Patterns))

OwnVars(b) == b.isolated_vars \cup UNION {LabelVars(l) : l \in b.labels} \cup UNION {PropertyVars(p) : p \in b.properties}
              \cup UNION {EdgeVars(e) : e \in b.edges} \cup UNION {VarsOf({p.from, p.to}) : p \in b.paths}

\* The variable of a path is used nowhere else.
Declare(d, b) ==
    LET paths == {p.var : p \in b.paths}
    IN  [vars |-> d.vars \cup OwnVars(b) \cup paths, paths |-> d.paths \cup paths,
         ok |-> /\ d.ok
                /\ Cardinality(paths) = Cardinality(b.paths)
                /\ paths \cap (d.vars \cup OwnVars(b)) = {}
                /\ OwnVars(b) \cap d.paths = {}]

\* ReturnItemCheckVarName
validate_var(d, var, distinct) ==
    /\ ObjectOf(var) \in d.vars
    /\ IsProperty(var) => ObjectOf(var) \notin d.paths
    /\ distinct => var \notin d.paths
CheckName(d, item, distinct) ==
    item.var.k = "star" \/ validate_var(d, item.var, IF item.f = "" THEN distinct ELSE item.f = "count distinct")

\* ReturnItemCheckGroup: an aggregate of what is not in GROUP BY, or what is.
CheckGroup(group, item) ==
    group = <<>> \/ item.var.k = "star" \/ ((item.f = "") = ({item.var, ObjectOf(item.var)} \cap ToSet(group) # {}))

CheckGroupBy(d, group) ==
    /\ \A i \in DOMAIN group : validate_var(d, group[i], FALSE)
    /\ \A i, j \in DOMAIN group : i # j /\ ~IsProperty(group[i]) => ObjectOf(group[j]) # group[i]

CheckVarNames(q) ==
    LET d == FoldLeft(Declare, [vars |-> {}, paths |-> {}, ok |-> TRUE], Patterns(q.pattern))
    IN  /\ d.ok
        /\ \A i \in DOMAIN q.where : \A var \in ExprVars(q.where[i]) : validate_var(d, var, FALSE)
        /\ CheckGroupBy(d, q.group)
        /\ \A i \in DOMAIN q.order : CheckName(d, q.order[i], FALSE) /\ CheckGroup(q.group, q.order[i])
        /\ \A i, j \in DOMAIN q.order : i # j => get_var(q.order[i]) # get_var(q.order[j])
        /\ \A i \in DOMAIN q.items : CheckName(d, q.items[i], q.distinct) /\ CheckGroup(q.group, q.items[i])
        /\ q.group = <<>> => \A i, j \in DOMAIN q.items : (q.items[i].f = "") = (q.items[j].f = "")

(***************************************************************************)
(* CheckWellDesigned: a variable seen before must be one of the pattern    *)
(* around.                                                                 *)
(***************************************************************************)
Seen(s, vars) == [s EXCEPT !.ok = @ /\ vars \cap s.global_vars \subseteq s.parent_vars, !.global_vars = @ \cup vars]

\* Mutant: the variables of the parent are those of the child visited before.
RECURSIVE WellDesignedParentLost(_, _)
WellDesignedParentLost(s, op) ==
    IF op.k = "bgp" THEN Seen(s, op.vars)
    ELSE FoldLeft(WellDesignedParentLost, [Seen(s, op.op.vars) EXCEPT !.parent_vars = op.op.vars], op.optionals)

RECURSIVE WellDesigned(_, _)
WellDesigned(s, op) ==
    IF op.k = "bgp" THEN Seen(s, op.vars)
    ELSE LET Inside(st) == [st EXCEPT !.parent_vars = op.op.vars]
         IN  FoldLeft(LAMBDA st, child : Inside(WellDesigned(st, child)), Inside(Seen(s, op.op.vars)), op.optionals)

CheckWellDesigned(op) == WellDesigned([global_vars |-> {}, parent_vars |-> {}, ok |-> TRUE], op).ok

(***************************************************************************)
(* OptimizeOptionalTree drops from a pattern what the patterns visited     *)
(* before it have, and then the patterns with nothing left to match.  The  *)
(* visit of a child ends in one of: it stays, it goes (delete_current),    *)
(* its children take its place (move_children_up), its main pattern does   *)
(* (optional_to_match); ops is what stands in its place.                   *)
(***************************************************************************)
Trimmed(s, b) ==
    LET Known(p) == \E q \in s.global_properties : SameProperty(p, q) /\ p.value # q.value
    IN  [b EXCEPT !.properties = {p \in @ : ~Known(p)}, !.labels = @ \ s.global_labels, !.isolated_vars = @ \ s.global_vars]

Visited(s, b) ==
    [s EXCEPT !.global_vars = @ \cup b.vars, !.global_labels = @ \cup b.labels,
              !.global_properties = @ \cup {p \in b.properties : \A q \in @ : ~SameProperty(p, q)}]

NothingToMatch(b) == b.edges = {} /\ b.labels = {} /\ b.properties = {} /\ b.paths = {} /\ b.isolated_vars = {}

RECURSIVE OptimizePattern(_, _)
OptimizePattern(s, op) ==
    IF op.k = "bgp"
      THEN LET b == Trimmed(s, op)
           IN  [s |-> Visited(s, op), op |-> b, ops |-> IF NothingToMatch(b) THEN <<>> ELSE <<b>>]
      ELSE LET main == OptimizePattern(s, op.op)
               rest == FoldLeft(LAMBDA r, child : LET c == OptimizePattern(r.s, child) IN [s |-> c.s, ops |-> r.ops \o c.ops],
                                [s |-> main.s, ops |-> <<>>], op.optionals)
           IN  [s |-> rest.s,
                op |-> IF main.ops = <<>> THEN OpOptional(main.op, <<>>)
                       ELSE IF rest.ops = <<>> THEN main.op
                       ELSE OpOptional(main.op, rest.ops),
                ops |-> IF main.ops = <<>> THEN rest.ops
                        ELSE IF rest.ops = <<>> THEN main.ops
                        ELSE <<OpOptional(main.op, rest.ops)>>]

\* OpMatch keeps its pattern, or takes what optional_to_match leaves.
OptimizeOptionalTree(op) == OptimizePattern([global_vars |-> {}, global_labels |-> {}, global_properties |-> {}], op).op

============================================================================

--------------------------- MODULE MCQueryEngine ---------------------------
(* Queries and databases for TLC: main patterns of one to three chains with *)
(* every kind of node and edge, each with several sets of OPTIONALs, then   *)
(* WHERE, DISTINCT, LIMIT and SET; and the rules of both grammars.          *)
EXTENDS QueryEngine

x == V("x")
y == V("y")
z == V("z")
w == V("w")
u == V("u")
e == V("e")
t == V("t")
KeyOf(v) == Variable(v.v \o <<"k">>)

Plain(v) == NodeOf(v, <<>>, <<>>)
Labelled(v) == NodeOf(v, <<"L">>, <<>>)
Keyed(v, i) == NodeOf(v, <<>>, << <<"k", IntOf(i)>> >>)
To(v, type) == EdgeOf(v, type, TRUE)
From(v, type) == EdgeOf(v, type, FALSE)
Typed(a, type, b) == <<Plain(a), To(Blank, C(type)), Plain(b)>>

Mains == <<
    << <<Plain(x)>> >>,
    << <<Labelled(x)>> >>,
    << <<Keyed(x, "1")>> >>,
    << <<Plain(C("A"))>>, <<Labelled(x)>> >>,
    << <<Plain(C("Z"))>>, <<Plain(x)>> >>,
    << Typed(x, "t", y) >>,
    << <<Plain(x), From(e, C("t")), Plain(y)>> >>,
    << <<Plain(x), To(e, t), Plain(y)>> >>,
    << Typed(x, "t", x), <<Plain(x), To(Blank, t), Plain(y)>> >>,
    << <<Plain(x), To(Blank, x), Plain(y)>> >>,
    << <<Plain(x), To(Blank, y), Plain(y)>> >>,
    << Typed(x, "t", y), Typed(y, "s", z) >>,
    << Typed(x, "t", y), Typed(y, "s", z), <<Plain(z), To(Blank, Blank), Plain(x)>> >>,
    << <<Plain(C("A")), To(Blank, t), Labelled(y)>> >>,
    << <<Labelled(x), To(Blank, C("t")), Keyed(y, "2")>> >>,
    << <<Plain(x), To(Blank, Blank), Plain(C("B"))>>, <<Labelled(y)>> >>,
    << <<Plain(x), From(Blank, C("t")), Labelled(y)>>, <<Plain(x), From(Blank, C("s")), Labelled(y)>> >>,
    << <<Plain(x), To(Elem("edge", <<"_e2">>), t), Plain(y)>> >>,
    << <<Keyed(x, "1"), To(Blank, t), Keyed(x, "2")>> >>,
    << Typed(x, "t", x), Typed(x, "s", y), <<Labelled(z)>> >>,
    << <<Labelled(x), To(Elem("edge", <<"_e2">>), t), Plain(y)>> >>,
    << <<Plain(x), To(Elem("edge", <<"_e2">>), t), Plain(y)>>, <<Plain(z)>> >> >>

Leafs(chains) == Pattern(chains, <<>>)
Opts == <<
    <<>>,
    <<Leafs(<< Typed(y, "s", w) >>)>>,
    <<Leafs(<< <<Labelled(x)>> >>)>>,
    <<Leafs(<< <<Labelled(y), From(Blank, t), Plain(w)>> >>), Leafs(<< <<Plain(x), To(V("f"), C("s")), Plain(u)>> >>)>>,
    <<Pattern(<< Typed(x, "t", u) >>, <<Leafs(<< Typed(u, "s", w) >>)>>)>>,
    <<Leafs(<< Typed(x, "s", w) >>), Leafs(<< Typed(w, "t", y) >>)>>,
    <<Pattern(<< <<Plain(x)>> >>, <<Leafs(<< Typed(x, "s", w), <<Labelled(w)>> >>)>>)>>,
    <<Pattern(<< <<Labelled(x)>>, <<Labelled(y)>> >>, <<Leafs(<< Typed(x, "s", w) >>)>>), Leafs(<< Typed(y, "s", u) >>)>>,
    <<Pattern(<< <<Plain(x), To(Blank, C("t")), Keyed(u, "2")>> >>, <<Leafs(<< Typed(u, "t", y) >>)>>)>>,
    <<Leafs(<< <<Plain(y), To(e, C("s")), Plain(w)>> >>)>> >>

Prop(v) == Leaf("property", KeyOf(v))
Of(v) == Leaf("var", v)
Const(i) == Leaf("constant", IntOf(i))
Binary(op, a, b) == Expr(op, <<a, b>>)
IsNull(not, a) == [op |-> "is", args |-> <<a>>, not |-> not, type |-> "K_NULL"]
Wheres == <<
    Binary("EQ", Prop(x), Const("1")),
    Binary("NEQ", Prop(x), Const("2")),
    Expr("and", <<Binary("EQ", Const("2"), Prop(y)), Binary("NEQ", Of(x), Of(y))>>),
    Expr("or", <<Binary("EQ", Prop(x), Const("1")), Expr("K_NOT", <<Binary("EQ", Prop(x), Prop(y))>>)>>),
    Expr("and", <<Expr("or", <<IsNull(FALSE, Of(w)), Binary("EQ", Of(w), Of(x))>>), IsNull(TRUE, Of(x))>>),
    Expr("K_NOT", <<Expr("or", <<Expr("and", <<Binary("EQ", Of(x), Of(y)), IsNull(FALSE, Of(y))>>), IsNull(FALSE, Prop(x))>>)>>) >>

Q(i, j) == Query(Pattern(Mains[i], Opts[j]), <<>>)
TestQueries ==
    {Q(i, j) : i \in DOMAIN Mains, j \in DOMAIN Opts}
    \cup {[Q(i, j) EXCEPT !.items = <<x, KeyOf(x)>>] : i \in {1, 4, 6, 15}, j \in {2, 3, 9}}
    \cup {[Q(i, j) EXCEPT !.items = <<x>>, !.distinct = TRUE] : i \in {3, 6, 9, 13, 16}, j \in {1, 4, 5}}
    \cup {[Q(i, j) EXCEPT !.limit = <<l>>] : i \in {1, 6, 8}, j \in {1, 2}, l \in {0, 2}}
    \cup {[Q(i, j) EXCEPT !.set = <<[var |-> x, elem |-> C("A")]>>] : i \in {1, 6, 12}, j \in {1, 2, 5}}
    \cup {[Q(i, j) EXCEPT !.where = <<Wheres[k]>>] : i \in {1, 6, 8, 15}, j \in {1, 2, 5}, k \in DOMAIN Wheres}

\* updateCommand without an update is also a query without a body, and a
\* list of triples in constructTriples can be split in several ways.
Ambiguous == {"updateCommand", "constructTemplate", "constructTriples"}
AllRules == ({"mdb"} \X DOMAIN MDBDerivations.parent) \cup ({"sparql"} \X (DOMAIN SparqlDerivations.parent \ Ambiguous))

\* A, B, t and s are 1 to 4, the label 5, the key 6, its values 7 and 8.
ids == C("A") :> 1 @@ C("B") :> 2 @@ C("t") :> 3 @@ C("s") :> 4 @@ Elem("string", <<"L">>) :> 5 @@ Elem("string", <<"k">>) :> 6
       @@ IntOf("1") :> 7 @@ IntOf("2") :> 8 @@ Elem("edge", <<"_e2">>) :> 102

\* Loops, a cycle, an edge between nodes and types, an edge as a node, and
\* an anonymous node.
Cyclic == [nodes |-> 1..4, anonymous_nodes |-> 1,
           edges |-> << <<1, 2, 3>>, <<2, 51, 4>>, <<1, 1, 3>>, <<51, 1, 1>>, <<101, 2, 4>>, <<2, 2, 2>>, <<1, 2, 4>> >>,
           labels |-> {<<1, 5>>, <<2, 5>>}, properties |-> {<<1, 6, 7>>, <<2, 6, 8>>, <<102, 6, 7>>}, ids |-> ids]
Single == [nodes |-> 1..3, anonymous_nodes |-> 0, edges |-> << <<1, 2, 3>> >>, labels |-> {<<2, 5>>}, properties |-> {<<1, 6, 7>>}, ids |-> ids]
TestDatabases == <<Cyclic, Single>>
============================================================================

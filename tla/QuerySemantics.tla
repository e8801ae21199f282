--------------------------- MODULE QuerySemantics ---------------------------
(***************************************************************************)
(* The reference for the query engine: queries as they are meant, how they *)
(* are written, and what they should return.                               *)
(*                                                                         *)
(* A pattern is [chains |-> sequence of chains, optionals |-> sequence of  *)
(* patterns]; a chain alternates nodes and edges; an edge stands between   *)
(* its neighbours.  Anything without a name is Blank.                      *)
(***************************************************************************)
EXTENDS QueryPlanner, Bags

Blank == Elem("blank", <<>>)
V(x) == Variable(<<x>>)
C(x) == Elem("named", <<x>>)
IntOf(x) == Elem("int", <<x>>)
NodeOf(e, labels, props) == [e |-> e, labels |-> labels, props |-> props]
EdgeOf(e, type, right) == [e |-> e, type |-> type, right |-> right]
Pattern(chains, optionals) == [chains |-> chains, optionals |-> optionals]
Query(pattern, where) == [pattern |-> pattern, set |-> <<>>, where |-> where, items |-> <<>>, distinct |-> FALSE, limit |-> <<>>]

(***************************************************************************)
(* Writing: the tokens of a query.                                         *)
(***************************************************************************)
Tok(t, v) == [tok |-> t, v |-> v]
Sign(t) == <<Tok(t, t)>>
Separated(seqs, sep) == FlattenSeq([i \in DOMAIN seqs |-> (IF i = 1 THEN <<>> ELSE Sign(sep)) \o seqs[i]])

WriteConst(e) ==
    CASE e.k = "named" -> <<Tok("NAME", e.v[1])>>
      [] e.k = "int" -> <<Tok("UNSIGNED_INTEGER", e.v[1])>>
      [] e.k = "edge" -> <<Tok("EDGE_ID", e.v[1])>>
      [] e.k = "string" -> <<Tok("STRING", e.v[1])>>
WriteVar(e) == IF Len(e.v) = 2 THEN <<Tok("VARIABLE", e.v[1]), Tok("KEY", e.v[2])>> ELSE <<Tok("VARIABLE", e.v[1])>>

WriteProperties(props) ==
    IF props = <<>> THEN <<>>
    ELSE Sign("LCURLY_BRACKET") \o Separated(Mapped(props, LAMBDA p : <<Tok("NAME", p[1])>> \o Sign("COLON") \o WriteConst(p[2])), "COMMA")
         \o Sign("RCURLY_BRACKET")

WriteNode(n) ==
    Sign("L_PAR") \o (CASE n.e = Blank -> <<>> [] IsVar(n.e) -> WriteVar(n.e) [] OTHER -> WriteConst(n.e))
    \o [i \in DOMAIN n.labels |-> Tok("TYPE", n.labels[i])] \o WriteProperties(n.props) \o Sign("R_PAR")

WriteEdge(x) ==
    LET inside == (IF x.e = Blank THEN <<>> ELSE IF IsVar(x.e) THEN WriteVar(x.e) ELSE WriteConst(x.e))
                  \o (IF x.type = Blank THEN <<>> ELSE IF IsVar(x.type) THEN <<Tok("TYPE_VAR", x.type.v[1])>> ELSE <<Tok("TYPE", x.type.v[1])>>)
        bracket == IF inside = <<>> THEN <<>> ELSE Sign("LSQUARE_BRACKET") \o inside \o Sign("RSQUARE_BRACKET")
        minus == IF inside = <<>> THEN <<>> ELSE Sign("MINUS")
    IN  IF x.right THEN Sign("MINUS") \o bracket \o minus \o Sign("GT") ELSE Sign("LT") \o minus \o bracket \o Sign("MINUS")

WriteChain(c) == FlattenSeq([i \in DOMAIN c |-> IF i % 2 = 1 THEN WriteNode(c[i]) ELSE WriteEdge(c[i])])

RECURSIVE WritePattern(_)
WritePattern(p) ==
    Separated(Mapped(p.chains, WriteChain), "COMMA")
    \o FlattenSeq(Mapped(p.optionals, LAMBDA o : Sign("K_OPTIONAL") \o Sign("LCURLY_BRACKET") \o WritePattern(o) \o Sign("RCURLY_BRACKET")))

\* How tightly an expression binds; an operand that binds less is in parentheses.
Strength(e) ==
    CASE e.op = "or" -> 1
      [] e.op = "and" -> 2
      [] e.op \in {"EQ", "NEQ", "LT", "GT", "LEQ", "GEQ", "is"} -> 3
      [] e.op \in {"PLUS", "MINUS"} /\ Len(e.args) = 2 -> 4
      [] e.op \in {"STAR", "PATH_SEQUENCE", Modulo} -> 5
      [] e.op \in {"var", "property", "constant"} -> 7
      [] OTHER -> 6

RECURSIVE WriteExpr(_)
WriteExpr(e) ==
    LET Operand(x, least) == IF Strength(x) < least THEN Sign("L_PAR") \o WriteExpr(x) \o Sign("R_PAR") ELSE WriteExpr(x)
        s == Strength(e)
    IN  CASE e.op = "constant" -> WriteConst(e.elem)
          [] e.op \in {"var", "property"} -> WriteVar(e.elem)
          [] e.op \in {"or", "and"} -> Separated(Mapped(e.args, LAMBDA x : Operand(x, s + 1)), IF e.op = "or" THEN "K_OR" ELSE "K_AND")
          [] e.op = "is" -> Operand(e.args[1], 4) \o Sign("K_IS") \o (IF e.not THEN Sign("K_NOT") ELSE <<>>) \o Sign(e.type)
          [] s = 6 -> Sign(e.op) \o Operand(e.args[1], 6)
          [] OTHER -> Operand(e.args[1], IF s = 3 THEN 4 ELSE s) \o Sign(e.op) \o Operand(e.args[2], s + 1)

Write(q) ==
    (IF q.set = <<>> THEN <<>>
     ELSE Sign("K_SET") \o Separated(Mapped(q.set, LAMBDA s : WriteVar(s.var) \o Sign("SINGLE_EQ") \o WriteConst(s.elem)), "COMMA"))
    \o Sign("K_MATCH") \o WritePattern(q.pattern)
    \o (IF q.where = <<>> THEN <<>> ELSE Sign("K_WHERE") \o WriteExpr(q.where[1]))
    \o Sign("K_RETURN") \o (IF q.distinct THEN Sign("K_DISTINCT") ELSE <<>>)
    \o (IF q.items = <<>> THEN Sign("STAR") ELSE Separated(Mapped(q.items, WriteVar), "COMMA"))
    \o (IF q.limit = <<>> THEN <<>> ELSE Sign("K_LIMIT") \o <<Tok("UNSIGNED_INTEGER", ToString(q.limit[1]))>>)
    \o Sign("EOF")

(***************************************************************************)
(* Meaning.  A solution maps variables to ids.  What an atom matches, then *)
(* joins, and for OPTIONAL left joins.  A blank gets the name of its place.*)
(***************************************************************************)
Name(e, place) == IF e = Blank THEN Variable(<<"#">> \o place) ELSE e

NodeAtoms(n, e) ==
    {[a |-> "node", cols |-> <<e>>]}
    \cup {[a |-> "label", cols |-> <<e, Elem("string", <<n.labels[i]>>)>>] : i \in DOMAIN n.labels}
    \cup {[a |-> "property", cols |-> <<e, Elem("string", <<n.props[i][1]>>), n.props[i][2]>>] : i \in DOMAIN n.props}

ChainAtoms(c, place) ==
    LET At1(i) == Name(c[i].e, Append(place, i))
    IN  UNION {IF i % 2 = 1 THEN NodeAtoms(c[i], At1(i))
               ELSE LET from == IF c[i].right THEN i - 1 ELSE i + 1
                    IN  {[a |-> "edge", cols |-> <<At1(from), At1(2 * i - from), Name(c[i].type, place \o <<i, 0>>), At1(i)>>]} :
               i \in DOMAIN c}

AllObjects(D) == D.nodes \cup {MASK_ANON + i : i \in 1..D.anonymous_nodes} \cup {MASK_EDGE + i : i \in DOMAIN D.edges}
Facts(D, a) ==
    CASE a = "node" -> {<<o>> : o \in AllObjects(D)}
      [] a = "label" -> D.labels
      [] a = "property" -> D.properties
      [] a = "edge" -> Index(D, "from_to_type_edge")

\* The solutions of one atom: facts that agree with its constants and give
\* each of its variables one value.
Solve(D, atom) ==
    LET cols == atom.cols
        Fits(f) == \A i \in DOMAIN cols : IF IsVar(cols[i]) THEN \A j \in DOMAIN cols : cols[j] = cols[i] => f[j] = f[i]
                                                            ELSE f[i] = get_object_id(D, cols[i])
        vars == {c \in ToSet(cols) : IsVar(c)}
    IN  {[v \in vars |-> f[CHOOSE i \in DOMAIN cols : cols[i] = v]] : f \in {g \in Facts(D, atom.a) : Fits(g)}}

Compatible(m, n) == \A v \in DOMAIN m \cap DOMAIN n : m[v] = n[v]
Join(A, B) == {ab[1] @@ ab[2] : ab \in {mn \in A \X B : Compatible(mn[1], mn[2])}}
LeftJoin(A, B) == Join(A, B) \cup {m \in A : \A n \in B : ~Compatible(m, n)}

\* Atoms with constants first, so that the joins stay small.
RECURSIVE SolveAll(_, _, _)
SolveAll(D, atoms, sols) ==
    IF atoms = {} THEN sols
    ELSE LET bound == UNION {DOMAIN m : m \in sols}
             ready == {a \in atoms : a.a # "node" /\ (ToSet(a.cols) \cap bound # {} \/ bound = {})}
             a == CHOOSE x \in IF ready # {} THEN ready ELSE LET e == {y \in atoms : y.a # "node"} IN IF e # {} THEN e ELSE atoms : TRUE
         IN  SolveAll(D, atoms \ {a}, Join(sols, Solve(D, a)))

RECURSIVE Solutions(_, _, _)
Solutions(D, p, place) ==
    FoldLeft(LAMBDA sols, i : LeftJoin(sols, Solutions(D, p.optionals[i], Append(place, i))),
             SolveAll(D, UNION {ChainAtoms(p.chains[i], Append(place, i)) : i \in DOMAIN p.chains}, {<<>>}),
             [i \in DOMAIN p.optionals |-> i])

\* The value of a variable in a solution; that of ?x.key is looked up.
ValueIn(D, m, v) ==
    IF v \in DOMAIN m THEN m[v]
    ELSE LET vals == {p[3] : p \in {r \in D.properties : IsProperty(v) /\ ObjectOf(v) \in DOMAIN m /\ r[1] = m[ObjectOf(v)]
                                                         /\ r[2] = get_object_id(D, Elem("string", <<v.v[2]>>))}}
         IN  IF vals = {} THEN NULL_ID ELSE CHOOSE x \in vals : TRUE

\* The rows a query should return: for each solution that satisfies SET and
\* WHERE the values of vars, once when DISTINCT.
Answers(D, q, vars) ==
    LET Env(m) == [v \in vars \cup WhereVars(q) |-> ValueIn(D, m, v)]
        sols == {m \in Solutions(D, q.pattern, <<>>) :
                    /\ \A i \in DOMAIN q.set : ValueIn(D, m, q.set[i].var) = get_object_id(D, q.set[i].elem)
                    /\ \A i \in DOMAIN q.where : EvalExpr(D, Env(m), q.where[i])}
        Row(m) == [v \in vars |-> ValueIn(D, m, v)]
    IN  [r \in {Row(m) : m \in sols} |-> IF q.distinct THEN 1 ELSE Cardinality({m \in sols : Row(m) = r})]

=============================================================================

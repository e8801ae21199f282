---------------------------- MODULE QueryEngine ----------------------------
(***************************************************************************)
(* A query from its text to its answers: MDB::QueryParser::get_query_plan, *)
(* QuadModel::exec and the loop of the server that asks for row after row. *)
(* The query is one of Queries, written out, over one of Databases; stage  *)
(* says what work is now.                                                  *)
(***************************************************************************)
EXTENDS QuerySemantics, Derivations

CONSTANTS Queries,     \* queries as QuerySemantics has them
          Derived,     \* pairs of a language, "mdb" or "sparql", and a rule of its grammar
          Databases    \* a sequence of databases as Objects has them

VARIABLES stage,       \* "text", "tree", "visited", "checked", "logical", "running"; "done", "syntax_error", "rejected", "threw"
          asked,       \* the query as it is meant, or [language, tree]: a text that the grammar derives
          db,          \* which database
          work,        \* the tree, then the logical plan, then [q, it]: the plan and its iterators
          binding,     \* the shared binding
          printed      \* the rows written so far, with how often

evars == <<stage, asked, db, work, binding, printed>>

MDB == INSTANCE MDBGrammar
Sparql == INSTANCE SparqlGrammar
MDBParser == Tables(MDB!Rules, "root")
SparqlParser == Tables(Sparql!Rules, "query")
MDBDerivations == DerivationTables(MDBParser)
SparqlDerivations == DerivationTables(SparqlParser)

\* Two operators of SPARQL in a row, grouped as the language says.  && takes
\* all that follows it for its right operand, so && before || is left out.
Operators == << [rule |-> "conditionalOrExpression", tok |-> "OR", strength |-> 1],
                [rule |-> "conditionalAndExpression", tok |-> "AND", strength |-> 2],
                [rule |-> "relationalExpression", tok |-> "LESS", strength |-> 3],
                [rule |-> "additiveExpression", tok |-> "MINUS_SIGN", strength |-> 4],
                [rule |-> "multiplicativeExpression", tok |-> "DIVIDE", strength |-> 5] >>
OperatorTrees ==
    {LET o1 == Operators[p[1]]
         o2 == Operators[p[2]]
     IN  Grouped(SparqlDerivations, "expression", o1, o2, o1.strength > o2.strength \/ (o1 = o2 /\ o1.strength > 3)) :
        p \in {q \in (1..5) \X (1..5) : q # <<2, 1>> /\ q # <<3, 3>>}}

\* The trees tried for a rule of a grammar.
TreesOf(language, rule) ==
    IF language = "mdb" THEN DerivedByTwo(MDBDerivations, rule)
    ELSE DerivedByTwo(SparqlDerivations, rule) \cup IF rule = "expression" THEN OperatorTrees ELSE {}

Init ==
    /\ stage = "text"
    /\ \/ asked \in Queries /\ db \in DOMAIN Databases
       \/ \E d \in Derived : \E tree \in TreesOf(d[1], d[2]) : asked = [language |-> d[1], tree |-> tree] /\ db = 1
    /\ work = <<>>
    /\ binding = <<>>
    /\ printed = EmptyBag

IsQuery == "pattern" \in DOMAIN asked
IsSparql == ~IsQuery /\ asked.language = "sparql"

Ends(st) == stage' = st /\ work' = <<>> /\ binding' = <<>> /\ UNCHANGED <<asked, db, printed>>
Becomes(st, w) == stage' = st /\ work' = w /\ UNCHANGED <<asked, db, binding, printed>>

ParseText ==
    /\ stage = "text"
    /\ \E p \in {Parse(IF IsSparql THEN SparqlParser ELSE MDBParser, IF IsQuery THEN Write(asked) ELSE Yield(asked.tree))} :
          IF p.ok THEN Becomes("tree", p.tree) ELSE Ends("syntax_error")

VisitTree ==
    /\ stage = "tree" /\ ~IsSparql
    /\ \E q \in {visitRoot(work)} : IF q.err THEN Ends("rejected") ELSE Becomes("visited", q)

CheckQuery ==
    /\ stage = "visited" /\ IsQuery
    /\ IF CheckVarNames(work) /\ CheckWellDesigned(work.pattern) THEN Becomes("checked", work) ELSE Ends("rejected")

OptimizeQuery ==
    /\ stage = "checked"
    /\ Becomes("logical", [work EXCEPT !.pattern = OptimizeOptionalTree(@)])

\* BindingIterVisitor, and begin() of the root.
PlanQuery ==
    /\ stage = "logical"
    /\ \E p \in PhysicalPlans(Databases[db], work) :
          IF p.threw THEN Ends("threw")
          ELSE \E r \in {BeginIter(Databases[db], p.it, p.b)} :
                  /\ stage' = "running"
                  /\ work' = [q |-> work, it |-> r.it]
                  /\ binding' = r.b
                  /\ UNCHANGED <<asked, db, printed>>

\* Return::next over the filters of WHERE and DISTINCT.
RowOf(q, b) == [v \in {q.items[i].var : i \in DOMAIN q.items} |-> b[v]]
Passes(D, q, b) == \A i \in DOMAIN WhereRest(q) : EvalExpr(D, b, WhereRest(q)[i])
Full(q) == q.limit # <<>> /\ BagCardinality(printed) >= q.limit[1]
Printed(q, b) ==
    LET row == RowOf(q, b)
    IN  IF Passes(Databases[db], q, b) /\ ~(q.distinct /\ BagIn(row, printed)) THEN printed (+) SetToBag({row}) ELSE printed
WriteRow(n) ==
    /\ work' = [work EXCEPT !.it = n.it]
    /\ binding' = n.b
    /\ printed' = Printed(work.q, n.b)
    /\ UNCHANGED <<stage, asked, db>>

FetchRow ==
    /\ stage = "running"
    /\ \E n \in {NextRow(Databases[db], work.it, binding)} :
           IF ~Full(work.q) /\ n.ok THEN WriteRow(n) ELSE Ends("done")

Next == ParseText \/ VisitTree \/ CheckQuery \/ OptimizeQuery \/ PlanQuery \/ FetchRow
Spec == Init /\ [][Next]_evars

(***************************************************************************)
(* What a query is made of.                                                *)
(***************************************************************************)
Parts(p) == UNION {{p.chains[c][i] : i \in DOMAIN p.chains[c]} : c \in DOMAIN p.chains}
Nodes(p) == {n \in Parts(p) : "props" \in DOMAIN n}
Edges(p) == Parts(p) \ Nodes(p)
PropertyVarsIn(p) == UNION {{PropertyVar(n.e, <<n.props[i][1]>>) : i \in DOMAIN n.props} : n \in {m \in Nodes(p) : IsVar(m.e)}}
\* The edges, and the nodes with labels or properties.
Joined(p) == {a \in Parts(p) : a \in Edges(p) \/ a.labels # <<>> \/ a.props # <<>>}
NamedVars(p) == VarsOf({a.e : a \in Parts(p)} \cup {a.type : a \in Edges(p)}) \cup PropertyVarsIn(p)

\* The patterns of a query as a tree: each with its place in it.
RECURSIVE Places(_, _)
Places(p, place) == {[at |-> place, p |-> p]} \cup UNION {Places(p.optionals[i], Append(place, i)) : i \in DOMAIN p.optionals}
AllVarsOf(q) == UNION {NamedVars(n.p) : n \in Places(q.pattern, <<>>)}
Returned(q) == IF q.items # <<>> THEN ToSet(q.items) ELSE AllVarsOf(q) \cup WhereVars(q)

(***************************************************************************)
(* Properties.                                                             *)
(***************************************************************************)
\* A query is well formed when the patterns with a given variable hang
\* together: at most one of them has a parent without it; every variable
\* that WHERE and RETURN use is in a pattern, and no pattern gives one key
\* of a node two values.
Connected(q) ==
    LET places == Places(q.pattern, <<>>)
        Has(at, v) == \E n \in places : n.at = at /\ v \in NamedVars(n.p)
        Tops(v) == {n \in places : v \in NamedVars(n.p) /\ (n.at = <<>> \/ ~Has(Front(n.at), v))}
    IN  \A v \in AllVarsOf(q) : Cardinality(Tops(v)) = 1
UsesDeclared(q) == \A v \in ToSet(q.items) \cup WhereVars(q) : v \in AllVarsOf(q) \/ (IsProperty(v) /\ ObjectOf(v) \in AllVarsOf(q))
Consistent(q) ==
    \A n \in Places(q.pattern, <<>>) : \A a, b \in Nodes(n.p) : \A i \in DOMAIN a.props, j \in DOMAIN b.props :
        a.e = b.e /\ a.e # Blank /\ a.props[i][1] = b.props[j][1] => a.props[i][2] = b.props[j][2]
WellFormed(q) == Connected(q) /\ UsesDeclared(q) /\ Consistent(q)

\* Where the answers are known to differ (see README): WHERE fixes a property
\* of a variable that only an OPTIONAL has; an OPTIONAL gives a property that
\* is returned; the variable of an edge is also used elsewhere; an edge given
\* by its id is joined with something; a pattern of constants has an OPTIONAL.
Supported(q) ==
    LET places == Places(q.pattern, <<>>)
        main == NamedVars(q.pattern)
        EdgeUses(v) == UNION {UNION {{<<n.at, c, i>> : i \in {j \in DOMAIN n.p.chains[c] : j % 2 = 0 /\ n.p.chains[c][j].e = v}} :
                                        c \in DOMAIN n.p.chains} : n \in places}
        OtherUse(v) == \E n \in places : v \in {a.e : a \in Nodes(n.p)} \cup {a.type : a \in Edges(n.p)}
    IN  /\ \A p \in WhereProperties(q) : p.node \in main
        /\ UNION {PropertyVarsIn(n.p) : n \in places} \cap Returned(q) \subseteq main
        /\ \A v \in AllVarsOf(q) : EdgeUses(v) # {} => ~OtherUse(v) /\ Cardinality(EdgeUses(v)) = 1
        /\ \A n \in places : (\E a \in Edges(n.p) : a.e.k = "edge") => Cardinality(Joined(n.p)) = 1
        /\ q.pattern.optionals # <<>> => main # {}

\* Every row that matches is printed, as often as it matches, and no other,
\* whatever order of joins and whatever indexes the planner takes; LIMIT
\* cuts the rows short and DISTINCT keeps one of each (IndexScan, Leapfrog,
\* IndexNestedLoopJoin, IndexLeftOuterJoin, Return).
AnswersExact ==
    stage = "done" /\ Supported(asked) =>
        LET a == Answers(Databases[db], asked, Returned(asked))
        IN  IF asked.limit = <<>> THEN printed = a
            ELSE printed \sqsubseteq a /\ BagCardinality(printed) = Min({BagCardinality(a), asked.limit[1]})

\* CheckVarNames and CheckWellDesigned reject the queries that are not well
\* formed and only those, and no query fails later.
RejectsExactly ==
    IsQuery => /\ stage = "rejected" => ~WellFormed(asked)
               /\ stage \in {"checked", "logical", "running", "done"} => WellFormed(asked)
               /\ stage = "threw" => ~Supported(asked)

\* Both parsers read every text they derive as it was derived (adaptivePredict
\* in SLL mode, the levels of operators), and the logical plan of a query says
\* what was written: WHERE grouped by the strength of its operators, the items,
\* the limit (QueryVisitor).
ReadsBack ==
    /\ stage # "syntax_error"
    /\ stage = "tree" /\ ~IsQuery => work = asked.tree
    /\ IsQuery /\ stage = "visited" =>
           /\ work.where = asked.where
           /\ work.set = asked.set
           /\ work.distinct = asked.distinct
           /\ work.limit = asked.limit
           /\ {work.items[i].var : i \in DOMAIN work.items} = Returned(asked)

============================================================================

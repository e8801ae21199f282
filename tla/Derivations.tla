---------------------------- MODULE Derivations ----------------------------
(***************************************************************************)
(* The reference for the parsers: trees that a grammar derives.  For every *)
(* rule, the trees in which the choices of the rule are made in every way, *)
(* repetitions up to twice, the rules it calls derive something shortest,  *)
(* and the rest of the query is a shortest one that uses the rule.         *)
(***************************************************************************)
EXTENDS Grammar

Token(t) == [tok |-> t, v |-> IF t = "UNSIGNED_INTEGER" THEN "1" ELSE t]
NotDerived == 99

RECURSIVE SizeOf(_, _)
SizeOf(x, size) ==
    CASE x.op = "tok" -> 1
      [] x.op = "rule" -> size[x.rule]
      [] x.op = "cat" -> LET n == Len(x.xs)
                             sum[i \in 0..n] == IF i = 0 THEN 0 ELSE sum[i - 1] + SizeOf(x.xs[i], size)
                         IN  Min({sum[n], NotDerived})
      [] x.op = "alt" -> Min({SizeOf(x.xs[i], size) : i \in DOMAIN x.xs})
      [] OTHER -> 0

RECURSIVE Sizes(_, _)
Sizes(rules, size) ==
    LET new == [r \in DOMAIN rules |-> SizeOf(rules[r], size)]
    IN  IF new = size THEN size ELSE Sizes(rules, new)

RECURSIVE Distances(_, _, _)
Distances(G, seen, found) ==
    LET next == {r \in DOMAIN G.rules \ seen : \E c \in G.callers[r] : c.caller \in seen}
    IN  IF next = {} THEN found
        ELSE Distances(G, seen \cup next,
                       found \cup {[rule |-> r, parent |-> CHOOSE q \in seen : \E c \in G.callers[r] : c.caller = q] : r \in next})

\* The tables of a grammar with what the derivations need.
DerivationTables(G) ==
    LET size == Sizes(G.rules, [r \in DOMAIN G.rules |-> NotDerived])
        found == Distances(G, {G.root}, {})
    IN  [g |-> G, size |-> size, parent |-> [r \in {f.rule : f \in found} |-> (CHOOSE f \in found : f.rule = r).parent]]

Smallest(D, xs) ==
    LET s == {SizeOf(xs[i], D.size) : i \in DOMAIN xs}
    IN  Min({i \in DOMAIN xs : SizeOf(xs[i], D.size) = Min(s)})

\* A shortest derivation: a sequence of nodes and tokens.
RECURSIVE Shortest(_, _)
ShortestSeq(D, xs) ==
    LET s[i \in 0..Len(xs)] == IF i = 0 THEN <<>> ELSE s[i - 1] \o Shortest(D, xs[i]) IN s[Len(xs)]
Shortest(D, x) ==
    CASE x.op = "tok" -> <<Token(x.tok)>>
      [] x.op = "rule" -> <<Node(x.rule, Shortest(D, D.g.rules[x.rule]))>>
      [] x.op = "cat" -> ShortestSeq(D, x.xs)
      [] x.op = "alt" -> Shortest(D, x.xs[Smallest(D, x.xs)])
      [] OTHER -> <<>>

Both(A, B) == {a \o b : a \in A, b \in B}

IsOperator(r, x) == x.op = "loop" /\ \E i \in DOMAIN x.ops : x.ops[i].rule = r

\* The rule that an operator's left operand belongs to.
LeftOf(D, r) ==
    LET owners == {c.caller : c \in {d \in D.g.callers[r] : d.rest # <<>> /\ IsOperator(r, d.rest[1])}}
    IN  IF owners = {} THEN <<>> ELSE Shortest(D, N(CHOOSE q \in owners : TRUE))

\* Every way to make the choices of x.
RECURSIVE Variants(_, _)
Variants(D, x) ==
    CASE x.op \in {"tok", "rule"} -> {Shortest(D, x)}
      [] x.op = "cat" -> LET v[i \in 0..Len(x.xs)] == IF i = 0 THEN {<<>>} ELSE Both(v[i - 1], Variants(D, x.xs[i]))
                         IN  v[Len(x.xs)]
      [] x.op = "alt" -> UNION {Variants(D, x.xs[i]) : i \in DOMAIN x.xs}
      [] x.op = "opt" -> {<<>>} \cup Variants(D, x.x)
      [] x.op = "star" -> LET v == Variants(D, x.x) IN {<<>>} \cup v \cup Both(v, v)
      [] x.op = "loop" -> {<<>>}

\* The shortest kids of x with t for a call of r.
Mentions(x, r) == \E c \in Calls(x, <<>>) : c.rule = r
RECURSIVE With(_, _, _, _)
With(D, x, r, t) ==
    CASE x.op = "rule" -> <<t>>
      [] x.op = "cat" -> LET i == Min({j \in DOMAIN x.xs : Mentions(x.xs[j], r)})
                         IN  IF x.xs[i].op = "loop" THEN <<t>>
                             ELSE ShortestSeq(D, SubSeq(x.xs, 1, i - 1)) \o With(D, x.xs[i], r, t)
                                  \o ShortestSeq(D, SubSeq(x.xs, i + 1, Len(x.xs)))
      [] x.op = "alt" -> With(D, x.xs[Min({j \in DOMAIN x.xs : Mentions(x.xs[j], r)})], r, t)
      [] OTHER -> With(D, x.x, r, t)

\* A query with the tree t of rule r in it.
RECURSIVE Embed(_, _, _)
Embed(D, r, t) ==
    IF r = D.g.root THEN t
    ELSE LET q == D.parent[r]
         IN  Embed(D, q, Node(q, LeftOf(D, q) \o With(D, D.g.rules[q], r, t)))

DerivedBy(D, r) == {Embed(D, r, Node(r, LeftOf(D, r) \o v)) : v \in Variants(D, D.g.rules[r])}

\* Two levels: one of the rules that a variant calls is varied too.
Refined(D, kids) ==
    UNION {{[kids EXCEPT ![i] = Node(kids[i].rule, LeftOf(D, kids[i].rule) \o v)] : v \in Variants(D, D.g.rules[kids[i].rule])} :
              i \in {j \in DOMAIN kids : "rule" \in DOMAIN kids[j]}}

DerivedByTwo(D, r) ==
    UNION {{Embed(D, r, Node(r, kids)) : kids \in Refined(D, LeftOf(D, r) \o v)} : v \in Variants(D, D.g.rules[r])}

\* Queries with a o1 b o2 c for two operators of rule r, grouped as their
\* strengths say; an operator is [rule, tok, strength].
Operation(r, a, o, b) == Node(r, <<Node(o.rule, <<a, Token(o.tok), b>>)>>)
Grouped(D, r, o1, o2, left) ==
    LET a == Shortest(D, N(r))[1]
    IN  Embed(D, r, IF left THEN Operation(r, Operation(r, a, o1, a), o2, a) ELSE Operation(r, a, o1, Operation(r, a, o2, a)))

============================================================================

------------------------------ MODULE Grammar ------------------------------
(***************************************************************************)
(* What the parser generator makes of a grammar: for every rule a function *)
(* that matches tokens, calls the functions of other rules and decides     *)
(* between alternatives by looking at the tokens ahead.  A rule is an      *)
(* expression made with the operators below; a grammar G is a record with  *)
(* the rules by name and the tables computed from them (Tables).           *)
(*                                                                         *)
(* A token is [tok |-> kind, v |-> text]; a tree node is [rule |-> name,   *)
(* kids |-> nodes and tokens].  A labelled alternative is a rule of its    *)
(* own, so its node is the only child of the node of its rule.             *)
(***************************************************************************)
EXTENDS Naturals, Sequences, FiniteSets, FiniteSetsExt

T(t) == [op |-> "tok", tok |-> t]
N(r) == [op |-> "rule", rule |-> r, level |-> 0]
At(r, l) == [op |-> "rule", rule |-> r, level |-> l]
Cat(xs) == [op |-> "cat", xs |-> xs]
Alt(xs) == [op |-> "alt", xs |-> xs]
Opt(x) == [op |-> "opt", x |-> x]
Star(x) == [op |-> "star", x |-> x]
Plus(x) == Cat(<<x, Star(x)>>)
OneOf(toks) == Alt([i \in DOMAIN toks |-> T(toks[i])])
ListOf(x, sep) == Cat(<<x, Star(Cat(<<T(sep), x>>))>>)

\* The operators of a left recursive rule: each has a level and the rule of
\* what follows the left operand.
Loop(ops) == [op |-> "loop", ops |-> ops]

(***************************************************************************)
(* The ways to continue with a sequence of expressions whose first one is  *)
(* a choice, in the order in which the generated code numbers them.        *)
(***************************************************************************)
Branches(x, rest) ==
    CASE x.op = "alt"  -> [i \in DOMAIN x.xs |-> <<x.xs[i]>> \o rest]
      [] x.op = "opt"  -> << <<x.x>> \o rest, rest >>
      [] x.op = "star" -> << <<x.x, x>> \o rest, rest >>
      [] x.op = "loop" -> [i \in 1..(Len(x.ops) + 1) |->
                              IF i > Len(x.ops) THEN rest ELSE <<N(x.ops[i].rule), x>> \o rest]
      [] OTHER -> <<>>

(***************************************************************************)
(* The tables: which rules derive the empty sequence, the tokens a rule    *)
(* starts with, its callers (the calling rule and what is left of it after *)
(* the call) and the tokens that follow it anywhere.                       *)
(***************************************************************************)
RECURSIVE IsNullable(_, _)
IsNullable(x, ns) ==
    CASE x.op = "tok" -> FALSE
      [] x.op = "rule" -> x.rule \in ns
      [] x.op = "cat" -> \A i \in DOMAIN x.xs : IsNullable(x.xs[i], ns)
      [] x.op = "alt" -> \E i \in DOMAIN x.xs : IsNullable(x.xs[i], ns)
      [] OTHER -> TRUE

RECURSIVE FirstOf(_, _, _)
FirstOfSeq(xs, ns, first) ==
    UNION {FirstOf(xs[i], ns, first) :
              i \in {j \in DOMAIN xs : \A k \in 1..(j - 1) : IsNullable(xs[k], ns)}}
FirstOf(x, ns, first) ==
    CASE x.op = "tok" -> {x.tok}
      [] x.op = "rule" -> first[x.rule]
      [] x.op = "cat" -> FirstOfSeq(x.xs, ns, first)
      [] x.op = "alt" -> UNION {FirstOf(x.xs[i], ns, first) : i \in DOMAIN x.xs}
      [] x.op = "loop" -> UNION {first[x.ops[i].rule] : i \in DOMAIN x.ops}
      [] OTHER -> FirstOf(x.x, ns, first)

\* The rules an expression calls, each with what follows the call.
RECURSIVE Calls(_, _)
Calls(x, rest) ==
    CASE x.op = "tok" -> {}
      [] x.op = "rule" -> {[rule |-> x.rule, rest |-> rest]}
      [] x.op = "cat" -> UNION {Calls(x.xs[i], SubSeq(x.xs, i + 1, Len(x.xs)) \o rest) : i \in DOMAIN x.xs}
      [] x.op = "alt" -> UNION {Calls(x.xs[i], rest) : i \in DOMAIN x.xs}
      [] x.op = "opt" -> Calls(x.x, rest)
      [] x.op = "star" -> Calls(x.x, <<x>> \o rest)
      [] x.op = "loop" -> {[rule |-> x.ops[i].rule, rest |-> <<x>> \o rest] : i \in DOMAIN x.ops}

RECURSIVE NullableRules(_, _)
NullableRules(rules, ns) ==
    LET new == {r \in DOMAIN rules : IsNullable(rules[r], ns)}
    IN  IF new = ns THEN ns ELSE NullableRules(rules, new)

RECURSIVE FirstTokens(_, _, _)
FirstTokens(rules, ns, first) ==
    LET new == [r \in DOMAIN rules |-> FirstOf(rules[r], ns, first)]
    IN  IF new = first THEN first ELSE FirstTokens(rules, ns, new)

RECURSIVE FollowTokens(_, _, _, _)
FollowTokens(callers, ns, first, follow) ==
    LET new == [r \in DOMAIN follow |->
                   UNION {FirstOfSeq(c.rest, ns, first)
                          \cup IF \A i \in DOMAIN c.rest : IsNullable(c.rest[i], ns)
                                 THEN follow[c.caller] ELSE {} : c \in callers[r]}]
    IN  IF new = follow THEN follow ELSE FollowTokens(callers, ns, first, new)

Tables(rules, root) ==
    LET R == DOMAIN rules
        ns == NullableRules(rules, {})
        first == FirstTokens(rules, ns, [r \in R |-> {}])
        calls == UNION {{[caller |-> q, rule |-> c.rule, rest |-> c.rest] : c \in Calls(rules[q], <<>>)} : q \in R}
        callers == [r \in R |-> {[caller |-> c.caller, rest |-> c.rest] : c \in {d \in calls : d.rule = r}}]
    IN  [rules |-> rules, root |-> root, nullable |-> ns, first |-> first, callers |-> callers,
         follow |-> FollowTokens(callers, ns, first, [r \in R |-> {}])]

(***************************************************************************)
(* Prediction.  Where one token tells the alternatives apart the generated *)
(* code is a switch on it.  Elsewhere adaptivePredict follows all the      *)
(* alternatives at once, in SLL mode: a configuration is an alternative    *)
(* and a stack of frames, each a rule and what is left of it, and where    *)
(* the stack ends it goes on in every caller of the rule, whoever the      *)
(* caller really was.  It stops when one alternative is left, or at a      *)
(* conflict: two alternatives reach the same configuration and no state    *)
(* belongs to one alternative only.  Then the first alternative wins.      *)
(***************************************************************************)
Frame(r, rest) == [rule |-> r, rest |-> rest]

Unfold(G, c) ==
    LET top == Head(c.stack)
        x == Head(top.rest)
        Go(rest) == [c EXCEPT !.stack = <<Frame(top.rule, rest)>> \o Tail(@)]
        rest == Tail(top.rest)
    IN  IF top.rest = <<>>
          THEN IF Len(c.stack) > 1
                 THEN {[c EXCEPT !.stack = Tail(@)]}
                 ELSE {[c EXCEPT !.stack = <<Frame(k.caller, k.rest)>>] : k \in G.callers[top.rule]}
        ELSE CASE x.op = "tok" -> {}
               [] x.op = "cat" -> {Go(x.xs \o rest)}
               [] x.op = "rule" -> {[c EXCEPT !.stack = <<Frame(x.rule, <<G.rules[x.rule]>>), Frame(top.rule, rest)>>
                                                        \o Tail(@)]}
               [] OTHER -> LET bs == Branches(x, rest) IN {Go(bs[i]) : i \in DOMAIN bs}

Waits(c) == LET rest == Head(c.stack).rest IN rest # <<>> /\ Head(rest).op = "tok"

\* All configurations reachable without a token that wait for one, or are at the end.
RECURSIVE Closed(_, _, _)
Closed(G, new, seen) ==
    IF new = {} THEN {c \in seen : Waits(c) \/ Unfold(G, c) = {}}
    ELSE Closed(G, UNION {Unfold(G, c) : c \in new} \ (seen \cup new), seen \cup new)

Consume(G, cs, t) ==
    Closed(G, {[c EXCEPT !.stack[1].rest = Tail(@)] :
                  c \in {d \in cs : Waits(d) /\ Head(Head(d.stack).rest).tok = t}}, {})

Conflict(cs) ==
    /\ \E c, d \in cs : c.alt # d.alt /\ c.stack = d.stack
    /\ \A c \in cs : \E d \in cs : c.alt # d.alt /\ Head(c.stack) = Head(d.stack)

\* The alternative that adaptivePredict chooses, 0 if none is viable.
RECURSIVE Simulate(_, _, _, _)
Simulate(G, cs, toks, k) ==
    LET reach == Consume(G, cs, toks[k].tok)
        alts == {c.alt : c \in reach}
    IN  IF reach = {} THEN 0
        ELSE IF Cardinality(alts) = 1 \/ Conflict(reach) \/ k = Len(toks) THEN Min(alts)
        ELSE Simulate(G, reach, toks, k + 1)

\* The tokens that can come next in branch b of a decision in rule r.
Look(G, r, b) ==
    FirstOfSeq(b, G.nullable, G.first)
    \cup IF \A i \in DOMAIN b : IsNullable(b[i], G.nullable) THEN G.follow[r] ELSE {}

Viable(G, r, bs, toks, k) == {i \in DOMAIN bs : toks[k].tok \in Look(G, r, bs[i])}

\* Mutant: one token decides.
PredictByOne(G, r, bs, toks, k) ==
    LET viable == Viable(G, r, bs, toks, k) IN IF viable = {} THEN 0 ELSE Min(viable)

Predict(G, r, bs, toks, k) ==
    LET viable == Viable(G, r, bs, toks, k)
    IN  IF viable = {} THEN 0
        ELSE IF Cardinality(viable) = 1 THEN Min(viable)
        ELSE Simulate(G, Closed(G, {[alt |-> i, stack |-> <<Frame(r, bs[i])>>] : i \in viable}, {}), toks, k)

(***************************************************************************)
(* The function of rule r, called with a level (0 but for the operands of  *)
(* operators): matches rest from token k and returns the children of its   *)
(* node and the token after them.  The error listener throws at the first  *)
(* error, so nothing is recovered.                                         *)
(***************************************************************************)
Node(r, kids) == [rule |-> r, kids |-> kids]
Failed(k) == [ok |-> FALSE, k |-> k, kids |-> <<>>]

\* The operator taken after a left operand: the one that starts with the next
\* token, when its level is not below the level of the call; 0 for none.
Operator(G, ops, level, t) ==
    LET fit == {i \in DOMAIN ops : t \in G.first[ops[i].rule] /\ ops[i].level >= level}
    IN  IF fit = {} THEN 0 ELSE Min(fit)

RECURSIVE Match(_, _, _, _, _, _, _)
Match(G, r, level, rest, toks, k, kids) ==
    LET x == Head(rest)
        On(more) == Match(G, r, level, more, toks, k, kids)
    IN  IF rest = <<>> THEN [ok |-> TRUE, k |-> k, kids |-> kids]
        ELSE CASE x.op = "tok" ->
                    IF k <= Len(toks) /\ toks[k].tok = x.tok
                      THEN Match(G, r, level, Tail(rest), toks, k + 1, Append(kids, toks[k]))
                      ELSE Failed(k)
               [] x.op = "cat" -> On(x.xs \o Tail(rest))
               [] x.op = "rule" ->
                    LET sub == Match(G, x.rule, x.level, <<G.rules[x.rule]>>, toks, k, <<>>)
                    IN  IF sub.ok
                          THEN Match(G, r, level, Tail(rest), toks, sub.k, Append(kids, Node(x.rule, sub.kids)))
                          ELSE sub
               [] x.op = "loop" ->
                    LET i == Operator(G, x.ops, level, toks[k].tok)
                        op == x.ops[i].rule
                        sub == Match(G, op, 0, <<G.rules[op]>>, toks, k, <<Node(r, kids)>>)
                    IN  IF i = 0 THEN On(Tail(rest))
                        ELSE IF sub.ok THEN Match(G, r, level, rest, toks, sub.k, <<Node(op, sub.kids)>>)
                        ELSE sub
               [] OTHER ->
                    LET bs == Branches(x, Tail(rest))
                        i == Predict(G, r, bs, toks, k)
                    IN  IF i = 0 THEN Failed(k) ELSE On(bs[i])

\* root() or query(): the tree of a sequence of tokens, or the error.
Parse(G, toks) ==
    LET m == Match(G, G.root, 0, <<G.rules[G.root]>>, toks, 1, <<>>)
    IN  [ok |-> m.ok, k |-> m.k, tree |-> Node(G.root, m.kids)]

\* The tokens of a tree, in order.
RECURSIVE Yield(_)
Yield(t) ==
    IF "tok" \in DOMAIN t THEN <<t>>
    ELSE LET y[i \in 0..Len(t.kids)] == IF i = 0 THEN <<>> ELSE y[i - 1] \o Yield(t.kids[i]) IN y[Len(t.kids)]

============================================================================

-------------------------- MODULE PathExpressions ---------------------------
(***************************************************************************)
(* Property paths as a query writes them and as the parser stores them     *)
(* (parser/query/paths, visitPath... of grammar/mdb/query_visitor.h).      *)
(*                                                                         *)
(* What the query writes is a tree of                                      *)
(*   atom  - a type, after '^' or not, with a suffix                       *)
(*   group - alternatives in parentheses, after '^' or not, with a suffix  *)
(*   seq   - atoms and groups separated by '/'                             *)
(*   alt   - sequences separated by '|'                                    *)
(* and what is stored is a tree of IPath objects: atom, seq, alt, opt and  *)
(* star.  A letter is an edge type and the direction it is walked in; a    *)
(* word is the sequence of letters of a walk.                              *)
(***************************************************************************)
EXTENDS Naturals, Sequences, SequencesExt, FiniteSets

CONSTANTS
  Types,    \* edge types
  MaxWord   \* bound: words compared have at most this many letters

-----------------------------------------------------------------------------
(* What the query writes.  A suffix is none, '*', '+', '?' or {min, max}.    *)

Plain == [op |-> ""]
Star  == [op |-> "*"]
Plus  == [op |-> "+"]
Opt   == [op |-> "?"]
Times(min, max) == [op |-> "{}", min |-> min, max |-> max]

WAtom(t, inv, suffix)     == [op |-> "atom", type |-> t, inv |-> inv, suffix |-> suffix]
WGroup(body, inv, suffix) == [op |-> "group", body |-> body, inv |-> inv, suffix |-> suffix]
WSeq(items)               == [op |-> "seq", items |-> items]
WAlt(items)               == [op |-> "alt", items |-> items]

-----------------------------------------------------------------------------
(* What is stored.                                                          *)

PathAtom(t, inv) == [op |-> "atom", type |-> t, inv |-> inv]
PathSequence(ps) == [op |-> "seq", items |-> ps]
PathAlternatives(ps) == [op |-> "alt", items |-> ps]
PathOptional(p) == [op |-> "opt", path |-> p]

\* True if the path can be empty.
RECURSIVE nullable(_)
nullable(p) ==
  CASE p.op = "atom" -> FALSE
    [] p.op = "seq"  -> \A i \in DOMAIN p.items : nullable(p.items[i])
    [] p.op = "alt"  -> \E i \in DOMAIN p.items : nullable(p.items[i])
    [] OTHER         -> TRUE

\* PathDenull: the expression without the nullability that a star around it
\* gives anyway.
RECURSIVE denull(_)
denull(p) ==
  CASE p.op \in {"star", "opt"} -> p.path
    [] p.op \in {"seq", "alt"} /\ nullable(p) ->
         PathAlternatives([i \in DOMAIN p.items |-> denull(p.items[i])])
    [] OTHER -> p

PathKleeneStar(p) == [op |-> "star", path |-> denull(p)]

\* The inverse of a sequence with its members left in the order written.
RECURSIVE invertInPlace(_)
invertInPlace(p) ==
  CASE p.op = "atom" -> PathAtom(p.type, ~p.inv)
    [] p.op \in {"seq", "alt"} -> [p EXCEPT !.items = [i \in DOMAIN p.items |-> invertInPlace(p.items[i])]]
    [] p.op = "opt"  -> PathOptional(invertInPlace(p.path))
    [] p.op = "star" -> PathKleeneStar(invertInPlace(p.path))

\* The path walked from its end to its start.
RECURSIVE invert(_)
invert(p) ==
  CASE p.op = "atom" -> PathAtom(p.type, ~p.inv)
    [] p.op = "seq"  -> PathSequence(Reverse([i \in DOMAIN p.items |-> invert(p.items[i])]))
    [] p.op = "alt"  -> PathAlternatives([i \in DOMAIN p.items |-> invert(p.items[i])])
    [] p.op = "opt"  -> PathOptional(invert(p.path))
    [] p.op = "star" -> PathKleeneStar(invert(p.path))

\* The suffix of an atom or of a group.  {min, max} is a sequence of min
\* copies followed by optional ones, up to max; a '?' after a path that is
\* nullable is dropped.
Suffixed(p, suffix) ==
  CASE suffix.op = ""  -> p
    [] suffix.op = "*" -> PathKleeneStar(p)
    [] suffix.op = "+" -> PathSequence(<<p, PathKleeneStar(p)>>)
    [] suffix.op = "?" -> IF nullable(p) THEN p ELSE PathOptional(p)
    [] OTHER -> PathSequence([i \in 1 .. Max({suffix.min, suffix.max})
                                |-> IF i <= suffix.min THEN p ELSE PathOptional(p)])

\* The visitor.  inverse is current_path_inverse: the items of a sequence
\* under an odd number of '^' are visited from the last to the first.
RECURSIVE visit(_, _)
visit(w, inverse) ==
  LET visited(items) == [i \in DOMAIN items |-> visit(items[i], inverse)]
  IN  CASE w.op = "atom"  -> Suffixed(PathAtom(w.type, w.inv # inverse), w.suffix)
        [] w.op = "group" -> Suffixed(visit(w.body, w.inv # inverse), w.suffix)
        [] w.op = "seq"   -> PathSequence(IF inverse THEN Reverse(visited(w.items)) ELSE visited(w.items))
        [] w.op = "alt"   -> PathAlternatives(visited(w.items))

-----------------------------------------------------------------------------
(* The reference: the words of a path, straight from what the query writes. *)

Concat(U, V) == { x \in { u \o v : u \in U, v \in V } : Len(x) <= MaxWord }

\* The concatenations of i to j words of U.
RECURSIVE Repeat(_, _, _)
Repeat(U, i, j) ==
  IF j = 0 THEN {<< >>}
  ELSE (IF i = 0 THEN {<< >>} ELSE {}) \cup Concat(U, Repeat(U, IF i = 0 THEN 0 ELSE i - 1, j - 1))

\* The word of the same walk from its end.
Backwards(x) == Reverse([i \in DOMAIN x |-> [type |-> x[i].type, inv |-> ~x[i].inv]])

RepeatedAs(U, suffix) ==
  CASE suffix.op = ""  -> U
    [] suffix.op = "*" -> Repeat(U, 0, MaxWord)
    [] suffix.op = "+" -> Repeat(U, 1, MaxWord + 1)
    [] suffix.op = "?" -> Repeat(U, 0, 1)
    [] OTHER           -> Repeat(U, suffix.min, suffix.max)

RECURSIVE Words(_)
Words(w) ==
  CASE w.op = "atom"  -> RepeatedAs({<<[type |-> w.type, inv |-> w.inv]>>}, w.suffix)
    [] w.op = "group" ->
         RepeatedAs(IF w.inv THEN { Backwards(x) : x \in Words(w.body) } ELSE Words(w.body), w.suffix)
    [] w.op = "seq"   -> FoldLeft(LAMBDA U, item : Concat(U, Words(item)), {<< >>}, w.items)
    [] w.op = "alt"   -> UNION { Words(w.items[i]) : i \in DOMAIN w.items }

\* A star or an optional around a sequence that has a star in it is the one
\* thing that the automata do not keep apart from what it is not.
RECURSIVE HasStar(_), StarInSequence(_), Flat(_)
HasStar(w) ==
  CASE w.op = "atom"  -> w.suffix.op \in {"*", "+"}
    [] w.op = "group" -> w.suffix.op \in {"*", "+"} \/ HasStar(w.body)
    [] OTHER          -> \E i \in DOMAIN w.items : HasStar(w.items[i])
StarInSequence(w) ==
  CASE w.op = "atom"  -> FALSE
    [] w.op = "group" -> StarInSequence(w.body)
    [] w.op = "seq"   -> HasStar(w)
    [] w.op = "alt"   -> \E i \in DOMAIN w.items : StarInSequence(w.items[i])
Flat(w) ==
  CASE w.op = "atom"  -> TRUE
    [] w.op = "group" -> Flat(w.body) /\ (w.suffix.op # "" => ~StarInSequence(w.body))
    [] OTHER          -> \A i \in DOMAIN w.items : Flat(w.items[i])
=============================================================================

--------------------------- MODULE PathAutomaton ----------------------------
(***************************************************************************)
(* The automaton of a property path (parser/query/paths/automaton/         *)
(* rpq_automaton.cc and the get_rpq_base_automaton methods of the paths):  *)
(* built bottom up from the stored path, and then turned by                *)
(* transform_automaton, one transformation after another, into one without *)
(* epsilon transitions and with one final state, which is what the path    *)
(* iterators walk.                                                         *)
(*                                                                         *)
(* A state is a number; from[s] and to[s] are from_to_connections[s] and   *)
(* to_from_connections[s], in the order in which they are stored.  The     *)
(* type of an epsilon transition is "".                                    *)
(***************************************************************************)
EXTENDS PathExpressions

CONSTANT
  Queries   \* the paths that queries may write

VARIABLES
  written,  \* the path as the query writes it
  aut,      \* its automaton
  stage     \* the last transformation that was applied

vars == <<written, aut, stage>>

-----------------------------------------------------------------------------
(* Construction.                                                            *)

Transition(f, t, type, inv) == [from |-> f, to |-> t, type |-> type, inv |-> inv]
Epsilon(f, t) == Transition(f, t, "", FALSE)
IsEpsilon(t)  == t.type = ""

Empty == [from |-> << >>, to |-> << >>, ends |-> {}, start |-> 0, total |-> 1,
          final |-> 0, start_is_final |-> FALSE, distance |-> << >>]

Slots(A) == DOMAIN A.from

\* add_transition: make room for both states, add what is not there yet.
AddTransition(A, t) ==
  LET n == Max({Cardinality(Slots(A)), t.from + 1, t.to + 1})
      grown(c) == [s \in 0 .. n - 1 |-> IF s \in DOMAIN c THEN c[s] ELSE << >>]
      B == [A EXCEPT !.from = grown(@), !.to = grown(@), !.total = n]
  IN  IF Contains(B.from[t.from], t) THEN B
      ELSE [B EXCEPT !.from[t.from] = Append(@, t), !.to[t.to] = Append(@, t)]

AddAll(A, ts) == FoldLeft(AddTransition, A, ts)

\* The transitions of A, state by state.
Transitions(A) ==
  FlattenSeq([i \in 1 .. Cardinality(Slots(A)) |-> A.from[i - 1]])

\* rename_and_merge: the states of B come after those of A.
Merge(A, B) ==
  AddAll(A, [i \in DOMAIN Transitions(B) |->
               LET t == Transitions(B)[i] IN [t EXCEPT !.from = @ + A.total, !.to = @ + A.total]])

Renamed(A, S) == { s + A.total : s \in S }

\* Transitions of no type between the states S and s.
EpsilonsFrom(S, s) == LET seq == SetToSortSeq(S, <) IN [i \in DOMAIN seq |-> Epsilon(seq[i], s)]

AtomAutomaton(p) == [AddTransition(Empty, Transition(0, 1, p.type, p.inv)) EXCEPT !.ends = {1}]

\* The next alternative: its start is reached from the start.
WithAlternative(A, B) ==
  [AddTransition(Merge(A, B), Epsilon(A.start, A.total)) EXCEPT !.ends = A.ends \cup Renamed(A, B.ends)]

\* The next of a sequence: its start is reached from the ends so far.
Followed(A, B) ==
  [AddAll(Merge(A, B), EpsilonsFrom(A.ends, A.total)) EXCEPT !.ends = Renamed(A, B.ends)]

\* Mutant: a star whose start is not made an end.
StarredPlus(A) ==
  IF A.total = 2
  THEN [AddTransition(Empty, [A.from[0][1] EXCEPT !.to = 0]) EXCEPT !.ends = {0}]
  ELSE AddAll(A, EpsilonsFrom(A.ends, A.start))

\* The star: one state with a loop around an atom, and otherwise the ends lead
\* back to the start, which is an end.
Starred(A) ==
  IF A.total = 2
  THEN [AddTransition(Empty, [A.from[0][1] EXCEPT !.to = 0]) EXCEPT !.ends = {0}]
  ELSE [AddAll(A, EpsilonsFrom(A.ends, A.start)) EXCEPT !.ends = A.ends \cup {A.start}]

OptionalAutomaton(A) == [A EXCEPT !.ends = @ \cup {A.start}]

RECURSIVE base_automaton(_)
base_automaton(p) ==
  CASE p.op = "atom" -> AtomAutomaton(p)
    [] p.op = "alt"  -> FoldLeft(LAMBDA A, q : WithAlternative(A, base_automaton(q)), Empty, p.items)
    [] p.op = "seq"  -> FoldLeft(LAMBDA A, q : Followed(A, base_automaton(q)),
                                 base_automaton(p.items[1]), Tail(p.items))
    [] p.op = "star" -> Starred(base_automaton(p.path))
    [] p.op = "opt"  -> OptionalAutomaton(base_automaton(p.path))

-----------------------------------------------------------------------------
(* The transformations.                                                     *)

\* merge_states: what source had is redirected to destiny.
Redirected(t, source, destiny) ==
  [t EXCEPT !.from = IF t.from = source THEN destiny ELSE @,
            !.to   = IF t.to = source THEN destiny ELSE @]

WithoutFrom(A, t) == [A EXCEPT !.from[t.from] = RemoveFirst(@, t)]
WithoutTo(A, t)   == [A EXCEPT !.to[t.to] = RemoveFirst(@, t)]

MergeStates(A, destiny, source) ==
  LET A1 == IF source \in A.ends THEN [A EXCEPT !.ends = @ \cup {destiny}] ELSE A
      A2 == FoldLeft(LAMBDA B, t : WithoutTo(AddTransition(B, Redirected(t, source, destiny)), t),
                     A1, A1.from[source])
      A3 == FoldLeft(LAMBDA B, t : WithoutFrom(AddTransition(B, Redirected(t, source, destiny)), t),
                     A2, A2.to[source])
  IN  [A3 EXCEPT !.from[source] = << >>, !.to[source] = << >>]

\* The first test of the loop: s is entered by one transition, an epsilon.
EnteredByEpsilon(A, s) ==
  /\ Len(A.to[s]) = 1
  /\ IsEpsilon(A.to[s][1])
  /\ A.to[s][1].from # s

\* The second test: s is left by one transition, an epsilon.
LeftByEpsilon(A, s) ==
  /\ Len(A.from[s]) = 1
  /\ IsEpsilon(A.from[s][1])
  /\ A.from[s][1].to # s

\* The start state is kept, whichever of the two it is.
MergeKeepingStart(A, s, other) ==
  IF other = A.start THEN MergeStates(A, other, s) ELSE MergeStates(A, s, other)

MergeAt(A, s) ==
  LET B == IF EnteredByEpsilon(A, s) THEN MergeKeepingStart(A, s, A.to[s][1].from) ELSE A
  IN  IF LeftByEpsilon(B, s) THEN MergeKeepingStart(B, s, B.from[s][1].to) ELSE B

InOrder(A) == [i \in 1 .. Cardinality(Slots(A)) |-> i - 1]

RECURSIVE delete_mergeable_states(_)
delete_mergeable_states(A) ==
  LET B == FoldLeft(MergeAt, A, InOrder(A))
  IN  IF B = A THEN A ELSE delete_mergeable_states(B)

\* The states that step leads to from the states S, those of S included.
RECURSIVE Closure(_, _)
Closure(S, step) ==
  LET T == S \cup UNION { step[s] : s \in S }
  IN  IF T = S THEN S ELSE Closure(T, step)

\* get_epsilon_closure: s itself is in it only if a cycle leads back to s.
EpsilonClosure(A, s) ==
  LET step == [u \in Slots(A) |-> { t.to : t \in { x \in ToSet(A.from[u]) : IsEpsilon(x) } }]
  IN  Closure(step[s], step)

\* The epsilon transitions of s give way to those of its closure.  to is left
\* with the transitions that were deleted.
DeleteEpsilonsAt(A, s) ==
  LET closure == EpsilonClosure(A, s)
      kept(ts) == SelectSeq(ts, LAMBDA t : ~IsEpsilon(t))
      order == SetToSortSeq(closure, <)
      beyond == FlattenSeq([i \in DOMAIN order |->
                  LET ts == kept(A.from[order[i]]) IN [j \in DOMAIN ts |-> [ts[j] EXCEPT !.from = s]]])
      B == AddAll(A, beyond)
  IN  [B EXCEPT !.from[s] = kept(@),
                !.ends = IF closure \cap A.ends # {} THEN @ \cup {s} ELSE @]

delete_epsilon_transitions(A) == FoldLeft(DeleteEpsilonsAt, A, InOrder(A))

\* get_reachable_states, along from or along to.
Reached(A, s)     == Closure({s}, [u \in Slots(A) |-> { t.to : t \in ToSet(A.from[u]) }])
ReachedBack(A, s) == Closure({s}, [u \in Slots(A) |-> { t.from : t \in ToSet(A.to[u]) }])

\* Only the transitions between states of S are left.
Within(A, S) ==
  LET inside(ts) == SelectSeq(ts, LAMBDA t : t.from \in S /\ t.to \in S)
  IN  [A EXCEPT !.from = [s \in Slots(A) |-> IF s \in S THEN inside(A.from[s]) ELSE << >>],
                !.to   = [s \in Slots(A) |-> IF s \in S THEN inside(A.to[s]) ELSE << >>]]

delete_unreachable_states(A) ==
  LET S == Reached(A, A.start) IN [Within(A, S) EXCEPT !.ends = @ \cap S]

\* set_final_state: a state of its own when there are several ends, reached
\* by whatever reaches an end.
set_final_state(A) ==
  IF Cardinality(A.ends) = 1
  THEN LET e == CHOOSE s \in A.ends : TRUE
       IN  [A EXCEPT !.final = e, !.start_is_final = e = A.start]
  ELSE LET final == Cardinality(Slots(A))
           toEnds == SelectSeq(Transitions(A), LAMBDA t : t.to \in A.ends)
           B == [A EXCEPT !.final = final, !.total = final + 1, !.start_is_final = A.start \in A.ends]
       IN  AddAll(B, [i \in DOMAIN toEnds |-> [toEnds[i] EXCEPT !.to = final]])

delete_absortion_states(A) == [Within(A, ReachedBack(A, A.final)) EXCEPT !.ends = {}]

\* calculate_distance_to_final_state, along to; Far is UINT32_MAX.
Far == 1000

RECURSIVE Layers(_, _, _, _)
Layers(A, layer, d, dist) ==
  IF layer = {} THEN dist
  ELSE LET new == [s \in DOMAIN dist |-> IF s \in layer THEN d ELSE dist[s]]
           before == UNION { { t.from : t \in ToSet(A.to[s]) } : s \in layer }
       IN  Layers(A, { s \in before : new[s] = Far }, d + 1, new)

\* Mutant: the final state is one letter from itself.
DistanceFromOne(A) ==
  [A EXCEPT !.distance = Layers(A, {A.final}, 1, [s \in 0 .. A.total - 1 |-> Far])]

calculate_distance_to_final_state(A) ==
  [A EXCEPT !.distance = Layers(A, {A.final}, 0, [s \in 0 .. A.total - 1 |-> Far])]

\* sort_state_transition: selection by the distance of the state reached.
SortStep(A, ts, i) ==
  LET d(j) == A.distance[ts[j].to]
      least == Min({ d(j) : j \in i .. Len(ts) })
      m == Min({ j \in i .. Len(ts) : d(j) = least })
  IN  [ts EXCEPT ![i] = ts[m], ![m] = ts[i]]

SortState(A, ts) == FoldLeft(LAMBDA us, i : SortStep(A, us, i), ts, [i \in DOMAIN ts |-> i])

sort_transitions(A) == [A EXCEPT !.from = [s \in Slots(A) |-> SortState(A, A.from[s])]]

-----------------------------------------------------------------------------
(* transform_automaton.                                                     *)

\* The path is parsed; a plan that has the end of the path and not its start
\* inverts it (PathPlan::get_binding_id_iter).
Init ==
  /\ written \in Queries
  /\ \E backwards \in BOOLEAN :
       /\ aut = base_automaton(IF backwards THEN invert(visit(written, FALSE)) ELSE visit(written, FALSE))
       /\ stage = [name |-> "built", backwards |-> backwards]

Transform(before, after, F(_)) ==
  /\ stage.name = before
  /\ stage' = [stage EXCEPT !.name = after]
  /\ aut' = F(aut)
  /\ UNCHANGED written

DeleteMergeable   == Transform("built", "merged", delete_mergeable_states)
DeleteEpsilons    == Transform("merged", "no_epsilon", delete_epsilon_transitions)
DeleteUnreachable == Transform("no_epsilon", "reachable", delete_unreachable_states)
SetFinal          == Transform("reachable", "final_set", set_final_state)
DeleteAbsortion   == Transform("final_set", "trimmed", delete_absortion_states)
CalculateDistance == Transform("trimmed", "measured", calculate_distance_to_final_state)
SortTransitions   == Transform("measured", "sorted", sort_transitions)

Next ==
  \/ DeleteMergeable
  \/ DeleteEpsilons
  \/ DeleteUnreachable
  \/ SetFinal
  \/ DeleteAbsortion
  \/ CalculateDistance
  \/ SortTransitions

Spec == Init /\ [][Next]_vars

-----------------------------------------------------------------------------
(* What the automaton accepts.                                              *)

\* The words of at most MaxWord letters and the states they lead to.
RECURSIVE Runs(_, _)
Runs(A, n) ==
  IF n = 0 THEN { <<<< >>, s>> : s \in {A.start} \cup EpsilonClosure(A, A.start) }
  ELSE LET R == Runs(A, n - 1)
           steps == { <<r, t>> \in R \X ToSet(Transitions(A)) :
                        Len(r[1]) = n - 1 /\ t.from = r[2] /\ ~IsEpsilon(t) }
       IN  R \cup UNION { LET x == Append(q[1][1], [type |-> q[2].type, inv |-> q[2].inv])
                          IN  { <<x, s>> : s \in {q[2].to} \cup EpsilonClosure(A, q[2].to) } : q \in steps }

\* Until there is a final state, a word ends in one of the ends; after that,
\* in the final state, and the empty one only if the start is final.
Accepted(A, name) ==
  IF name \in {"built", "merged", "no_epsilon", "reachable"}
  THEN { r[1] : r \in { x \in Runs(A, MaxWord) : x[2] \in A.ends } }
  ELSE { r[1] : r \in { x \in Runs(A, MaxWord) : x[2] = A.final /\ x[1] # << >> } }
       \cup (IF A.start_is_final THEN {<< >>} ELSE {})

Expected ==
  IF stage.backwards THEN { Backwards(x) : x \in Words(written) } ELSE Words(written)

\* Every word of the path is accepted, at every stage of the transformation.
NothingMissed == Expected \subseteq Accepted(aut, stage.name)

\* Nothing else is.
NothingExtra  == Accepted(aut, stage.name) \subseteq Expected

\* Nothing else is, if no star or optional is around a sequence with a star.
NothingExtraWhenFlat == Flat(written) => NothingExtra

\* What the iterators rely on once the automaton is transformed: no epsilon
\* transition, and a way from the start through every transition to the final
\* state.
Trimmed ==
  stage.name \in {"trimmed", "measured", "sorted"} =>
    \A t \in ToSet(Transitions(aut)) :
      /\ ~IsEpsilon(t)
      /\ t.from \in Reached(aut, aut.start)
      /\ aut.final \in Reached(aut, t.to)

\* The states n letters or fewer from S.
RECURSIVE WithinLetters(_, _, _)
WithinLetters(A, S, n) ==
  IF n = 0 THEN S
  ELSE LET T == WithinLetters(A, S, n - 1) IN T \cup { t.to : t \in { x \in ToSet(Transitions(A)) : x.from \in T } }

\* The distance of a state is never more than the length of a shortest word
\* that leads from it to the final state.
DistanceIsAdmissible ==
  stage.name \in {"measured", "sorted"} =>
    \A s \in Slots(aut), n \in 0 .. MaxWord : aut.final \in WithinLetters(aut, {s}, n) => aut.distance[s] <= n
=============================================================================

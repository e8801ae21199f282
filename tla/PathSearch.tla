----------------------------- MODULE PathSearch -----------------------------
(***************************************************************************)
(* The evaluation of a property path (execution/binding_id_iter/paths):    *)
(* the plan chooses an iterator by the ends of the path that are bound and *)
(* by its semantics, and the iterator searches the product of the graph    *)
(* and the automaton of PathAutomaton, breadth first, handing out one      *)
(* result for each call of next().  A join calls reset() to search again   *)
(* from another binding once next() has returned false.                    *)
(*                                                                         *)
(* One step is one turn of the loop inside next().  A search state is      *)
(* <<automaton state, node>>; what visited holds for it is the list of the *)
(* transitions that reached it first (one in the ANY iterators), its       *)
(* distance, and the place of PathIter in that list.                       *)
(***************************************************************************)
EXTENDS PathAutomaton

CONSTANTS
  Nodes,      \* the nodes of the graph, numbers above 0
  Graphs,     \* the graphs, sets of edges [from, type, to, id]
  MaxResets   \* bound: how many times a join calls reset()

VARIABLES
  graph,      \* the edges
  plan,       \* the iterator that was chosen and the ends it was given
  it,         \* the state of the search
  outer,      \* the state of UnfixedComposite around it
  rows,       \* what next() has returned since begin() or reset()
  resets      \* the calls of reset()

searchVars == <<graph, plan, it, outer, rows, resets>>
pathVars   == <<vars, searchVars>>

Absent == 0      \* a node that a query names and the graph does not have
Null   == << >>

-----------------------------------------------------------------------------
(* The indexes: the neighbours by a transition, in the order of the B+ tree. *)

Neighbours(n, t) ==
  LET found == { e \in graph : e.type = t.type /\ n = IF t.inv THEN e.to ELSE e.from }
      other(e) == IF t.inv THEN e.from ELSE e.to
      order == SetToSortSeq(found, LAMBDA e, f : \/ other(e) < other(f)
                                                 \/ other(e) = other(f) /\ e.id < f.id)
  IN  [i \in DOMAIN order |-> other(order[i])]

\* The from of every edge of a type, in the order of type_from_to_edge.
Sources(type) ==
  LET order == SetToSortSeq({ e \in graph : e.type = type },
                            LAMBDA e, f : \/ e.from < f.from
                                          \/ e.from = f.from /\ e.to < f.to
                                          \/ e.from = f.from /\ e.to = f.to /\ e.id < f.id)
  IN  [i \in DOMAIN order |-> order[i].from]

-----------------------------------------------------------------------------
(* Search states.                                                           *)

First   == [preds |-> << >>, dist |-> 0, current |-> 0]
Step(k, t) == [prev |-> k, type |-> t.type, inv |-> t.inv]
Reached1(k, t, d) == [preds |-> <<Step(k, t)>>, dist |-> d, current |-> 0]

NoIter == [tr |-> 0, rest |-> << >>]

\* What begin() and reset() leave: the start is open and visited.
Search(n) == [open |-> <<<<aut.start, n>>>>, visited |-> (<<aut.start, n>> :> First),
              first |-> TRUE, iter |-> NoIter, saved |-> Null]

\* The records that are left of the state at the front of open, transition by
\* transition: the rest of the one iter is at and those that follow.
Pending ==
  LET k  == Head(it.open)
      ts == aut.from[k[1]]
      tagged(tr, ns) == [i \in DOMAIN ns |-> [tr |-> tr, node |-> ns[i]]]
  IN  FlattenSeq([tr \in DOMAIN ts |-> CASE tr < it.iter.tr -> << >>
                                         [] tr = it.iter.tr -> tagged(tr, it.iter.rest)
                                         [] OTHER -> tagged(tr, Neighbours(k[2], ts[tr]))])

TransitionAt(p) == aut.from[Head(it.open)[1]][p.tr]
KeyOf(p)        == <<TransitionAt(p).to, p.node>>

\* Mutant: the rest of the records of the transition is lost.
IterAtEnd(ps, i) == [tr |-> ps[i].tr, rest |-> << >>]

\* iter after the i-th of the pending records.
IterAfter(ps, i) ==
  LET rest == SelectSeq(SubSeq(ps, i + 1, Len(ps)), LAMBDA p : p.tr = ps[i].tr)
  IN  [tr |-> ps[i].tr, rest |-> [j \in DOMAIN rest |-> rest[j].node]]

\* Mutants: a state that is not waiting is taken for a new one; a state goes
\* to the front of the queue.
IsNotOpen(k) == k \notin ToSet(it.open)
PushedNext(open, k) == <<Head(open), k>> \o Tail(open)

\* visited.insert: whether a state is new; and the end of the queue.
IsNew(k) == k \notin DOMAIN it.visited
Pushed(open, k) == Append(open, k)

\* The path that leads to a state, by the transitions PathIter is at (the only
\* one, in the ANY iterators).
RECURSIVE PathTo(_, _)
PathTo(V, k) ==
  IF V[k].preds = << >> THEN << >>
  ELSE LET s == V[k].preds[IF V[k].current = 0 THEN 1 ELSE V[k].current]
       IN  Append(PathTo(V, s.prev), [type |-> s.type, inv |-> s.inv, node |-> k[2]])

\* PathIter::next, which moves the places of the states before k.
RECURSIVE PathNext(_, _)
PathNext(V, k) ==
  LET v == V[k]
      place(W, i) == [W EXCEPT ![k].current = i]
      begunAt(i) == [ok |-> TRUE, visited |-> PathNext(place(V, i), v.preds[i].prev).visited]
  IN  IF v.preds = << >> THEN [ok |-> FALSE, visited |-> V]
      ELSE IF v.current = 0 THEN begunAt(1)
      ELSE LET before == PathNext(V, v.preds[v.current].prev)
           IN  IF before.ok THEN before
               ELSE IF v.current = Len(v.preds)
               THEN [ok |-> FALSE, visited |-> place(before.visited, 0)]
               ELSE [ok |-> TRUE, visited |->
                       PathNext(place(before.visited, v.current + 1), v.preds[v.current + 1].prev).visited]

\* start_enumeration: only the transition added last is enumerated, unless
\* the first one comes from the start of the search.
StartEnumeration(V, k) ==
  IF V[V[k].preds[1].prev].preds # << >> THEN [V EXCEPT ![k].current = Len(V[k].preds)] ELSE V

Row(n, path) == [start |-> plan.start, end |-> n, path |-> path]

-----------------------------------------------------------------------------
(* The plan.                                                                *)

Kinds == {"any_enum", "any_enum2", "any_check", "unfixed", "all_enum", "all_check"}

\* get_binding_id_iter of PathPlan and SparqlPathPlan: a path that is bound at
\* its end only was inverted, one that is bound at neither end cannot be
\* nullable, nor ALL.
PlanChoices(backwards) ==
  IF backwards THEN {"any_enum", "any_enum2", "all_enum"}
  ELSE {"any_enum", "any_enum2", "any_check", "all_enum", "all_check"}
       \cup (IF nullable(visit(written, FALSE)) THEN {} ELSE {"unfixed"})

StartRecords(tr) == Sources(aut.from[aut.start][tr].type)

\* begin() of UnfixedComposite, and its reset(): seen is what visited held.
UnfixedAt(seen) ==
  LET recs == StartRecords(1)
  IN  [tr |-> 1, rest |-> IF recs = << >> THEN << >> ELSE Tail(recs),
       record |-> IF recs = << >> THEN Absent ELSE Head(recs),
       begun |-> recs # << >>, visited |-> seen, crashed |-> FALSE]

NoSearch == [Search(Absent) EXCEPT !.open = << >>, !.first = FALSE]

Begin(kind, s, e) ==
  /\ stage.name = "sorted"
  /\ plan.kind = "none"
  /\ kind \in PlanChoices(stage.backwards) \ {"unfixed"}
  /\ plan' = [kind |-> kind, start |-> s, end |-> e]
  /\ it' = Search(s)
  /\ UNCHANGED <<vars, graph, outer, rows, resets>>

BeginUnfixed ==
  /\ stage.name = "sorted"
  /\ plan.kind = "none"
  /\ "unfixed" \in PlanChoices(stage.backwards)
  /\ LET o == UnfixedAt({})
     IN  /\ outer' = [o EXCEPT !.visited = IF o.begun THEN {o.record} ELSE {}]
         /\ plan' = [kind |-> "unfixed", start |-> o.record, end |-> Absent]
         /\ it' = IF o.begun THEN Search(o.record) ELSE NoSearch
  /\ UNCHANGED <<vars, graph, rows, resets>>

-----------------------------------------------------------------------------
(* next(): the first call.                                                  *)

Enums  == {"any_enum", "any_enum2", "all_enum", "unfixed"}
Checks == {"any_check", "all_check"}

Exists(n) == n \in Nodes \/ plan.kind = "any_enum2"

FirstTurn ==
  /\ it.first
  /\ LET n == plan.start
         empty == aut.start_is_final /\ (plan.kind \in Enums \/ n = plan.end)
         stops == ~Exists(n) \/ (empty /\ plan.kind \in Checks)
         marks == empty /\ plan.kind \in Enums \ {"any_enum2"} /\ <<aut.final, n>> \notin DOMAIN it.visited
     IN  /\ it' = [it EXCEPT !.first = FALSE,
                             !.open = IF stops THEN << >> ELSE @,
                             !.visited = IF Exists(n) /\ marks THEN @ @@ (<<aut.final, n>> :> First) ELSE @]
         /\ rows' = IF Exists(n) /\ empty THEN Append(rows, Row(n, << >>)) ELSE rows
  /\ UNCHANGED <<vars, graph, plan, outer, resets>>

Turning(kinds) == plan.kind \in kinds /\ ~it.first /\ it.open # << >>

\* Mutant: the state is not popped.
KeepFront == it' = [it EXCEPT !.iter = NoIter]
PopFront == it' = [it EXCEPT !.open = Tail(@), !.iter = NoIter]

-----------------------------------------------------------------------------
(* ANY: one transition for each state.                                      *)

\* current_state_has_next: a record leads to a state that is new or not.
AnyTurn ==
  /\ Turning({"any_enum", "any_enum2", "unfixed"})
  /\ LET ps == Pending
         p  == Head(ps)
         k  == KeyOf(p)
         new == IsNew(k)
         V  == IF new THEN it.visited @@ (k :> Reached1(Head(it.open), TransitionAt(p), 0)) ELSE it.visited
     IN  IF ps = << >> THEN PopFront /\ rows' = rows
         ELSE /\ it' = [it EXCEPT !.iter = IterAfter(ps, 1), !.visited = V,
                                  !.open = IF new THEN Pushed(@, k) ELSE @]
              /\ rows' = IF new /\ k[1] = aut.final THEN Append(rows, Row(k[2], PathTo(V, k))) ELSE rows
  /\ UNCHANGED <<vars, graph, plan, outer, resets>>

\* BFSCheck: the search is over when the end is reached in the final state.
AnyCheckTurn ==
  /\ Turning({"any_check"})
  /\ LET ps == Pending
         p  == Head(ps)
         k  == KeyOf(p)
         new == IsNew(k)
         V  == IF new THEN it.visited @@ (k :> Reached1(Head(it.open), TransitionAt(p), 0)) ELSE it.visited
         found == k = <<aut.final, plan.end>>
     IN  IF ps = << >> THEN PopFront /\ rows' = rows
         ELSE /\ it' = [it EXCEPT !.iter = IterAfter(ps, 1), !.visited = V,
                                  !.open = CASE found -> << >> [] new -> Pushed(@, k) [] OTHER -> @]
              /\ rows' = IF found THEN Append(rows, Row(k[2], PathTo(V, k))) ELSE rows
  /\ UNCHANGED <<vars, graph, plan, outer, resets>>

-----------------------------------------------------------------------------
(* UnfixedComposite: the next start once the inner search is over.          *)

\* The records after those with the from of the current one.
AfterCurrent == SelectSeq(outer.rest, LAMBDA n : n # outer.record)

\* From a record that starts a search: a start seen before does not.
StartAt(o, n) ==
  LET new == n \notin o.visited
  IN  /\ outer' = [o EXCEPT !.visited = @ \cup {n}, !.crashed = new /\ ~o.begun]
      /\ plan' = IF new THEN [plan EXCEPT !.start = n] ELSE plan
      /\ it' = IF new /\ o.begun THEN Search(n) ELSE it

UnfixedTurn ==
  /\ plan.kind = "unfixed"
  /\ ~it.first
  /\ it.open = << >>
  /\ ~outer.crashed
  /\ outer.tr <= Len(aut.from[aut.start])
  /\ IF AfterCurrent # << >>
     THEN StartAt([outer EXCEPT !.rest = Tail(AfterCurrent), !.record = Head(AfterCurrent)], Head(AfterCurrent))
     ELSE LET tr   == outer.tr + 1
              recs == IF tr <= Len(aut.from[aut.start]) THEN StartRecords(tr) ELSE << >>
          IN  IF recs = << >>
              THEN /\ outer' = [outer EXCEPT !.tr = tr, !.rest = << >>, !.record = Absent]
                   /\ UNCHANGED <<plan, it>>
              ELSE StartAt([outer EXCEPT !.tr = tr, !.rest = Tail(recs), !.record = Head(recs)], Head(recs))
  /\ UNCHANGED <<vars, graph, rows, resets>>

-----------------------------------------------------------------------------
(* ALL: every shortest path.                                                *)

\* Mutant: there is no other path to a state seen before.
AgainNever(k, d) == FALSE

\* A record leads to a new state, or along one more shortest path to a state
\* seen before, or nowhere.
Again(k, d) == k \in DOMAIN it.visited /\ it.visited[k].dist = d

Extended(k, t) ==
  LET from == Head(it.open)
      d == it.visited[from].dist + 1
  IN  IF IsNew(k) THEN it.visited @@ (k :> Reached1(from, t, d))
      ELSE IF Again(k, d) THEN [it.visited EXCEPT ![k].preds = Append(@, Step(from, t))]
      ELSE it.visited

\* BFSEnum: the paths of the state that was just reached.
EnumerateTurn ==
  /\ plan.kind = "all_enum"
  /\ ~it.first
  /\ it.saved # Null
  /\ LET n == PathNext(it.visited, it.saved)
     IN  /\ it' = [it EXCEPT !.visited = n.visited, !.saved = IF n.ok THEN @ ELSE Null]
         /\ rows' = IF n.ok THEN Append(rows, Row(it.saved[2], PathTo(n.visited, it.saved))) ELSE rows
  /\ UNCHANGED <<vars, graph, plan, outer, resets>>

AllTurn ==
  /\ Turning({"all_enum"})
  /\ it.saved = Null
  /\ LET ps == Pending
         p  == Head(ps)
         k  == KeyOf(p)
         d  == it.visited[Head(it.open)].dist + 1
         new == IsNew(k)
         enumerates == k[1] = aut.final /\ (new \/ Again(k, d))
         V  == Extended(k, TransitionAt(p))
     IN  IF ps = << >> THEN PopFront
         ELSE it' = [it EXCEPT !.iter = IterAfter(ps, 1),
                               !.open = IF new THEN Pushed(@, k) ELSE @,
                               !.saved = IF enumerates THEN k ELSE Null,
                               !.visited = IF enumerates THEN StartEnumeration(V, k) ELSE V]
  /\ UNCHANGED <<vars, graph, plan, outer, rows, resets>>

\* iter and current_transition once the state has no record left: the range of
\* its last transition is at its end, and so is current_transition; nothing
\* changes if they were beyond its transitions already, or it has none.
Exhausted ==
  LET ts == aut.from[Head(it.open)[1]]
  IN  IF ts = << >> \/ it.iter.tr > Len(ts) THEN it.iter ELSE [tr |-> Len(ts) + 1, rest |-> << >>]

\* BFSCheck: a state is expanded by one record, and if it is the end in the
\* final state its next path is returned; the search is over when there is
\* none.
AllCheckTurn ==
  /\ Turning({"all_check"})
  /\ LET ps == Pending
         p  == Head(ps)
         k  == KeyOf(p)
         here == Head(it.open)
         more == ps # << >>
         expanded == IF ~more THEN [it EXCEPT !.iter = Exhausted]
                     ELSE [it EXCEPT !.iter = IterAfter(ps, 1),
                                     !.open = IF IsNew(k) THEN Pushed(@, k) ELSE @,
                                     !.visited = Extended(k, TransitionAt(p))]
         n == PathNext(expanded.visited, here)
     IN  IF here = <<aut.final, plan.end>>
         THEN /\ it' = [expanded EXCEPT !.visited = n.visited, !.open = IF n.ok THEN @ ELSE << >>]
              /\ rows' = IF n.ok THEN Append(rows, Row(here[2], PathTo(n.visited, here))) ELSE rows
         ELSE /\ it' = IF more THEN expanded ELSE [it EXCEPT !.open = Tail(@), !.iter = NoIter]
              /\ rows' = rows
  /\ UNCHANGED <<vars, graph, plan, outer, resets>>

-----------------------------------------------------------------------------
(* reset(), called by a join for its next binding.  BFSCheck of ALL keeps    *)
(* iter and current_transition: the search from the new start goes on in the *)
(* middle of the records of an old state.                                    *)

Done ==
  /\ plan.kind # "none"
  /\ ~it.first
  /\ it.open = << >>
  /\ it.saved = Null
  /\ plan.kind = "unfixed" => outer.tr > Len(aut.from[aut.start])

Reset(s, e) ==
  /\ Done
  /\ plan.kind # "unfixed"
  /\ resets < MaxResets
  /\ resets' = resets + 1
  /\ plan' = [plan EXCEPT !.start = s, !.end = e]
  /\ it' = [Search(s) EXCEPT !.saved = it.saved,
                             !.iter = IF plan.kind = "all_check" THEN it.iter ELSE NoIter]
  /\ rows' = << >>
  /\ UNCHANGED <<vars, graph, outer>>

ResetUnfixed ==
  /\ Done
  /\ plan.kind = "unfixed"
  /\ resets < MaxResets
  /\ resets' = resets + 1
  /\ LET o == UnfixedAt(outer.visited)
     IN  /\ outer' = o
         /\ plan' = [plan EXCEPT !.start = o.record]
         /\ it' = IF o.begun THEN Search(o.record) ELSE NoSearch
  /\ rows' = << >>
  /\ UNCHANGED <<vars, graph>>

-----------------------------------------------------------------------------
PathInit ==
  /\ Init
  /\ graph \in Graphs
  /\ plan = [kind |-> "none", start |-> Absent, end |-> Absent]
  /\ it = [open |-> << >>, visited |-> << >>, first |-> FALSE, iter |-> NoIter, saved |-> Null]
  /\ outer = [tr |-> 0, rest |-> << >>, record |-> Absent, begun |-> FALSE, visited |-> {}, crashed |-> FALSE]
  /\ rows = << >>
  /\ resets = 0

Starts == Nodes \cup {Absent}
Ends(kind) == IF kind \in Checks THEN Nodes ELSE {Absent}

Searching ==
  \/ FirstTurn
  \/ AnyTurn
  \/ AnyCheckTurn
  \/ UnfixedTurn
  \/ EnumerateTurn
  \/ AllTurn
  \/ AllCheckTurn

PathNextStep ==
  \/ Next /\ UNCHANGED searchVars
  \/ \E kind \in Kinds, s \in Starts : \E e \in Ends(kind) : Begin(kind, s, e)
  \/ BeginUnfixed
  \/ Searching
  \/ \E s \in Starts : \E e \in Ends(plan.kind) : Reset(s, e)
  \/ ResetUnfixed

\* A query calls next() until it returns false: weak fairness of Searching,
\* which is enabled while the search is not over.
Busy     == plan.kind # "none" /\ ~Done /\ ~outer.crashed
Fairness == []<>(~Busy) \/ []<><<Searching>>_pathVars
PathSpec == PathInit /\ [][PathNextStep]_pathVars /\ Fairness

-----------------------------------------------------------------------------
(* The reference: the length of the shortest walk between two nodes along   *)
(* the path as it is written, and those walks.                              *)

\* A walk of w.len steps joins w.from and w.to: only the shortest of them.
Walk(x, y, n) == [from |-> x, to |-> y, len |-> n]
Shortest(W)  == { w \in W : \A v \in W : v.from = w.from /\ v.to = w.to => w.len <= v.len }
Stay         == { Walk(x, x, 0) : x \in Nodes }
Then(V, W)   == Shortest({ Walk(p[1].from, p[2].to, p[1].len + p[2].len) :
                             p \in { q \in V \X W : q[1].to = q[2].from } })
Turned(W)    == { Walk(w.to, w.from, w.len) : w \in W }

\* The shortest of from i to j repetitions; more than one for each node are
\* never shorter.
RECURSIVE Repeated(_, _, _)
Repeated(W, i, j) ==
  IF j = 0 THEN Stay
  ELSE IF i > 0 THEN Then(W, Repeated(W, i - 1, j - 1))
  ELSE Shortest(Stay \cup Then(W, Repeated(W, 0, j - 1)))

SuffixLengths(W, suffix) ==
  CASE suffix.op = ""  -> W
    [] suffix.op = "*" -> Repeated(W, 0, Cardinality(Nodes))
    [] suffix.op = "+" -> Repeated(W, 1, Cardinality(Nodes) + 1)
    [] suffix.op = "?" -> Repeated(W, 0, 1)
    [] OTHER           -> Repeated(W, suffix.min, suffix.max)

RECURSIVE Lengths(_)
Lengths(w) ==
  CASE w.op = "atom"  ->
         LET edges == { Walk(e.from, e.to, 1) : e \in { f \in graph : f.type = w.type } }
         IN  SuffixLengths(IF w.inv THEN Turned(edges) ELSE edges, w.suffix)
    [] w.op = "group" ->
         LET body == Lengths(w.body)
         IN  SuffixLengths(IF w.inv THEN Turned(body) ELSE body, w.suffix)
    [] w.op = "seq"   -> FoldLeft(LAMBDA W, item : Then(W, Lengths(item)), Stay, w.items)
    [] w.op = "alt"   -> Shortest(UNION { Lengths(item) : item \in ToSet(w.items) })

\* From the start of the search, which is the end of the path if it was
\* inverted.
SearchLengths == IF stage.backwards THEN Turned(Lengths(written)) ELSE Lengths(written)

\* Every walk of n steps from x, as the search would give its path.
RECURSIVE Walks(_, _)
Walks(x, n) ==
  IF n = 0 THEN {<< >>}
  ELSE UNION { LET t == [type |-> type, inv |-> inv]
               IN  { <<[type |-> type, inv |-> inv, node |-> y]>> \o walk :
                       <<y, walk>> \in UNION { {y} \X Walks(y, n - 1) : y \in ToSet(Neighbours(x, t)) } }
             : type \in Types, inv \in BOOLEAN }

WordOf(path) == [i \in DOMAIN path |-> [type |-> path[i].type, inv |-> path[i].inv]]
EndOf(x, path) == IF path = << >> THEN x ELSE path[Len(path)].node

\* For lengths D and words W.
ShortestWalks(D, W, x, y) ==
  UNION { { p \in Walks(x, d.len) : EndOf(x, p) = y /\ WordOf(p) \in W } :
            d \in { e \in D : e.from = x /\ e.to = y } }

-----------------------------------------------------------------------------
(* Properties.  BFSCheck of ALL is checked in its first search: its reset()  *)
(* keeps iter, so a later search may begin in the middle of a record list.  *)

Targets == IF plan.kind \in Checks THEN {plan.end} ELSE Nodes
Found(x, y) == { i \in DOMAIN rows : rows[i].start = x /\ rows[i].end = y }
Reaches(D, x, y) == \E d \in D : d.from = x /\ d.to = y

Finished(kinds) ==
  /\ plan.kind \in kinds
  /\ Done
  /\ plan.kind = "all_check" => resets = 0
  /\ Flat(written)

\* The automaton, after each transformation: it accepts every word of the path
\* and, when it is flat, no other; at the end it has no epsilon transition and
\* no state that leads nowhere (transform_automaton).
AutomatonExact == plan.kind = "none" => NothingMissed /\ NothingExtraWhenFlat /\ Trimmed

\* No state is taken to be further from the final one than it is.
DistancesAdmissible == plan.kind = "none" => DistanceIsAdmissible

\* ANY: when next() returns false there was one row for every end that a walk
\* along the path reaches, and for no other (BFSIterEnum2: at least one row, see
\* NodeReturnedOnce); with neither end bound it is a row for every pair that a
\* walk joins, in the first pass and where the path leaves its start forwards.
AnyExact ==
  LET D == SearchLengths
      Rows(x, y) == Cardinality(Found(x, y))
      Once(x, y) == Rows(x, y) = IF Reaches(D, x, y) THEN 1 ELSE 0
  IN  /\ Finished({"any_enum", "any_check"}) => \A y \in Targets : Once(plan.start, y)
      /\ Finished({"any_enum2"}) =>
           \A y \in Nodes : Found(plan.start, y) # {} <=> Reaches(D, plan.start, y)
      /\ Finished({"unfixed"}) /\ resets = 0 /\ (\A t \in ToSet(aut.from[aut.start]) : ~t.inv) =>
           \A x \in Nodes, y \in Nodes : Once(x, y)

\* What doc/property_path.md says of a path with one end bound: "a node never
\* will be returned more than one time", as it is in visited before it goes to
\* open.
NodeReturnedOnce ==
  plan.kind \in {"any_enum", "any_enum2", "any_check"} =>
    \A y \in Nodes : Cardinality(Found(plan.start, y)) <= 1

\* The path of a row is a shortest walk of the graph along the path that the
\* query writes, whichever iterator found it (BFSIterEnum2 returns none).
PathsAreShortest ==
  Finished(Kinds \ {"any_enum2"}) =>
    LET D == SearchLengths
        W == Expected
    IN  \A i \in DOMAIN rows : rows[i].path \in ShortestWalks(D, W, rows[i].start, rows[i].end)

\* No two edges join the same nodes, and no state has two transitions for one
\* letter: a walk is found in one way.
OneWay ==
  /\ \A e, f \in graph : {e.from, e.to} = {f.from, f.to} => e = f
  /\ \A s \in Slots(aut) : \A t, u \in ToSet(aut.from[s]) : t.type = u.type /\ t.inv = u.inv => t = u

\* ALL: when next() returns false every shortest walk was a row, and where it
\* can be found in one way only, one row (BFSEnum, BFSCheck, PathIter).
AllExact ==
  Finished({"all_enum", "all_check"}) =>
    LET D == SearchLengths
        W == Expected
    IN  /\ \A y \in Targets :
             { rows[i].path : i \in Found(plan.start, y) } = ShortestWalks(D, W, plan.start, y)
        /\ OneWay => \A i, j \in DOMAIN rows : rows[i].path = rows[j].path => i = j

\* Every search ends, although graphs and automata have cycles: next() returns
\* false after finitely many turns (or UnfixedComposite has dereferenced the
\* inner iterator it never made).
SearchEnds == Busy ~> ~Busy

\* Each search state is expanded once: a state that leaves open does not come
\* back, whatever cycles the graph and the automaton have.
ExpandedOnce ==
  [][ /\ plan.kind # "none"
      /\ resets' = resets
      /\ plan'.start = plan.start
      => /\ \A k \in ToSet(it'.open) : k \in ToSet(it.open) \/ k \notin DOMAIN it.visited
         /\ IsInjective(it'.open) ]_pathVars
=============================================================================

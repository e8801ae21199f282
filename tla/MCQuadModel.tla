---------------------------- MODULE MCQuadModel -----------------------------
(* Instances of the quad model for TLC.                                      *)
EXTENDS QuadModel

CONSTANTS a, b, c, anon, lab, prop, v1, v2

Line(x, y, t, right) == [id1 |-> x, id2 |-> y, type |-> t, direction |-> right]

\* Nothing; a graph with an edge in each direction, of which one has its own
\* source as its type, one is a loop that is its own type and one starts at an
\* edge; an edge has a property, a wrong line left a property of c, an
\* anonymous node is the end of an edge, and a label is there twice.
EmptyOrGraph ==
  { [nodes |-> << >>, labels |-> << >>, properties |-> << >>, edges |-> << >>,
     anonymous |-> 0],
    [nodes |-> <<a, a>>, labels |-> <<<<a, lab>>, <<a, lab>>>>,
     properties |-> <<<<a, prop, v1>>, <<1, prop, v1>>, <<c, prop, v2>>>>,
     edges |-> <<Line(a, b, a, TRUE), Line(a, b, a, FALSE), Line(b, b, b, TRUE),
                 Line(2, anon, b, TRUE)>>,
     anonymous |-> 7] }

Stmt(l, p, e) == [labels |-> l, properties |-> p, edges |-> e]

\* A statement adds labels, properties or edges: one, several, or some of which
\* the second is refused and what follows it is skipped.
Mixed ==
  { Stmt(<<<<a, lab>>>>, << >>, << >>),
    Stmt(<<<<b, lab>>, <<b, lab>>, <<c, lab>>>>, << >>, << >>),
    Stmt(<< >>, <<<<a, prop, v1>>, <<anon, prop, v1>>>>, << >>),
    Stmt(<< >>, <<<<b, prop, v1>>, <<b, prop, v2>>, <<2, prop, v2>>>>, << >>),
    Stmt(<< >>, << >>, <<<<b, b, b>>>>),
    Stmt(<< >>, << >>, <<<<a, b, b>>, <<a, a, c>>>>),
    Stmt(<< >>, << >>, <<<<c, anon, c>>, <<1, c, c>>>>) }
=============================================================================

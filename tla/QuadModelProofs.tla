-------------------------- MODULE QuadModelProofs ---------------------------
(***************************************************************************)
(* The indexes of the quad model tell one graph, edge ids are new, and the *)
(* ends of edges and what an INSERT adds to are nodes: for any file that   *)
(* is imported, any INSERTs and any number of restarts.                    *)
(***************************************************************************)
EXTENDS QuadModel, FiniteSetTheorems, TLAPS

Triples == Ids \X Ids \X Ids
Quads   == Ids \X Ids \X Ids \X Nat
Equals  == Ids \X Ids \X Nat
Loops   == Ids \X Nat

QuadTrees  == {"from_to_type_edge", "to_type_from_edge", "type_from_to_edge",
               "type_to_from_edge"}
EqualTrees == {"equal_from_to", "equal_from_to_inverted", "equal_from_type",
               "equal_from_type_inverted", "equal_to_type", "equal_to_type_inverted"}

\* The fields of the catalog.
Fields == {"identifiable_nodes_count", "anonymous_nodes_count", "connections_count",
           "label_count", "properties_count", "distinct_labels", "distinct_keys",
           "distinct_from", "distinct_to", "distinct_type", "equal_from_to_count",
           "equal_from_type_count", "equal_to_type_count", "equal_from_to_type_count"} \cup Maps

-----------------------------------------------------------------------------
(* The parts of the invariant.                                              *)

Shapes ==
  /\ imported \in Imports
  /\ DOMAIN trees = Trees /\ DOMAIN catalog = Fields /\ catalog.connections_count \in Nat
  /\ edge_table \in Seq(Triples)
  /\ todo \in Inserts
  /\ sent \in 0 .. MaxStatements /\ restarts \in 0 .. MaxRestarts /\ open \in BOOLEAN

Typed ==
  /\ trees["nodes"] \subseteq {<<o>> : o \in Ids}
  /\ trees["node_label"] \subseteq Objects \X Labels
  /\ trees["object_key_value"] \subseteq Ids \X Keys \X Values
  /\ trees["from_to_type_edge"] \subseteq Quads

\* What is closed is saved, and no INSERT runs.
Closed == ~open => todo = Done /\ catalog_file = catalog

\* The ids of the edges in every tree were given by connections_count.
Given ==
  LET Used == 0 .. catalog.connections_count
  IN  /\ \A t \in QuadTrees : \A r \in trees[t] : r[4] \in Used
      /\ \A t \in EqualTrees : \A r \in trees[t] : r[3] \in Used
      /\ \A r \in trees["equal_from_to_type"] : r[2] \in Used

\* No two edges have one id.
Distinct == \A r, s \in trees["from_to_type_edge"] : r[4] = s[4] => r = s

\* Labels and properties are the same in both orders.
Pairs ==
  /\ trees["label_node"] = {<<r[2], r[1]>> : r \in trees["node_label"]}
  /\ trees["key_value_object"] = {<<r[2], r[3], r[1]>> : r \in trees["object_key_value"]}

\* What is part of an edge, or was labelled or given a property by an INSERT, is
\* a node.
Known ==
  /\ \A r \in trees["node_label"] : r \in Lines(imported.labels) \/ <<r[1]>> \in trees["nodes"]
  /\ \A r \in trees["object_key_value"] :
       r \in Lines(imported.properties) \/ <<r[1]>> \in trees["nodes"]
  /\ \A r \in trees["from_to_type_edge"] :
       <<r[1]>> \in trees["nodes"] /\ <<r[2]>> \in trees["nodes"] /\ <<r[3]>> \in trees["nodes"]

\* The four orders of the edges.
Orders ==
  /\ trees["to_type_from_edge"] = {<<e.to, e.type, e.from, e.id>> : e \in Edges}
  /\ trees["type_from_to_edge"] = {<<e.type, e.from, e.to, e.id>> : e \in Edges}
  /\ trees["type_to_from_edge"] = {<<e.type, e.to, e.from, e.id>> : e \in Edges}

\* The loops, and the trees that have a record the other way round.
Coincide ==
  /\ trees["equal_from_to"] = {<<e.to, e.type, e.id>> : e \in {x \in Edges : x.from = x.to}}
  /\ trees["equal_from_to_type"] =
       {<<e.type, e.id>> : e \in {x \in Edges : x.from = x.to /\ x.to = x.type}}
  /\ trees["equal_from_to_inverted"] = Swapped(trees["equal_from_to"])
  /\ trees["equal_from_type_inverted"] = Swapped(trees["equal_from_type"])
  /\ trees["equal_to_type_inverted"] = Swapped(trees["equal_to_type"])

\* A tree has finitely many records; a key of a map of counts occurs.
Finite == \A t \in Trees : IsFiniteSet(trees[t])
Positive == \A m \in Maps : \A k \in DOMAIN catalog[m] : catalog[m][k] \in Nat \ {0}

QuadInv ==
  /\ Shapes /\ Typed /\ Closed /\ Given /\ Distinct /\ Pairs /\ Known
  /\ Orders /\ Coincide /\ Finite /\ Positive

\* The edges one of whose ends is the type.  This is not part of QuadInv: the
\* import does not write these records in the order in which they are read.
Directed ==
  /\ trees["equal_from_type"] = {<<e.type, e.to, e.id>> : e \in {x \in Edges : x.from = x.type}}
  /\ trees["equal_to_type"] = {<<e.type, e.from, e.id>> : e \in {x \in Edges : x.to = x.type}}

-----------------------------------------------------------------------------
(* What a round of exec_inserts does to the trees.                          *)

\* The list of inserts has the record r for the tree t.
Has(recs, t, r) == \E i \in DOMAIN recs : recs[i].tree = t /\ recs[i].record = r

\* All of the trees other than those of the nodes.
LEMMA AddNodesOnly ==
  ASSUME Shapes, NEW objects
  PROVE  LET ts == AddNodes(trees, objects)
         IN  /\ DOMAIN ts = Trees
             /\ ts["nodes"] = trees["nodes"] \cup {<<o>> : o \in objects}
             /\ \A t \in Trees \ {"nodes"} : ts[t] = trees[t]
BY DEF Shapes, AddNodes, Trees

\* Nothing is refused: every record is inserted.
LEMMA InsertsAll ==
  ASSUME NEW ts, NEW recs, Refused(ts, recs) = {}, NEW t \in Trees
  PROVE  \A r : r \in InsertAll(ts, recs)[t] <=> r \in ts[t] \/ Has(recs, t, r)
<1> DEFINE done == {i \in DOMAIN recs : \A j \in Refused(ts, recs) : i < j}
<1>1. done = DOMAIN recs
  OBVIOUS
<1>2. InsertAll(ts, recs)[t] = ts[t] \cup {recs[i].record : i \in {j \in done : recs[j].tree = t}}
  BY DEF InsertAll
<1> QED
  BY <1>1, <1>2 DEF Has

\* The first record is refused: none is inserted.
LEMMA InsertsNone ==
  ASSUME NEW ts, NEW recs, DOMAIN recs \subseteq Nat \ {0}, 1 \in Refused(ts, recs),
         NEW t \in Trees
  PROVE  InsertAll(ts, recs)[t] = ts[t]
<1>1. {i \in DOMAIN recs : \A j \in Refused(ts, recs) : i < j} = {}
  OBVIOUS
<1> QED
  BY <1>1 DEF InsertAll

\* The records of two lists, one after the other.
LEMMA HasBoth ==
  ASSUME NEW S, NEW u \in Seq(S), NEW v \in Seq(S), NEW t, NEW r
  PROVE  Has(u \o v, t, r) <=> Has(u, t, r) \/ Has(v, t, r)
<1>1. /\ DOMAIN (u \o v) = 1 .. Len(u) + Len(v) /\ Len(u) \in Nat /\ Len(v) \in Nat
      /\ DOMAIN u = 1 .. Len(u) /\ DOMAIN v = 1 .. Len(v)
      /\ \A i \in 1 .. Len(u) : (u \o v)[i] = u[i]
      /\ \A i \in 1 .. Len(v) : (u \o v)[Len(u) + i] = v[i]
  OBVIOUS
<1>2. ASSUME Has(u \o v, t, r) PROVE Has(u, t, r) \/ Has(v, t, r)
  <2>1. PICK i \in 1 .. Len(u) + Len(v) : (u \o v)[i].tree = t /\ (u \o v)[i].record = r
    BY <1>1, <1>2 DEF Has
  <2>2. CASE i <= Len(u)
    <3>1. i \in 1 .. Len(u)
      BY <1>1, <2>2
    <3> QED
      BY <1>1, <2>1, <3>1 DEF Has
  <2>3. CASE i > Len(u)
    <3>1. i - Len(u) \in 1 .. Len(v) /\ i = Len(u) + (i - Len(u))
      BY <1>1, <2>3
    <3>2. (u \o v)[i] = v[i - Len(u)]
      BY <1>1, <3>1
    <3> QED
      BY <1>1, <2>1, <3>1, <3>2 DEF Has
  <2> QED
    BY <1>1, <2>2, <2>3
<1>3. ASSUME Has(u, t, r) PROVE Has(u \o v, t, r)
  BY <1>1, <1>3 DEF Has
<1>4. ASSUME Has(v, t, r) PROVE Has(u \o v, t, r)
  <2>1. PICK i \in 1 .. Len(v) : v[i].tree = t /\ v[i].record = r
    BY <1>1, <1>4 DEF Has
  <2>2. (u \o v)[Len(u) + i] = v[i] /\ Len(u) + i \in 1 .. Len(u) + Len(v)
    BY <1>1
  <2> QED
    BY <1>1, <2>1, <2>2 DEF Has
<1> QED
  BY <1>2, <1>3, <1>4

\* A label or a property: two records of two trees, of which both or none are there.
AddsTwo(objects, t1, r1, t2, r2, rest, counted) ==
  /\ t1 \in Trees \ {"nodes"} /\ t2 \in Trees \ {"nodes"} /\ t1 # t2
  /\ r1 \in trees[t1] <=> r2 \in trees[t2]
  /\ Round(objects, <<Rec(t1, r1), Rec(t2, r2)>>, rest, counted)

\* Both are there in the end, and counted when they are new.
TwoAdded(objects, t1, r1, t2, r2, rest, counted) ==
  /\ DOMAIN trees' = Trees
  /\ trees'["nodes"] = trees["nodes"] \cup {<<o>> : o \in objects}
  /\ \A t \in Trees \ {"nodes", t1, t2} : trees'[t] = trees[t]
  /\ trees'[t1] = trees[t1] \cup {r1} /\ trees'[t2] = trees[t2] \cup {r2}
  /\ r1 \notin trees[t1] => catalog' = counted /\ todo' = rest
  /\ r1 \in trees[t1] => catalog' = CountNodes(catalog, trees, objects) /\ todo' = Done

LEMMA RoundOfTwo ==
  ASSUME Shapes, NEW objects, NEW rest, NEW counted, NEW t1, NEW t2, NEW r1, NEW r2,
         AddsTwo(objects, t1, r1, t2, r2, rest, counted)
  PROVE  TwoAdded(objects, t1, r1, t2, r2, rest, counted)
<1> USE DEF AddsTwo, TwoAdded
<1> DEFINE recs == <<Rec(t1, r1), Rec(t2, r2)>>
           ts == AddNodes(trees, objects)
<1>1. /\ DOMAIN recs = {1, 2} /\ recs[1].tree = t1 /\ recs[1].record = r1
      /\ recs[2].tree = t2 /\ recs[2].record = r2
  BY DEF Rec
<1>2. /\ ts["nodes"] = trees["nodes"] \cup {<<o>> : o \in objects}
      /\ \A t \in Trees \ {"nodes"} : ts[t] = trees[t]
  BY AddNodesOnly
<1>3. /\ trees' = InsertAll(ts, recs)
      /\ Refused(trees, recs) = {} => catalog' = counted /\ todo' = rest
      /\ Refused(trees, recs) # {} =>
           catalog' = CountNodes(catalog, trees, objects) /\ todo' = Done
  BY DEF Round
<1>4. DOMAIN trees' = Trees
  BY <1>3 DEF InsertAll
<1>5. "nodes" \in Trees
  BY DEF Trees
<1> HIDE DEF recs, ts
<1>6. CASE r1 \in trees[t1]
  <2>1. 1 \in Refused(ts, recs) /\ Refused(trees, recs) # {}
    BY <1>1, <1>2, <1>6 DEF Refused
  <2>2. \A t \in Trees : trees'[t] = ts[t]
    BY <1>1, <1>3, <2>1, InsertsNone
  <2> QED
    BY <1>2, <1>3, <1>4, <1>5, <1>6, <2>1, <2>2
<1>7. CASE r1 \notin trees[t1]
  <2>1. Refused(ts, recs) = {} /\ Refused(trees, recs) = {}
    BY <1>1, <1>2, <1>7 DEF Refused
  <2>2. \A t \in Trees : \A r : r \in trees'[t] <=> r \in ts[t] \/ Has(recs, t, r)
    BY <1>3, <2>1, InsertsAll
  <2>3. \A t, r : Has(recs, t, r) <=> (t = t1 /\ r = r1) \/ (t = t2 /\ r = r2)
    BY <1>1 DEF Has
  <2>4. trees'["nodes"] = ts["nodes"]
    BY <1>5, <2>2, <2>3
  <2>5. \A t \in Trees \ {"nodes", t1, t2} : trees'[t] = ts[t]
    BY <2>2, <2>3
  <2>6. trees'[t1] = ts[t1] \cup {r1} /\ trees'[t2] = ts[t2] \cup {r2}
    BY <2>2, <2>3
  <2> QED
    BY <1>2, <1>3, <1>4, <1>7, <2>1, <2>4, <2>5, <2>6
<1> QED
  BY <1>6, <1>7

EdgeRec == [from : Ids, to : Ids, type : Ids, id : Nat]

\* r, if the condition holds.
When(c, r) == IF c THEN {r} ELSE {}

\* The records of an edge and the trees that they are for.
LEMMA EdgeHas ==
  ASSUME NEW e \in EdgeRec, NEW t, NEW r
  PROVE  Has(EdgeRecords(e) \o EqualRecords(e), t, r) <=>
           \/ t = "type_from_to_edge" /\ r = TypeFromToEdge(e)
           \/ t = "type_to_from_edge" /\ r = TypeToFromEdge(e)
           \/ t = "from_to_type_edge" /\ r = FromToTypeEdge(e)
           \/ t = "to_type_from_edge" /\ r = ToTypeFromEdge(e)
           \/ e.from = e.to /\ t = "equal_from_to" /\ r = <<e.from, e.type, e.id>>
           \/ e.from = e.to /\ t = "equal_from_to_inverted" /\ r = <<e.type, e.from, e.id>>
           \/ e.from = e.to /\ e.from = e.type /\ t = "equal_from_to_type" /\ r = <<e.from, e.id>>
           \/ e.from = e.type /\ t = "equal_from_type" /\ r = <<e.from, e.to, e.id>>
           \/ e.from = e.type /\ t = "equal_from_type_inverted" /\ r = <<e.to, e.from, e.id>>
           \/ e.type = e.to /\ t = "equal_to_type" /\ r = <<e.to, e.from, e.id>>
           \/ e.type = e.to /\ t = "equal_to_type_inverted" /\ r = <<e.from, e.to, e.id>>
<1> DEFINE S == [tree : Trees, record : Quads \cup Equals \cup Loops]
           s1 == IF e.from # e.to THEN << >>
                 ELSE <<Rec("equal_from_to", <<e.from, e.type, e.id>>),
                        Rec("equal_from_to_inverted", <<e.type, e.from, e.id>>)>>
           s2 == IF e.from # e.to \/ e.from # e.type THEN << >>
                 ELSE <<Rec("equal_from_to_type", <<e.from, e.id>>)>>
           s3 == IF e.from # e.type THEN << >>
                 ELSE <<Rec("equal_from_type", <<e.from, e.to, e.id>>),
                        Rec("equal_from_type_inverted", <<e.to, e.from, e.id>>)>>
           s4 == IF ~ ToIsType(e) THEN << >>
                 ELSE <<Rec("equal_to_type", <<e.to, e.from, e.id>>),
                        Rec("equal_to_type_inverted", <<e.from, e.to, e.id>>)>>
           s0 == EdgeRecords(e)
<1>0. e.from \in Ids /\ e.to \in Ids /\ e.type \in Ids /\ e.id \in Nat
  BY DEF EdgeRec
<1>1. \A tt \in Trees, rr \in Quads \cup Equals \cup Loops : Rec(tt, rr) \in S
  BY DEF Rec
<1>2. ASSUME NEW x, NEW tx, NEW rx, x = Rec(tx, rx)
      PROVE  x.tree = tx /\ x.record = rx
  BY <1>2 DEF Rec
<1>3. ASSUME NEW x PROVE Has(<<x>>, t, r) <=> x.tree = t /\ x.record = r
  BY DEF Has
<1>4. ASSUME NEW x, NEW y
      PROVE  Has(<<x, y>>, t, r) <=> \/ x.tree = t /\ x.record = r
                                     \/ y.tree = t /\ y.record = r
  <2>1. DOMAIN <<x, y>> = {1, 2}
    OBVIOUS
  <2> QED
    BY <2>1 DEF Has
<1>5. ~Has(<< >>, t, r)
  BY DEF Has
<1> HIDE DEF S
<1>6. s1 \in Seq(S) /\ s2 \in Seq(S) /\ s3 \in Seq(S) /\ s4 \in Seq(S)
  <2>1. /\ <<e.from, e.type, e.id>> \in Equals /\ <<e.type, e.from, e.id>> \in Equals
        /\ <<e.from, e.to, e.id>> \in Equals /\ <<e.to, e.from, e.id>> \in Equals
        /\ <<e.from, e.id>> \in Loops
    BY <1>0 DEF Equals, Loops
  <2>2. /\ Rec("equal_from_to", <<e.from, e.type, e.id>>) \in S
        /\ Rec("equal_from_to_inverted", <<e.type, e.from, e.id>>) \in S
        /\ Rec("equal_from_to_type", <<e.from, e.id>>) \in S
        /\ Rec("equal_from_type", <<e.from, e.to, e.id>>) \in S
        /\ Rec("equal_from_type_inverted", <<e.to, e.from, e.id>>) \in S
        /\ Rec("equal_to_type", <<e.to, e.from, e.id>>) \in S
        /\ Rec("equal_to_type_inverted", <<e.from, e.to, e.id>>) \in S
    BY <1>1, <2>1 DEF Trees
  <2> QED
    BY <2>2
<1>7. s0 \in Seq(S)
  <2>1. /\ TypeFromToEdge(e) \in Quads /\ TypeToFromEdge(e) \in Quads
        /\ FromToTypeEdge(e) \in Quads /\ ToTypeFromEdge(e) \in Quads
    BY <1>0 DEF TypeFromToEdge, TypeToFromEdge, FromToTypeEdge, ToTypeFromEdge, Quads
  <2>2. /\ Rec("type_from_to_edge", TypeFromToEdge(e)) \in S
        /\ Rec("type_to_from_edge", TypeToFromEdge(e)) \in S
        /\ Rec("from_to_type_edge", FromToTypeEdge(e)) \in S
        /\ Rec("to_type_from_edge", ToTypeFromEdge(e)) \in S
    BY <1>1, <2>1 DEF Trees
  <2> QED
    BY <2>2 DEF EdgeRecords
<1>8. Has(s0, t, r) <=> \/ t = "type_from_to_edge" /\ r = TypeFromToEdge(e)
                        \/ t = "type_to_from_edge" /\ r = TypeToFromEdge(e)
                        \/ t = "from_to_type_edge" /\ r = FromToTypeEdge(e)
                        \/ t = "to_type_from_edge" /\ r = ToTypeFromEdge(e)
  <2>1. ASSUME NEW w, NEW x, NEW y, NEW z
        PROVE  Has(<<w, x, y, z>>, t, r) <=> \/ w.tree = t /\ w.record = r
                                             \/ x.tree = t /\ x.record = r
                                             \/ y.tree = t /\ y.record = r
                                             \/ z.tree = t /\ z.record = r
    <3>1. DOMAIN <<w, x, y, z>> = {1, 2, 3, 4}
      OBVIOUS
    <3> QED
      BY <3>1 DEF Has
  <2> QED
    BY <1>2, <2>1 DEF EdgeRecords
<1>9. Has(s1, t, r) <=> e.from = e.to /\
        \/ t = "equal_from_to" /\ r = <<e.from, e.type, e.id>>
        \/ t = "equal_from_to_inverted" /\ r = <<e.type, e.from, e.id>>
  BY <1>2, <1>4, <1>5
<1>10. Has(s2, t, r) <=> /\ e.from = e.to /\ e.from = e.type
                         /\ t = "equal_from_to_type" /\ r = <<e.from, e.id>>
  BY <1>2, <1>3, <1>5
<1>11. Has(s3, t, r) <=> e.from = e.type /\
         \/ t = "equal_from_type" /\ r = <<e.from, e.to, e.id>>
         \/ t = "equal_from_type_inverted" /\ r = <<e.to, e.from, e.id>>
  BY <1>2, <1>4, <1>5
<1>12. Has(s4, t, r) <=> e.type = e.to /\
         \/ t = "equal_to_type" /\ r = <<e.to, e.from, e.id>>
         \/ t = "equal_to_type_inverted" /\ r = <<e.from, e.to, e.id>>
  BY <1>2, <1>4, <1>5 DEF ToIsType
<1>13. EqualRecords(e) = s1 \o s2 \o s3 \o s4
  BY DEF EqualRecords
<1> HIDE DEF s0, s1, s2, s3, s4
<1>14. /\ s1 \o s2 \in Seq(S) /\ s1 \o s2 \o s3 \in Seq(S) /\ s1 \o s2 \o s3 \o s4 \in Seq(S)
  BY <1>6
<1>15. Has(s0 \o EqualRecords(e), t, r) <=>
         Has(s0, t, r) \/ Has(s1, t, r) \/ Has(s2, t, r) \/ Has(s3, t, r) \/ Has(s4, t, r)
  <2>1. ASSUME NEW u \in Seq(S), NEW v \in Seq(S)
        PROVE  Has(u \o v, t, r) <=> Has(u, t, r) \/ Has(v, t, r)
    BY HasBoth
  <2>2. Has(s1 \o s2, t, r) <=> Has(s1, t, r) \/ Has(s2, t, r)
    BY <1>6, <2>1, Zenon
  <2>3. Has(s1 \o s2 \o s3, t, r) <=> Has(s1 \o s2, t, r) \/ Has(s3, t, r)
    BY <1>6, <1>14, <2>1, Zenon
  <2>4. Has(s1 \o s2 \o s3 \o s4, t, r) <=> Has(s1 \o s2 \o s3, t, r) \/ Has(s4, t, r)
    BY <1>6, <1>14, <2>1, Zenon
  <2>5. Has(s0 \o EqualRecords(e), t, r) <=> Has(s0, t, r) \/ Has(EqualRecords(e), t, r)
    <3>1. EqualRecords(e) \in Seq(S)
      BY <1>13, <1>14, Zenon
    <3> QED
      BY <1>7, <3>1, <2>1, Zenon
  <2>6. Has(EqualRecords(e), t, r) <=> Has(s1 \o s2 \o s3 \o s4, t, r)
    BY <1>13, Zenon
  <2> QED
    BY <2>2, <2>3, <2>4, <2>5, <2>6, Zenon
<1> QED
  BY <1>8, <1>9, <1>10, <1>11, <1>12, <1>15 DEF s0

\* An edge: its id is new, so nothing is refused, and each tree gets the record
\* that it is to have.
LEMMA RoundOfEdge ==
  ASSUME Shapes, Given, NEW e \in EdgeRec, e.id = catalog.connections_count + 1,
         NEW rest, NEW counted,
         Round(EdgeNodes(e), EdgeRecords(e) \o EqualRecords(e), rest, counted)
  PROVE  /\ DOMAIN trees' = Trees
         /\ trees'["nodes"] = trees["nodes"] \cup {<<o>> : o \in EdgeNodes(e)}
         /\ \A t \in {"label_node", "node_label", "object_key_value", "key_value_object"} :
              trees'[t] = trees[t]
         /\ trees'["type_from_to_edge"] = trees["type_from_to_edge"] \cup {TypeFromToEdge(e)}
         /\ trees'["type_to_from_edge"] = trees["type_to_from_edge"] \cup {TypeToFromEdge(e)}
         /\ trees'["from_to_type_edge"] = trees["from_to_type_edge"] \cup {FromToTypeEdge(e)}
         /\ trees'["to_type_from_edge"] = trees["to_type_from_edge"] \cup {ToTypeFromEdge(e)}
         /\ trees'["equal_from_to"] =
              trees["equal_from_to"] \cup When(e.from = e.to, <<e.from, e.type, e.id>>)
         /\ trees'["equal_from_to_inverted"] =
              trees["equal_from_to_inverted"] \cup When(e.from = e.to, <<e.type, e.from, e.id>>)
         /\ trees'["equal_from_to_type"] =
              trees["equal_from_to_type"]
                \cup When(e.from = e.to /\ e.from = e.type, <<e.from, e.id>>)
         /\ trees'["equal_from_type"] =
              trees["equal_from_type"] \cup When(e.from = e.type, <<e.from, e.to, e.id>>)
         /\ trees'["equal_from_type_inverted"] =
              trees["equal_from_type_inverted"] \cup When(e.from = e.type, <<e.to, e.from, e.id>>)
         /\ trees'["equal_to_type"] =
              trees["equal_to_type"] \cup When(e.type = e.to, <<e.to, e.from, e.id>>)
         /\ trees'["equal_to_type_inverted"] =
              trees["equal_to_type_inverted"] \cup When(e.type = e.to, <<e.from, e.to, e.id>>)
         /\ catalog' = counted /\ todo' = rest
<1> DEFINE recs == EdgeRecords(e) \o EqualRecords(e)
           ts == AddNodes(trees, EdgeNodes(e))
<1>1. /\ ts["nodes"] = trees["nodes"] \cup {<<o>> : o \in EdgeNodes(e)}
      /\ \A t \in Trees \ {"nodes"} : ts[t] = trees[t]
  BY AddNodesOnly
<1>2. ASSUME NEW t, NEW r
      PROVE  Has(recs, t, r) <=>
           \/ t = "type_from_to_edge" /\ r = TypeFromToEdge(e)
           \/ t = "type_to_from_edge" /\ r = TypeToFromEdge(e)
           \/ t = "from_to_type_edge" /\ r = FromToTypeEdge(e)
           \/ t = "to_type_from_edge" /\ r = ToTypeFromEdge(e)
           \/ e.from = e.to /\ t = "equal_from_to" /\ r = <<e.from, e.type, e.id>>
           \/ e.from = e.to /\ t = "equal_from_to_inverted" /\ r = <<e.type, e.from, e.id>>
           \/ e.from = e.to /\ e.from = e.type /\ t = "equal_from_to_type" /\ r = <<e.from, e.id>>
           \/ e.from = e.type /\ t = "equal_from_type" /\ r = <<e.from, e.to, e.id>>
           \/ e.from = e.type /\ t = "equal_from_type_inverted" /\ r = <<e.to, e.from, e.id>>
           \/ e.type = e.to /\ t = "equal_to_type" /\ r = <<e.to, e.from, e.id>>
           \/ e.type = e.to /\ t = "equal_to_type_inverted" /\ r = <<e.from, e.to, e.id>>
  BY EdgeHas
<1>3. /\ trees' = InsertAll(ts, recs)
      /\ Refused(trees, recs) = {} => catalog' = counted /\ todo' = rest
  BY DEF Round
<1> HIDE DEF recs, ts
<1>4. e.id \in Nat /\ e.id \notin 0 .. catalog.connections_count
  BY DEF EdgeRec, Shapes
<1>5. ASSUME NEW t, NEW r, Has(recs, t, r)
      PROVE  t \in Trees \ {"nodes"} /\ r \notin trees[t]
  <2>1. /\ TypeFromToEdge(e)[4] = e.id /\ TypeToFromEdge(e)[4] = e.id
        /\ FromToTypeEdge(e)[4] = e.id /\ ToTypeFromEdge(e)[4] = e.id
    BY DEF TypeFromToEdge, TypeToFromEdge, FromToTypeEdge, ToTypeFromEdge
  <2>2. CASE t \in QuadTrees /\ r[4] = e.id
    BY <1>4, <2>2 DEF Given, QuadTrees, Trees
  <2>3. CASE t \in EqualTrees /\ r[3] = e.id
    BY <1>4, <2>3 DEF Given, EqualTrees, Trees
  <2>4. CASE t = "equal_from_to_type" /\ r[2] = e.id
    BY <1>4, <2>4 DEF Given, Trees
  <2>5. \/ t \in QuadTrees /\ r[4] = e.id
        \/ t \in EqualTrees /\ r[3] = e.id
        \/ t = "equal_from_to_type" /\ r[2] = e.id
    BY <1>2, <1>5, <2>1 DEF QuadTrees, EqualTrees
  <2> QED
    BY <2>2, <2>3, <2>4, <2>5
<1>6. Refused(ts, recs) = {} /\ Refused(trees, recs) = {}
  <2>1. ASSUME NEW i \in DOMAIN recs
        PROVE  /\ recs[i].record \notin trees[recs[i].tree]
               /\ recs[i].record \notin ts[recs[i].tree]
    <3>1. Has(recs, recs[i].tree, recs[i].record)
      BY DEF Has
    <3> QED
      BY <1>1, <1>5, <3>1
  <2> QED
    BY <2>1 DEF Refused
<1>7. ASSUME NEW t \in Trees
      PROVE  \A r : r \in trees'[t] <=> r \in ts[t] \/ Has(recs, t, r)
  BY <1>3, <1>6, InsertsAll
<1>8. ASSUME NEW t \in Trees, NEW c \in BOOLEAN, NEW x, \A r : Has(recs, t, r) <=> c /\ r = x
      PROVE  trees'[t] = ts[t] \cup When(c, x)
  BY <1>7, <1>8 DEF When
<1>9. DOMAIN trees' = Trees
  BY <1>3 DEF InsertAll
<1>10. ASSUME NEW t \in {"nodes", "label_node", "node_label", "object_key_value",
                         "key_value_object"}
       PROVE  t \in Trees /\ trees'[t] = ts[t]
  <2>1. t \in Trees
    BY DEF Trees
  <2>2. \A r : ~Has(recs, t, r)
    BY <1>2
  <2> QED
    BY <1>7, <2>1, <2>2
<1>11. /\ trees'["type_from_to_edge"] = ts["type_from_to_edge"] \cup {TypeFromToEdge(e)}
       /\ trees'["type_to_from_edge"] = ts["type_to_from_edge"] \cup {TypeToFromEdge(e)}
       /\ trees'["from_to_type_edge"] = ts["from_to_type_edge"] \cup {FromToTypeEdge(e)}
       /\ trees'["to_type_from_edge"] = ts["to_type_from_edge"] \cup {ToTypeFromEdge(e)}
  <2>1. ASSUME NEW t \in Trees, NEW x, \A r : Has(recs, t, r) <=> r = x
        PROVE  trees'[t] = ts[t] \cup {x}
    BY <1>7, <2>1
  <2>2. /\ \A r : Has(recs, "type_from_to_edge", r) <=> r = TypeFromToEdge(e)
        /\ \A r : Has(recs, "type_to_from_edge", r) <=> r = TypeToFromEdge(e)
        /\ \A r : Has(recs, "from_to_type_edge", r) <=> r = FromToTypeEdge(e)
        /\ \A r : Has(recs, "to_type_from_edge", r) <=> r = ToTypeFromEdge(e)
    BY <1>2
  <2> QED
    BY <2>1, <2>2 DEF Trees
<1>12. /\ trees'["equal_from_to"] =
            ts["equal_from_to"] \cup When(e.from = e.to, <<e.from, e.type, e.id>>)
       /\ trees'["equal_from_to_inverted"] =
            ts["equal_from_to_inverted"] \cup When(e.from = e.to, <<e.type, e.from, e.id>>)
       /\ trees'["equal_from_to_type"] =
            ts["equal_from_to_type"] \cup When(e.from = e.to /\ e.from = e.type, <<e.from, e.id>>)
  <2>1. /\ \A r : Has(recs, "equal_from_to", r) <=>
                    e.from = e.to /\ r = <<e.from, e.type, e.id>>
        /\ \A r : Has(recs, "equal_from_to_inverted", r) <=>
                    e.from = e.to /\ r = <<e.type, e.from, e.id>>
        /\ \A r : Has(recs, "equal_from_to_type", r) <=>
                    (e.from = e.to /\ e.from = e.type) /\ r = <<e.from, e.id>>
    BY <1>2
  <2>2. /\ "equal_from_to" \in Trees
        /\ "equal_from_to_inverted" \in Trees
        /\ "equal_from_to_type" \in Trees
    BY DEF Trees
  <2>3. (e.from = e.to) \in BOOLEAN /\ (e.from = e.to /\ e.from = e.type) \in BOOLEAN
    OBVIOUS
  <2> QED
    BY <1>8, <2>1, <2>2, <2>3
<1>13. /\ trees'["equal_from_type"] =
            ts["equal_from_type"] \cup When(e.from = e.type, <<e.from, e.to, e.id>>)
       /\ trees'["equal_from_type_inverted"] =
            ts["equal_from_type_inverted"] \cup When(e.from = e.type, <<e.to, e.from, e.id>>)
       /\ trees'["equal_to_type"] =
            ts["equal_to_type"] \cup When(e.type = e.to, <<e.to, e.from, e.id>>)
       /\ trees'["equal_to_type_inverted"] =
            ts["equal_to_type_inverted"] \cup When(e.type = e.to, <<e.from, e.to, e.id>>)
  <2>1. /\ \A r : Has(recs, "equal_from_type", r) <=>
                    e.from = e.type /\ r = <<e.from, e.to, e.id>>
        /\ \A r : Has(recs, "equal_from_type_inverted", r) <=>
                    e.from = e.type /\ r = <<e.to, e.from, e.id>>
        /\ \A r : Has(recs, "equal_to_type", r) <=>
                    e.type = e.to /\ r = <<e.to, e.from, e.id>>
        /\ \A r : Has(recs, "equal_to_type_inverted", r) <=>
                    e.type = e.to /\ r = <<e.from, e.to, e.id>>
    BY <1>2
  <2>2. /\ "equal_from_type" \in Trees
        /\ "equal_from_type_inverted" \in Trees
        /\ "equal_to_type" \in Trees
        /\ "equal_to_type_inverted" \in Trees
    BY DEF Trees
  <2>3. (e.from = e.type) \in BOOLEAN /\ (e.type = e.to) \in BOOLEAN
    OBVIOUS
  <2> QED
    BY <1>8, <2>1, <2>2, <2>3
<1>14. \A t \in {"label_node", "node_label", "object_key_value", "key_value_object"} :
         trees'[t] = trees[t]
  BY <1>1, <1>10 DEF Trees
<1>15. ASSUME NEW t \in Trees \ {"nodes"} PROVE ts[t] = trees[t]
  BY <1>1
<1>16. trees'["nodes"] = trees["nodes"] \cup {<<o>> : o \in EdgeNodes(e)}
  BY <1>1, <1>10
<1>17. /\ ts["type_from_to_edge"] = trees["type_from_to_edge"]
       /\ ts["type_to_from_edge"] = trees["type_to_from_edge"]
       /\ ts["from_to_type_edge"] = trees["from_to_type_edge"]
       /\ ts["to_type_from_edge"] = trees["to_type_from_edge"]
       /\ ts["equal_from_to"] = trees["equal_from_to"]
       /\ ts["equal_from_to_inverted"] = trees["equal_from_to_inverted"]
       /\ ts["equal_from_to_type"] = trees["equal_from_to_type"]
       /\ ts["equal_from_type"] = trees["equal_from_type"]
       /\ ts["equal_from_type_inverted"] = trees["equal_from_type_inverted"]
       /\ ts["equal_to_type"] = trees["equal_to_type"]
       /\ ts["equal_to_type_inverted"] = trees["equal_to_type_inverted"]
  BY <1>15 DEF Trees
<1> QED
  BY <1>3, <1>6, <1>9, <1>11, <1>12, <1>13, <1>14, <1>16, <1>17, Zenon

-----------------------------------------------------------------------------
(* What an import builds.                                                   *)

ImportedEdges(f) == {ImportedEdge(f, i) : i \in DOMAIN f.edges}

\* The image of a finite set.
LEMMA ImageFinite ==
  ASSUME NEW S, IsFiniteSet(S), NEW g, DOMAIN g = S
  PROVE  IsFiniteSet({g[x] : x \in S})
<1> DEFINE T == {g[x] : x \in S}
           h == [x \in S |-> g[x]]
<1>1. h \in Surjection(S, T)
  BY DEF Surjection
<1> QED
  BY <1>1, FS_Surjection

\* The parts of a file.
LEMMA ImportedFile ==
  ASSUME NEW f \in Imports
  PROVE  /\ f.nodes \in Seq(Objects) /\ f.labels \in Seq(Objects \X Labels)
         /\ f.properties \in Seq(Ids \X Keys \X Values) /\ f.anonymous \in Nat
         /\ f.edges \in Seq([id1 : Ids, id2 : Objects, type : Objects \ Anon,
                             direction : BOOLEAN])
<1>1. f \in Files
  BY QuadAssumption
<1> QED
  BY <1>1, Zenon DEF Files

\* The lines of a part.
LEMMA LinesFinite ==
  ASSUME NEW S, NEW s \in Seq(S)
  PROVE  Lines(s) \subseteq S /\ IsFiniteSet(Lines(s))
<1>1. DOMAIN s = 1 .. Len(s) /\ Len(s) \in Nat
  OBVIOUS
<1>2. IsFiniteSet(1 .. Len(s))
  BY <1>1, FS_Interval
<1>3. IsFiniteSet({s[i] : i \in DOMAIN s})
  BY <1>1, <1>2, ImageFinite
<1>4. \A i \in DOMAIN s : s[i] \in S
  BY <1>1
<1> QED
  BY <1>3, <1>4 DEF Lines

\* An edge of a file has the number of its line.
LEMMA ImportedLine ==
  ASSUME NEW f \in Imports, NEW i \in DOMAIN f.edges
  PROVE  LET l == f.edges[i]
             e == ImportedEdge(f, i)
         IN  /\ i \in 1 .. Len(f.edges) /\ i \in Nat
             /\ l.id1 \in Ids /\ l.id2 \in Ids /\ l.type \in Ids /\ l.direction \in BOOLEAN
             /\ e \in EdgeRec /\ e.id = i /\ e.type = l.type
             /\ l.direction => e.from = l.id1 /\ e.to = l.id2
             /\ ~l.direction => e.from = l.id2 /\ e.to = l.id1
<1> DEFINE S == [id1 : Ids, id2 : Objects, type : Objects \ Anon, direction : BOOLEAN]
<1>1. f.edges \in Seq(S)
  BY ImportedFile
<1> HIDE DEF S
<1>2. i \in 1 .. Len(f.edges) /\ i \in Nat /\ f.edges[i] \in S
  BY <1>1
<1>3. /\ f.edges[i].id1 \in Ids /\ f.edges[i].id2 \in Ids
      /\ f.edges[i].type \in Ids /\ f.edges[i].direction \in BOOLEAN
  BY <1>2 DEF S, Ids
<1> QED
  BY <1>2, <1>3 DEF ImportedEdge, EdgeRec

\* The records that a line gives to the trees of the edges that coincide.
LEMMA ImportedRecords ==
  ASSUME NEW f \in Imports, NEW i \in DOMAIN f.edges, NEW r
  PROVE  LET l == f.edges[i]
         IN  /\ r \in ImportedEqual(f, i)["from_to"] <=>
                  l.id1 = l.id2 /\ r = <<l.id1, l.type, i>>
             /\ r \in ImportedEqual(f, i)["from_to_type"] <=>
                  l.id1 = l.id2 /\ l.id1 = l.type /\ r = <<l.id1, i>>
             /\ r \in ImportedEqual(f, i)["from_type"] <=>
                  /\ IF l.direction THEN l.id1 = l.type ELSE l.id2 = l.type
                  /\ r = <<l.id1, l.id2, i>>
             /\ r \in ImportedEqual(f, i)["to_type"] <=>
                  /\ IF l.direction THEN l.id2 = l.type ELSE l.id1 = l.type
                  /\ r = <<l.id1, l.id2, i>>
BY DEF ImportedEqual

\* The trees, one by one.
LEMMA ImportedAll ==
  ASSUME NEW f \in Imports
  PROVE  LET T == ImportedTrees(f)
             E == ImportedEdges(f)
             Equal(name) == UNION {ImportedEqual(f, i)[name] : i \in DOMAIN f.edges}
         IN  /\ DOMAIN T = Trees
             /\ T["nodes"] = {<<n>> : n \in Lines(f.nodes) \cup UNION {{e.from, e.to, e.type} : e \in E}}
             /\ T["node_label"] = Lines(f.labels)
             /\ T["label_node"] = {<<r[2], r[1]>> : r \in Lines(f.labels)}
             /\ T["object_key_value"] = Lines(f.properties)
             /\ T["key_value_object"] = {<<r[2], r[3], r[1]>> : r \in Lines(f.properties)}
             /\ T["from_to_type_edge"] = {FromToTypeEdge(e) : e \in E}
             /\ T["to_type_from_edge"] = {ToTypeFromEdge(e) : e \in E}
             /\ T["type_from_to_edge"] = {TypeFromToEdge(e) : e \in E}
             /\ T["type_to_from_edge"] = {TypeToFromEdge(e) : e \in E}
             /\ T["equal_from_to"] = Equal("from_to")
             /\ T["equal_from_to_inverted"] = Swapped(Equal("from_to"))
             /\ T["equal_from_type"] = Equal("from_type")
             /\ T["equal_from_type_inverted"] = Swapped(Equal("from_type"))
             /\ T["equal_to_type"] = Equal("to_type")
             /\ T["equal_to_type_inverted"] = Swapped(Equal("to_type"))
             /\ T["equal_from_to_type"] = Equal("from_to_type")
<1> DEFINE T == ImportedTrees(f)
<1>1. DOMAIN T = Trees
  BY DEF ImportedTrees
<1>2. /\ T["nodes"] =
           {<<n>> : n \in Lines(f.nodes) \cup UNION {{e.from, e.to, e.type} : e \in ImportedEdges(f)}}
      /\ T["node_label"] = Lines(f.labels)
      /\ T["label_node"] = {<<r[2], r[1]>> : r \in Lines(f.labels)}
      /\ T["object_key_value"] = Lines(f.properties)
      /\ T["key_value_object"] = {<<r[2], r[3], r[1]>> : r \in Lines(f.properties)}
  BY DEF ImportedTrees, ImportedEdges, Trees
<1>3. /\ T["from_to_type_edge"] = {FromToTypeEdge(e) : e \in ImportedEdges(f)}
      /\ T["to_type_from_edge"] = {ToTypeFromEdge(e) : e \in ImportedEdges(f)}
      /\ T["type_from_to_edge"] = {TypeFromToEdge(e) : e \in ImportedEdges(f)}
      /\ T["type_to_from_edge"] = {TypeToFromEdge(e) : e \in ImportedEdges(f)}
  BY DEF ImportedTrees, ImportedEdges, Trees
<1> DEFINE Equal(name) == UNION {ImportedEqual(f, i)[name] : i \in DOMAIN f.edges}
<1>4. /\ T["equal_from_to"] = Equal("from_to")
      /\ T["equal_from_to_inverted"] = Swapped(Equal("from_to"))
      /\ T["equal_from_type"] = Equal("from_type")
      /\ T["equal_from_type_inverted"] = Swapped(Equal("from_type"))
  BY DEF ImportedTrees, Trees
<1>5. /\ T["equal_to_type"] = Equal("to_type")
      /\ T["equal_to_type_inverted"] = Swapped(Equal("to_type"))
      /\ T["equal_from_to_type"] = Equal("from_to_type")
  BY DEF ImportedTrees, Trees
<1> QED
  BY <1>1, <1>2, <1>3, <1>4, <1>5, Zenon

\* The edges that Edges reads back are those of the file.
LEMMA ImportedBack ==
  ASSUME NEW f \in Imports, trees = ImportedTrees(f)
  PROVE  /\ Edges = ImportedEdges(f)
         /\ trees["to_type_from_edge"] = {<<e.to, e.type, e.from, e.id>> : e \in Edges}
         /\ trees["type_from_to_edge"] = {<<e.type, e.from, e.to, e.id>> : e \in Edges}
         /\ trees["type_to_from_edge"] = {<<e.type, e.to, e.from, e.id>> : e \in Edges}
<1> DEFINE Of(r) == [from |-> r[1], to |-> r[2], type |-> r[3], id |-> r[4]]
<1>1. ASSUME NEW e \in ImportedEdges(f) PROVE Of(FromToTypeEdge(e)) = e
  BY DEF FromToTypeEdge, ImportedEdges, ImportedEdge
<1>2. trees["from_to_type_edge"] = {FromToTypeEdge(e) : e \in ImportedEdges(f)}
  BY ImportedAll
<1>3. Edges = {Of(r) : r \in trees["from_to_type_edge"]}
  BY DEF Edges
<1> HIDE DEF Of
<1>4. Edges = ImportedEdges(f)
  BY <1>1, <1>2, <1>3
<1>5. /\ trees["to_type_from_edge"] = {ToTypeFromEdge(e) : e \in Edges}
      /\ trees["type_from_to_edge"] = {TypeFromToEdge(e) : e \in Edges}
      /\ trees["type_to_from_edge"] = {TypeToFromEdge(e) : e \in Edges}
  BY <1>4, ImportedAll
<1> QED
  BY <1>4, <1>5 DEF ToTypeFromEdge, TypeFromToEdge, TypeToFromEdge

\* A tree that is imported has finitely many records.
LEMMA ImportedFinite ==
  ASSUME NEW f \in Imports, NEW t \in Trees
  PROVE  IsFiniteSet(ImportedTrees(f)[t])
<1> DEFINE D == DOMAIN f.edges
           E == ImportedEdges(f)
           T == ImportedTrees(f)
<1>1. IsFiniteSet(D)
  <2>1. D = 1 .. Len(f.edges) /\ Len(f.edges) \in Nat
    BY ImportedFile
  <2> QED
    BY <2>1, FS_Interval
<1>2. IsFiniteSet(E)
  <2> DEFINE g == [i \in D |-> ImportedEdge(f, i)]
  <2>1. E = {g[i] : i \in D}
    BY DEF ImportedEdges
  <2>2. DOMAIN g = D
    OBVIOUS
  <2> HIDE DEF g, D, E
  <2> QED
    BY <1>1, <2>1, <2>2, ImageFinite
<1>3. CASE t = "nodes"
  <2> DEFINE Ends(e) == {e.from, e.to, e.type}
             g == [e \in E |-> Ends(e)]
             N == Lines(f.nodes) \cup UNION {g[e] : e \in E}
             h == [n \in N |-> <<n>>]
  <2>1. ASSUME NEW e PROVE IsFiniteSet(Ends(e))
    <3>1. Ends(e) = ({e.from} \cup {e.to}) \cup {e.type}
      OBVIOUS
    <3>2. IsFiniteSet({e.from}) /\ IsFiniteSet({e.to}) /\ IsFiniteSet({e.type})
      BY FS_Singleton
    <3>3. IsFiniteSet({e.from} \cup {e.to})
      BY <3>2, FS_Union
    <3>4. IsFiniteSet(({e.from} \cup {e.to}) \cup {e.type})
      BY <3>2, <3>3, FS_Union
    <3> QED
      BY <3>1, <3>4, Zenon
  <2>2. IsFiniteSet({g[e] : e \in E})
    BY <1>2, ImageFinite
  <2>3. IsFiniteSet(UNION {g[e] : e \in E})
    <3>1. \A s \in {g[e] : e \in E} : IsFiniteSet(s)
      BY <2>1
    <3> QED
      BY <2>2, <3>1, FS_UNION
  <2>4. IsFiniteSet(N)
    <3>1. IsFiniteSet(Lines(f.nodes))
      BY ImportedFile, LinesFinite
    <3> HIDE DEF g
    <3> QED
      BY <2>3, <3>1, FS_Union
  <2>5. T["nodes"] = {h[n] : n \in N}
    <3>1. UNION {Ends(e) : e \in E} = UNION {g[e] : e \in E}
      OBVIOUS
    <3>2. T["nodes"] = {<<n>> : n \in Lines(f.nodes) \cup UNION {Ends(e) : e \in E}}
      BY ImportedAll
    <3> QED
      BY <3>1, <3>2
  <2>6. DOMAIN h = N
    OBVIOUS
  <2> HIDE DEF h, N
  <2>7. IsFiniteSet({h[n] : n \in N})
    BY <2>4, <2>6, ImageFinite
  <2> QED
    BY <1>3, <2>5, <2>7
<1>4. CASE t \in {"node_label", "label_node", "object_key_value", "key_value_object"}
  <2> DEFINE g == [r \in Lines(f.labels) |-> <<r[2], r[1]>>]
             h == [r \in Lines(f.properties) |-> <<r[2], r[3], r[1]>>]
  <2>1. IsFiniteSet(Lines(f.labels)) /\ IsFiniteSet(Lines(f.properties))
    BY ImportedFile, LinesFinite
  <2>2. IsFiniteSet({g[r] : r \in Lines(f.labels)}) /\ IsFiniteSet({h[r] : r \in Lines(f.properties)})
    BY <2>1, ImageFinite
  <2>3. /\ T["node_label"] = Lines(f.labels) /\ T["label_node"] = {g[r] : r \in Lines(f.labels)}
        /\ T["object_key_value"] = Lines(f.properties)
        /\ T["key_value_object"] = {h[r] : r \in Lines(f.properties)}
    BY ImportedAll
  <2> QED
    BY <1>4, <2>1, <2>2, <2>3
<1>5. CASE t \in QuadTrees
  <2> DEFINE g1 == [e \in E |-> FromToTypeEdge(e)]
             g2 == [e \in E |-> ToTypeFromEdge(e)]
             g3 == [e \in E |-> TypeFromToEdge(e)]
             g4 == [e \in E |-> TypeToFromEdge(e)]
  <2>1. /\ IsFiniteSet({g1[e] : e \in E}) /\ IsFiniteSet({g2[e] : e \in E})
        /\ IsFiniteSet({g3[e] : e \in E}) /\ IsFiniteSet({g4[e] : e \in E})
    BY <1>2, ImageFinite
  <2>2. /\ T["from_to_type_edge"] = {g1[e] : e \in E}
        /\ T["to_type_from_edge"] = {g2[e] : e \in E}
        /\ T["type_from_to_edge"] = {g3[e] : e \in E}
        /\ T["type_to_from_edge"] = {g4[e] : e \in E}
    <3>1. /\ T["from_to_type_edge"] = {FromToTypeEdge(e) : e \in E}
          /\ T["to_type_from_edge"] = {ToTypeFromEdge(e) : e \in E}
          /\ T["type_from_to_edge"] = {TypeFromToEdge(e) : e \in E}
          /\ T["type_to_from_edge"] = {TypeToFromEdge(e) : e \in E}
      BY ImportedAll
    <3> HIDE DEF E, T
    <3> QED
      BY <3>1
  <2> QED
    BY <1>5, <2>1, <2>2 DEF QuadTrees
<1>6. CASE t \in EqualTrees \cup {"equal_from_to_type"}
  <2> DEFINE Equal(name) == UNION {ImportedEqual(f, i)[name] : i \in D}
             Names == {"from_to", "from_to_type", "from_type", "to_type"}
  <2>1. ASSUME NEW name \in Names PROVE IsFiniteSet(Equal(name))
    <3> DEFINE g == [i \in D |-> ImportedEqual(f, i)[name]]
    <3>1. IsFiniteSet({g[i] : i \in D})
      BY <1>1, ImageFinite
    <3>2. ASSUME NEW i \in D PROVE IsFiniteSet(g[i])
      <4>1. PICK x : g[i] \subseteq {x}
        BY ImportedRecords
      <4> QED
        BY <4>1, FS_Subset, FS_Singleton
    <3>3. \A s \in {g[i] : i \in D} : IsFiniteSet(s)
      BY <3>2
    <3>4. Equal(name) = UNION {g[i] : i \in D}
      OBVIOUS
    <3> QED
      BY <3>1, <3>3, <3>4, FS_UNION
  <2>2. ASSUME NEW S, IsFiniteSet(S) PROVE IsFiniteSet(Swapped(S))
    <3> DEFINE g == [r \in S |-> <<r[2], r[1], r[3]>>]
    <3>1. IsFiniteSet({g[r] : r \in S})
      BY <2>2, ImageFinite
    <3> QED
      BY <3>1 DEF Swapped
  <2>3. /\ T["equal_from_to"] = Equal("from_to")
        /\ T["equal_from_to_inverted"] = Swapped(Equal("from_to"))
        /\ T["equal_from_type"] = Equal("from_type")
        /\ T["equal_from_type_inverted"] = Swapped(Equal("from_type"))
        /\ T["equal_to_type"] = Equal("to_type")
        /\ T["equal_to_type_inverted"] = Swapped(Equal("to_type"))
        /\ T["equal_from_to_type"] = Equal("from_to_type")
    BY ImportedAll
  <2> HIDE DEF Equal
  <2> QED
    BY <1>6, <2>1, <2>2, <2>3 DEF EqualTrees
<1> QED
  BY <1>3, <1>4, <1>5, <1>6 DEF Trees, QuadTrees, EqualTrees

\* The tuples of a part have a place of their own.
LEMMA TuplesFinite ==
  ASSUME NEW S, NEW s \in Seq(S), NEW c
  PROVE  IsFiniteSet(Tuples(s, c))
<1> DEFINE g == [i \in DOMAIN s |-> <<s[i][c], i, s[i]>>]
<1>1. DOMAIN s = 1 .. Len(s) /\ Len(s) \in Nat
  OBVIOUS
<1>2. IsFiniteSet(DOMAIN s)
  BY <1>1, FS_Interval
<1>3. DOMAIN g = DOMAIN s /\ Tuples(s, c) = {g[i] : i \in DOMAIN s}
  BY DEF Tuples
<1> HIDE DEF g
<1> QED
  BY <1>2, <1>3, ImageFinite

\* Where a value occurs in the first column, it is counted.
LEMMA CountByPositive ==
  ASSUME NEW S, IsFiniteSet(S), NEW k \in DOMAIN CountBy(S)
  PROVE  CountBy(S)[k] \in Nat \ {0}
<1>1. /\ CountBy(S)[k] = Cardinality({r \in S : r[1] = k})
      /\ {r \in S : r[1] = k} # {}
  BY DEF CountBy
<1>2. IsFiniteSet({r \in S : r[1] = k})
  BY FS_Subset
<1> QED
  BY <1>1, <1>2, FS_EmptySet, FS_CardinalityType

\* The counts of an import are at least one, where there is a count.
LEMMA ImportedPositive ==
  ASSUME NEW f \in Imports, trees = ImportedTrees(f), catalog = ImportedCatalog(f, trees)
  PROVE  Positive
<1>1. \A t \in Trees : IsFiniteSet(trees[t])
  BY ImportedFinite
<1> DEFINE K == {<<r[1], r[2]>> : r \in trees["key_value_object"]}
<1>2. IsFiniteSet(K)
  <2> DEFINE S == trees["key_value_object"]
             g == [r \in S |-> <<r[1], r[2]>>]
  <2>1. K = {g[r] : r \in S} /\ DOMAIN g = S
    OBVIOUS
  <2>2. IsFiniteSet(S)
    BY <1>1 DEF Trees
  <2> HIDE DEF g, S, K
  <2> QED
    BY <2>1, <2>2, ImageFinite
<1>3. /\ catalog.label2total_count = CountBy(Tuples(f.labels, 2))
      /\ catalog.key2total_count = CountBy(Tuples(f.properties, 2))
      /\ catalog.key2distinct = CountBy(K)
      /\ catalog.type2total_count = CountBy(trees["type_from_to_edge"])
      /\ catalog.type2equal_from_to_count = CountBy(trees["equal_from_to_inverted"])
      /\ catalog.type2equal_from_type_count = CountBy(trees["equal_from_type"])
      /\ catalog.type2equal_to_type_count = CountBy(trees["equal_to_type"])
      /\ catalog.type2equal_from_to_type_count = CountBy(trees["equal_from_to_type"])
  BY DEF ImportedCatalog
<1> HIDE DEF K
<1>0. IsFiniteSet(Tuples(f.labels, 2)) /\ IsFiniteSet(Tuples(f.properties, 2))
  BY ImportedFile, TuplesFinite
<1>4. \A m \in Maps : \E S : IsFiniteSet(S) /\ catalog[m] = CountBy(S)
  BY <1>0, <1>1, <1>2, <1>3 DEF Maps, Trees
<1>5. ASSUME NEW m \in Maps, NEW k \in DOMAIN catalog[m] PROVE catalog[m][k] \in Nat \ {0}
  <2>1. PICK S : IsFiniteSet(S) /\ catalog[m] = CountBy(S)
    BY <1>4
  <2>2. k \in DOMAIN CountBy(S)
    BY <2>1
  <2> QED
    BY <2>1, <2>2, CountByPositive
<1> QED
  BY <1>5 DEF Positive

LEMMA InitInv == Init => QuadInv
<1> SUFFICES ASSUME Init PROVE QuadInv
  OBVIOUS
<1>1. PICK f \in Imports :
        /\ imported = f
        /\ trees = ImportedTrees(f)
        /\ edge_table = [i \in DOMAIN f.edges |->
                           LET e == ImportedEdge(f, i) IN <<e.from, e.to, e.type>>]
        /\ catalog = ImportedCatalog(f, ImportedTrees(f))
        /\ catalog_file = ImportedCatalog(f, ImportedTrees(f))
        /\ todo = Done /\ sent = 0 /\ restarts = 0 /\ open = TRUE
  BY DEF Init
<1> DEFINE E == ImportedEdges(f)
           D == DOMAIN f.edges
           l(i) == f.edges[i]
           n == Len(f.edges)
<1>2. D = 1 .. n /\ n \in Nat
  BY ImportedFile
<1>3. ASSUME NEW i \in D
      PROVE  /\ i \in 1 .. n /\ ImportedEdge(f, i) \in EdgeRec /\ ImportedEdge(f, i).id = i
             /\ l(i).id1 \in Ids /\ l(i).id2 \in Ids /\ l(i).type \in Ids
  BY ImportedLine
<1>4. /\ catalog = ImportedCatalog(f, trees)
      /\ catalog.connections_count = n /\ DOMAIN catalog = Fields
  BY <1>1 DEF ImportedCatalog, Fields, Maps
<1>5. \A e \in E : /\ e.from \in Ids /\ e.to \in Ids /\ e.type \in Ids
                   /\ e.id \in Nat /\ e.id \in 1 .. n
  BY <1>3 DEF ImportedEdges, EdgeRec
<1>6. \A e, d \in E : e.id = d.id => e = d
  BY <1>3 DEF ImportedEdges
<1>7. /\ trees["nodes"] = {<<m>> : m \in Lines(f.nodes) \cup UNION {{e.from, e.to, e.type} : e \in E}}
      /\ trees["node_label"] = Lines(f.labels)
      /\ trees["label_node"] = {<<r[2], r[1]>> : r \in Lines(f.labels)}
      /\ trees["object_key_value"] = Lines(f.properties)
      /\ trees["key_value_object"] = {<<r[2], r[3], r[1]>> : r \in Lines(f.properties)}
  BY <1>1, ImportedAll
<1>8. /\ trees["from_to_type_edge"] = {<<e.from, e.to, e.type, e.id>> : e \in E}
      /\ trees["to_type_from_edge"] = {<<e.to, e.type, e.from, e.id>> : e \in E}
      /\ trees["type_from_to_edge"] = {<<e.type, e.from, e.to, e.id>> : e \in E}
      /\ trees["type_to_from_edge"] = {<<e.type, e.to, e.from, e.id>> : e \in E}
  BY <1>1, ImportedAll
     DEF FromToTypeEdge, ToTypeFromEdge, TypeFromToEdge, TypeToFromEdge
<1>9. /\ \A r : r \in trees["equal_from_to"] <=>
                  \E i \in D : l(i).id1 = l(i).id2 /\ r = <<l(i).id1, l(i).type, i>>
      /\ \A r : r \in trees["equal_from_to_type"] <=>
                  \E i \in D : /\ l(i).id1 = l(i).id2 /\ l(i).id1 = l(i).type
                               /\ r = <<l(i).id1, i>>
      /\ \A r : r \in trees["equal_from_type"] =>
                  \E i \in D : r = <<l(i).id1, l(i).id2, i>>
      /\ \A r : r \in trees["equal_to_type"] =>
                  \E i \in D : r = <<l(i).id1, l(i).id2, i>>
  <2>1. /\ trees["equal_from_to"] = UNION {ImportedEqual(f, i)["from_to"] : i \in D}
        /\ trees["equal_from_to_type"] = UNION {ImportedEqual(f, i)["from_to_type"] : i \in D}
        /\ trees["equal_from_type"] = UNION {ImportedEqual(f, i)["from_type"] : i \in D}
        /\ trees["equal_to_type"] = UNION {ImportedEqual(f, i)["to_type"] : i \in D}
    BY <1>1, ImportedAll
  <2>2. ASSUME NEW i \in D, NEW r
        PROVE  /\ r \in ImportedEqual(f, i)["from_to"] <=>
                    l(i).id1 = l(i).id2 /\ r = <<l(i).id1, l(i).type, i>>
               /\ r \in ImportedEqual(f, i)["from_to_type"] <=>
                    l(i).id1 = l(i).id2 /\ l(i).id1 = l(i).type /\ r = <<l(i).id1, i>>
               /\ r \in ImportedEqual(f, i)["from_type"] => r = <<l(i).id1, l(i).id2, i>>
               /\ r \in ImportedEqual(f, i)["to_type"] => r = <<l(i).id1, l(i).id2, i>>
    BY ImportedRecords
  <2> HIDE DEF D, l
  <2> QED
    BY <2>1, <2>2
<1>10. /\ trees["equal_from_to_inverted"] = Swapped(trees["equal_from_to"])
       /\ trees["equal_from_type_inverted"] = Swapped(trees["equal_from_type"])
       /\ trees["equal_to_type_inverted"] = Swapped(trees["equal_to_type"])
  BY <1>1, ImportedAll
<1>11. Orders /\ Edges = E
  BY <1>1, ImportedBack DEF Orders
<1>12. Positive /\ Finite
  BY <1>1, <1>4, ImportedPositive, ImportedFinite DEF Finite
<1> HIDE DEF E, D, l, n
<1>13. Shapes
  <2>1. edge_table \in Seq(Triples)
    <3>1. ASSUME NEW i \in D PROVE edge_table[i] \in Triples
      BY <1>1, <1>3 DEF Triples, EdgeRec, D
    <3>2. DOMAIN edge_table = 1 .. n
      BY <1>1, <1>2 DEF D
    <3>3. edge_table = [i \in 1 .. n |-> edge_table[i]]
      BY <1>1, <1>2 DEF D
    <3> QED
      BY <1>2, <3>1, <3>2, <3>3
  <2>2. todo \in Inserts
    BY <1>1 DEF Done, Inserts
  <2>3. DOMAIN trees = Trees
    BY <1>1, ImportedAll
  <2> QED
    BY <1>1, <1>2, <1>4, <2>1, <2>2, <2>3, QuadAssumption DEF Shapes
<1>14. Typed
  <2>1. /\ Lines(f.nodes) \subseteq Objects /\ Lines(f.labels) \subseteq Objects \X Labels
        /\ Lines(f.properties) \subseteq Ids \X Keys \X Values
    BY ImportedFile, LinesFinite
  <2>2. trees["nodes"] \subseteq {<<o>> : o \in Ids}
    <3>1. Lines(f.nodes) \subseteq Ids
      BY <2>1 DEF Ids
    <3> QED
      BY <1>5, <1>7, <3>1
  <2>3. trees["from_to_type_edge"] \subseteq Quads
    BY <1>5, <1>8 DEF Quads
  <2> QED
    BY <1>7, <2>1, <2>2, <2>3 DEF Typed
<1>15. Closed
  BY <1>1 DEF Closed
<1>16. Given
  <2>1. \A t \in QuadTrees : \A r \in trees[t] : r[4] \in 0 .. n
    BY <1>2, <1>5, <1>8 DEF QuadTrees
  <2>2. ASSUME NEW t \in {"equal_from_to", "equal_from_type", "equal_to_type"}, NEW r \in trees[t]
        PROVE  r[3] \in 0 .. n
    <3>1. PICK i \in D : r[3] = i
      BY <1>9
    <3> QED
      BY <1>2, <3>1
  <2>3. \A t \in EqualTrees : \A r \in trees[t] : r[3] \in 0 .. n
    BY <1>10, <2>2 DEF EqualTrees, Swapped
  <2>4. \A r \in trees["equal_from_to_type"] : r[2] \in 0 .. n
    <3> TAKE r \in trees["equal_from_to_type"]
    <3>1. PICK i \in D : r[2] = i
      BY <1>9
    <3> QED
      BY <1>2, <3>1
  <2> QED
    BY <1>4, <2>1, <2>3, <2>4 DEF Given
<1>17. Distinct
  BY <1>6, <1>8 DEF Distinct
<1>18. Pairs
  BY <1>7 DEF Pairs
<1>19. Known
  <2>1. /\ trees["node_label"] = Lines(imported.labels)
        /\ trees["object_key_value"] = Lines(imported.properties)
    BY <1>1, <1>7
  <2>2. ASSUME NEW e \in E
        PROVE  /\ <<e.from>> \in trees["nodes"] /\ <<e.to>> \in trees["nodes"]
               /\ <<e.type>> \in trees["nodes"]
    BY <1>7
  <2> QED
    BY <1>8, <2>1, <2>2 DEF Known
<1>20. Coincide
  <2>1. ASSUME NEW i \in D
        PROVE  LET e == ImportedEdge(f, i)
               IN  /\ e \in E /\ e.id = i /\ e.type = l(i).type
                   /\ l(i).id1 = l(i).id2 <=> e.from = e.to
                   /\ e.from = e.to => e.from = l(i).id1
    BY ImportedLine DEF E, D, l, ImportedEdges
  <2>2. \A e \in E : \E i \in D : e = ImportedEdge(f, i)
    BY DEF E, D, ImportedEdges
  <2>3. trees["equal_from_to"] = {<<e.to, e.type, e.id>> : e \in {x \in E : x.from = x.to}}
    BY <1>9, <2>1, <2>2
  <2>4. trees["equal_from_to_type"] =
          {<<e.type, e.id>> : e \in {x \in E : x.from = x.to /\ x.to = x.type}}
    BY <1>9, <2>1, <2>2
  <2> QED
    BY <1>10, <1>11, <2>3, <2>4 DEF Coincide
<1> QED
  BY <1>11, <1>12, <1>13, <1>14, <1>15, <1>16, <1>17, <1>18, <1>19, <1>20 DEF QuadInv

-----------------------------------------------------------------------------
(* The steps.                                                               *)

\* What is counted stays counted, and one more is counted.
LEMMA BumpPositive ==
  ASSUME NEW map, \A k \in DOMAIN map : map[k] \in Nat \ {0}, NEW new
  PROVE  \A k \in DOMAIN Bump(map, new) : Bump(map, new)[k] \in Nat \ {0}
BY DEF Bump, Counts

\* Nodes are counted in fields of their own.
LEMMA CountNodesOnly ==
  ASSUME Shapes, NEW objects
  PROVE  LET counted == CountNodes(catalog, trees, objects)
         IN  /\ DOMAIN counted = Fields
             /\ counted.connections_count = catalog.connections_count
             /\ \A m \in Maps : counted[m] = catalog[m]
BY DEF Shapes, CountNodes, Fields, Maps

\* Where the trees of the edges stay as they are, so does what is known of them.
LEMMA EdgesKept ==
  ASSUME Given, Distinct, Orders, Coincide,
         \A t \in QuadTrees \cup EqualTrees \cup {"equal_from_to_type"} : trees'[t] = trees[t],
         catalog'.connections_count = catalog.connections_count
  PROVE  Given' /\ Distinct' /\ Orders' /\ Coincide' /\ (Directed => Directed')
<1>1. /\ trees'["from_to_type_edge"] = trees["from_to_type_edge"]
      /\ trees'["to_type_from_edge"] = trees["to_type_from_edge"]
      /\ trees'["type_from_to_edge"] = trees["type_from_to_edge"]
      /\ trees'["type_to_from_edge"] = trees["type_to_from_edge"]
      /\ trees'["equal_from_to"] = trees["equal_from_to"]
      /\ trees'["equal_from_to_inverted"] = trees["equal_from_to_inverted"]
      /\ trees'["equal_from_to_type"] = trees["equal_from_to_type"]
      /\ trees'["equal_from_type"] = trees["equal_from_type"]
      /\ trees'["equal_from_type_inverted"] = trees["equal_from_type_inverted"]
      /\ trees'["equal_to_type"] = trees["equal_to_type"]
      /\ trees'["equal_to_type_inverted"] = trees["equal_to_type_inverted"]
  BY DEF QuadTrees, EqualTrees
<1>2. Edges' = Edges
  BY <1>1 DEF Edges
<1>3. Given'
  BY <1>1 DEF Given, QuadTrees, EqualTrees
<1>4. Distinct'
  BY <1>1 DEF Distinct
<1>5. Orders'
  BY <1>1, <1>2 DEF Orders
<1>6. Coincide'
  BY <1>1, <1>2 DEF Coincide
<1>7. Directed => Directed'
  BY <1>1, <1>2 DEF Directed
<1> QED
  BY <1>3, <1>4, <1>5, <1>6, <1>7

LEMMA StartStep ==
  ASSUME QuadInv, NEW s \in Statements, Start(s)
  PROVE  QuadInv' /\ (Directed => Directed')
<1>1. s \in Inserts /\ MaxStatements \in Nat
  BY QuadAssumption
<1>2. /\ UNCHANGED <<imported, trees, edge_table, catalog, catalog_file, restarts, open>>
      /\ todo' = s /\ sent' = sent + 1 /\ sent < MaxStatements /\ open
  BY DEF Start
<1>3. Shapes'
  BY <1>1, <1>2 DEF QuadInv, Shapes
<1>4. Typed' /\ Closed' /\ Pairs' /\ Known' /\ Finite' /\ Positive'
  BY <1>2 DEF QuadInv, Typed, Closed, Pairs, Known, Finite, Positive
<1>5. Given' /\ Distinct' /\ Orders' /\ Coincide' /\ (Directed => Directed')
  BY <1>2, EdgesKept DEF QuadInv
<1> QED
  BY <1>3, <1>4, <1>5 DEF QuadInv

LEMMA CloseStep ==
  ASSUME QuadInv, Close
  PROVE  QuadInv' /\ (Directed => Directed')
<1>1. /\ UNCHANGED <<imported, trees, edge_table, catalog, todo, sent>>
      /\ todo = Done /\ catalog_file' = catalog /\ open' = FALSE
      /\ restarts' = restarts + 1 /\ restarts < MaxRestarts
  BY DEF Close, Saved
<1>2. Shapes'
  <2>1. restarts' \in 0 .. MaxRestarts
    <3>1. MaxRestarts \in Nat
      BY QuadAssumption
    <3> QED
      BY <1>1, <3>1 DEF QuadInv, Shapes
  <2> QED
    BY <1>1, <2>1 DEF QuadInv, Shapes
<1>3. Typed' /\ Closed' /\ Pairs' /\ Known' /\ Finite' /\ Positive'
  BY <1>1 DEF QuadInv, Typed, Closed, Pairs, Known, Finite, Positive
<1>4. Given' /\ Distinct' /\ Orders' /\ Coincide' /\ (Directed => Directed')
  BY <1>1, EdgesKept DEF QuadInv
<1> QED
  BY <1>2, <1>3, <1>4 DEF QuadInv

LEMMA OpenStep ==
  ASSUME QuadInv, Open
  PROVE  QuadInv' /\ (Directed => Directed')
<1>1. /\ UNCHANGED <<imported, trees, edge_table, catalog, catalog_file, todo, sent, restarts>>
      /\ open' = TRUE
  BY DEF Open, QuadInv, Closed
<1>2. Shapes'
  BY <1>1 DEF QuadInv, Shapes
<1>3. Typed' /\ Closed' /\ Pairs' /\ Known' /\ Finite' /\ Positive'
  BY <1>1 DEF QuadInv, Typed, Closed, Pairs, Known, Finite, Positive
<1>4. Given' /\ Distinct' /\ Orders' /\ Coincide' /\ (Directed => Directed')
  BY <1>1, EdgesKept DEF QuadInv
<1> QED
  BY <1>2, <1>3, <1>4 DEF QuadInv

\* The labels of an INSERT, one by one.
LEMMA LabelRound ==
  ASSUME QuadInv, InsertLabel
  PROVE  \E node \in Objects, label \in Labels :
           /\ <<label, node>> \in trees["label_node"] <=> <<node, label>> \in trees["node_label"]
           /\ TwoAdded({node}, "label_node", <<label, node>>, "node_label", <<node, label>>,
                       [todo EXCEPT !.labels = Tail(@)], CountedLabel(node, label))
<1> USE DEF QuadInv
<1> DEFINE node == Head(todo.labels)[1]
           label == Head(todo.labels)[2]
           rest == [todo EXCEPT !.labels = Tail(@)]
           bumped == CountedLabel(node, label)
<1>1. node \in Objects /\ label \in Labels
  <2>1. todo.labels \in Seq(Objects \X Labels) /\ todo.labels # << >>
    BY DEF InsertLabel, Shapes, Inserts
  <2>2. Head(todo.labels) \in Objects \X Labels
    BY <2>1
  <2> QED
    BY <2>2
<1>2. Round({node}, <<Rec("label_node", <<label, node>>), Rec("node_label", <<node, label>>)>>,
            rest, bumped)
  BY Zenon DEF InsertLabel
<1> HIDE DEF node, label, rest, bumped
<1>3. <<label, node>> \in trees["label_node"] <=> <<node, label>> \in trees["node_label"]
  <2>1. \A r \in trees["node_label"] : r = <<r[1], r[2]>>
    BY DEF Typed
  <2> QED
    BY <2>1 DEF Pairs
<1>4. "label_node" \in Trees \ {"nodes"} /\ "node_label" \in Trees \ {"nodes"}
  BY DEF Trees
<1>5. AddsTwo({node}, "label_node", <<label, node>>, "node_label", <<node, label>>, rest, bumped)
  BY <1>2, <1>3, <1>4 DEF AddsTwo
<1>6. TwoAdded({node}, "label_node", <<label, node>>, "node_label", <<node, label>>, rest, bumped)
  BY <1>5, RoundOfTwo
<1> QED
  BY <1>1, <1>3, <1>6, Zenon DEF rest, bumped

LEMMA LabelStep ==
  ASSUME QuadInv, InsertLabel
  PROVE  QuadInv' /\ (Directed => Directed')
<1> USE DEF QuadInv
<1>1. PICK node \in Objects, label \in Labels :
        TwoAdded({node}, "label_node", <<label, node>>, "node_label", <<node, label>>,
                 [todo EXCEPT !.labels = Tail(@)], CountedLabel(node, label))
  BY LabelRound, Zenon
<1> DEFINE counted == CountNodes(catalog, trees, {node})
           rest == [todo EXCEPT !.labels = Tail(@)]
           bumped == CountedLabel(node, label)
<1>2. UNCHANGED <<imported, edge_table, catalog_file, sent, restarts, open>> /\ todo # Done
  BY DEF InsertLabel, Done
<1>3. /\ DOMAIN counted = Fields /\ counted.connections_count = catalog.connections_count
      /\ \A m \in Maps : counted[m] = catalog[m]
  BY CountNodesOnly
<1>4. rest \in Inserts /\ Done \in Inserts
  <2>1. /\ todo \in Inserts /\ todo.labels \in Seq(Objects \X Labels) /\ todo.labels # << >>
        /\ Done \in Inserts
    BY DEF InsertLabel, Shapes, Inserts, Done
  <2>2. Tail(todo.labels) \in Seq(Objects \X Labels)
    BY <2>1
  <2> QED
    BY <2>1, <2>2 DEF Inserts
<1>5. /\ DOMAIN trees' = Trees
      /\ trees'["nodes"] = trees["nodes"] \cup {<<o>> : o \in {node}}
      /\ \A t \in Trees \ {"nodes", "label_node", "node_label"} : trees'[t] = trees[t]
      /\ trees'["label_node"] = trees["label_node"] \cup {<<label, node>>}
      /\ trees'["node_label"] = trees["node_label"] \cup {<<node, label>>}
      /\ \/ catalog' = bumped /\ todo' = rest
         \/ catalog' = counted /\ todo' = Done
  <2> HIDE DEF counted, rest, bumped
  <2>1. TwoAdded({node}, "label_node", <<label, node>>, "node_label", <<node, label>>, rest, bumped)
    BY <1>1 DEF counted, rest, bumped
  <2> QED
    BY <2>1 DEF TwoAdded, counted
<1> HIDE DEF counted, rest, bumped
<1>6. /\ DOMAIN catalog' = Fields /\ catalog'.connections_count = catalog.connections_count
      /\ todo' \in Inserts
  BY <1>3, <1>4, <1>5 DEF Fields, bumped, counted, CountedLabel
<1>7. Positive'
  <2>1. CASE catalog' = counted
    BY <1>3, <2>1 DEF Positive
  <2>2. CASE catalog' = bumped
    <3>1. /\ catalog'.label2total_count = Bump(catalog.label2total_count, label)
          /\ \A m \in Maps \ {"label2total_count"} : catalog'[m] = catalog[m]
      BY <1>3, <2>2 DEF Fields, Maps, bumped, counted, CountedLabel
    <3>2. \A k \in DOMAIN catalog.label2total_count : catalog.label2total_count[k] \in Nat \ {0}
      BY DEF Positive, Maps
    <3>3. \A k \in DOMAIN catalog'.label2total_count :
            catalog'.label2total_count[k] \in Nat \ {0}
      BY <3>1, <3>2, BumpPositive
    <3> QED
      BY <3>1, <3>3 DEF Positive
  <2> QED
    BY <1>5, <2>1, <2>2
<1>8. /\ trees'["object_key_value"] = trees["object_key_value"]
      /\ trees'["key_value_object"] = trees["key_value_object"]
      /\ trees'["from_to_type_edge"] = trees["from_to_type_edge"]
      /\ \A t \in QuadTrees \cup EqualTrees \cup {"equal_from_to_type"} : trees'[t] = trees[t]
  BY <1>5 DEF Trees, QuadTrees, EqualTrees
<1>9. Given' /\ Distinct' /\ Orders' /\ Coincide' /\ (Directed => Directed')
  BY <1>6, <1>8, EdgesKept
<1>10. Shapes'
  BY <1>2, <1>5, <1>6 DEF Shapes
<1>11. Typed'
  <2>1. node \in Ids
    BY <1>1 DEF Ids
  <2> QED
    BY <1>1, <1>5, <1>8, <2>1 DEF Typed
<1>12. Closed'
  BY <1>2 DEF Closed
<1>13. Pairs'
  <2>1. trees["label_node"] = {<<r[2], r[1]>> : r \in trees["node_label"]}
    BY DEF Pairs
  <2> DEFINE P(r) == <<r[2], r[1]>>
  <2>2. P(<<node, label>>) = <<label, node>>
    OBVIOUS
  <2> HIDE DEF P
  <2>3. trees["label_node"] = {P(r) : r \in trees["node_label"]}
    BY <2>1 DEF P
  <2>4. trees'["label_node"] = {P(r) : r \in trees'["node_label"]}
    BY <1>5, <2>2, <2>3
  <2> QED
    BY <1>8, <2>4 DEF Pairs, P
<1>14. Known'
  <2>1. imported' = imported
    BY <1>2
  <2> QED
    BY <1>5, <1>8, <2>1 DEF Known
<1>15. Finite'
  <2>1. ASSUME NEW t \in Trees PROVE \E x : trees'[t] = trees[t] \cup {x} \/ trees'[t] = trees[t]
    <3>1. trees'["nodes"] = trees["nodes"] \cup {<<node>>}
      BY <1>5
    <3> QED
      BY <1>5, <3>1
  <2>2. ASSUME NEW t \in Trees PROVE IsFiniteSet(trees'[t])
    BY <2>1, FS_AddElement DEF Finite
  <2> QED
    BY <2>2 DEF Finite
<1> QED
  BY <1>7, <1>9, <1>10, <1>11, <1>12, <1>13, <1>14, <1>15

\* The properties of an INSERT, one by one.
LEMMA PropertyRound ==
  ASSUME QuadInv, InsertProperty
  PROVE  \E obj \in Ids, key \in Keys, value \in Values :
           /\ <<key, value, obj>> \in trees["key_value_object"]
                <=> <<obj, key, value>> \in trees["object_key_value"]
           /\ TwoAdded({obj}, "key_value_object", <<key, value, obj>>,
                       "object_key_value", <<obj, key, value>>,
                       [todo EXCEPT !.properties = Tail(@)], CountedProperty(obj, key))
<1> USE DEF QuadInv
<1> DEFINE obj == Head(todo.properties)[1]
           key == Head(todo.properties)[2]
           value == Head(todo.properties)[3]
           rest == [todo EXCEPT !.properties = Tail(@)]
           bumped == CountedProperty(obj, key)
<1>1. obj \in Ids /\ key \in Keys /\ value \in Values
  <2>1. todo.properties \in Seq(Ids \X Keys \X Values) /\ todo.properties # << >>
    BY DEF InsertProperty, Shapes, Inserts
  <2>2. Head(todo.properties) \in Ids \X Keys \X Values
    BY <2>1
  <2> QED
    BY <2>2
<1>2. Round({obj}, <<Rec("key_value_object", <<key, value, obj>>),
                     Rec("object_key_value", <<obj, key, value>>)>>, rest, bumped)
  BY Zenon DEF InsertProperty
<1> HIDE DEF obj, key, value, rest, bumped
<1>3. <<key, value, obj>> \in trees["key_value_object"]
        <=> <<obj, key, value>> \in trees["object_key_value"]
  <2>1. \A r \in trees["object_key_value"] : r = <<r[1], r[2], r[3]>>
    BY DEF Typed
  <2> QED
    BY <2>1 DEF Pairs
<1>4. "key_value_object" \in Trees \ {"nodes"} /\ "object_key_value" \in Trees \ {"nodes"}
  BY DEF Trees
<1>5. AddsTwo({obj}, "key_value_object", <<key, value, obj>>,
              "object_key_value", <<obj, key, value>>, rest, bumped)
  BY <1>2, <1>3, <1>4 DEF AddsTwo
<1>6. TwoAdded({obj}, "key_value_object", <<key, value, obj>>,
               "object_key_value", <<obj, key, value>>, rest, bumped)
  BY <1>5, RoundOfTwo
<1> QED
  BY <1>1, <1>3, <1>6, Zenon DEF rest, bumped

LEMMA PropertyStep ==
  ASSUME QuadInv, InsertProperty
  PROVE  QuadInv' /\ (Directed => Directed')
<1> USE DEF QuadInv
<1>1. PICK obj \in Ids, key \in Keys, value \in Values :
        TwoAdded({obj}, "key_value_object", <<key, value, obj>>,
                 "object_key_value", <<obj, key, value>>,
                 [todo EXCEPT !.properties = Tail(@)], CountedProperty(obj, key))
  BY PropertyRound, Zenon
<1> DEFINE counted == CountNodes(catalog, trees, {obj})
           rest == [todo EXCEPT !.properties = Tail(@)]
           bumped == CountedProperty(obj, key)
<1>2. UNCHANGED <<imported, edge_table, catalog_file, sent, restarts, open>> /\ todo # Done
  BY DEF InsertProperty, Done
<1>3. /\ DOMAIN counted = Fields /\ counted.connections_count = catalog.connections_count
      /\ \A m \in Maps : counted[m] = catalog[m]
  BY CountNodesOnly
<1>4. rest \in Inserts /\ Done \in Inserts
  <2>1. /\ todo \in Inserts /\ todo.properties \in Seq(Ids \X Keys \X Values)
        /\ todo.properties # << >> /\ Done \in Inserts
    BY DEF InsertProperty, Shapes, Inserts, Done
  <2>2. Tail(todo.properties) \in Seq(Ids \X Keys \X Values)
    BY <2>1
  <2> QED
    BY <2>1, <2>2 DEF Inserts
<1>5. /\ DOMAIN trees' = Trees
      /\ trees'["nodes"] = trees["nodes"] \cup {<<o>> : o \in {obj}}
      /\ \A t \in Trees \ {"nodes", "key_value_object", "object_key_value"} : trees'[t] = trees[t]
      /\ trees'["key_value_object"] = trees["key_value_object"] \cup {<<key, value, obj>>}
      /\ trees'["object_key_value"] = trees["object_key_value"] \cup {<<obj, key, value>>}
      /\ \/ catalog' = bumped /\ todo' = rest
         \/ catalog' = counted /\ todo' = Done
  <2> HIDE DEF counted, rest, bumped
  <2>1. TwoAdded({obj}, "key_value_object", <<key, value, obj>>,
                 "object_key_value", <<obj, key, value>>, rest, bumped)
    BY <1>1 DEF counted, rest, bumped
  <2> QED
    BY <2>1 DEF TwoAdded, counted
<1> HIDE DEF counted, rest, bumped
<1>6. /\ DOMAIN catalog' = Fields /\ catalog'.connections_count = catalog.connections_count
      /\ todo' \in Inserts
  BY <1>3, <1>4, <1>5 DEF Fields, bumped, counted, CountedProperty
<1>7. Positive'
  <2>1. CASE catalog' = counted
    BY <1>3, <2>1 DEF Positive
  <2>2. CASE catalog' = bumped
    <3>1. /\ catalog'.key2total_count = Bump(catalog.key2total_count, key)
          /\ catalog'.key2distinct = Bump(catalog.key2distinct, key)
          /\ \A m \in Maps \ {"key2total_count", "key2distinct"} : catalog'[m] = catalog[m]
      BY <1>3, <2>2 DEF Fields, Maps, bumped, counted, CountedProperty
    <3>2. /\ \A k \in DOMAIN catalog.key2total_count : catalog.key2total_count[k] \in Nat \ {0}
          /\ \A k \in DOMAIN catalog.key2distinct : catalog.key2distinct[k] \in Nat \ {0}
      BY DEF Positive, Maps
    <3>3. /\ \A k \in DOMAIN catalog'.key2total_count : catalog'.key2total_count[k] \in Nat \ {0}
          /\ \A k \in DOMAIN catalog'.key2distinct : catalog'.key2distinct[k] \in Nat \ {0}
      BY <3>1, <3>2, BumpPositive
    <3> QED
      BY <3>1, <3>3 DEF Positive
  <2> QED
    BY <1>5, <2>1, <2>2
<1>8. /\ trees'["node_label"] = trees["node_label"]
      /\ trees'["label_node"] = trees["label_node"]
      /\ trees'["from_to_type_edge"] = trees["from_to_type_edge"]
      /\ \A t \in QuadTrees \cup EqualTrees \cup {"equal_from_to_type"} : trees'[t] = trees[t]
  BY <1>5 DEF Trees, QuadTrees, EqualTrees
<1>9. Given' /\ Distinct' /\ Orders' /\ Coincide' /\ (Directed => Directed')
  BY <1>6, <1>8, EdgesKept
<1>10. Shapes'
  BY <1>2, <1>5, <1>6 DEF Shapes
<1>11. Typed'
  BY <1>1, <1>5, <1>8 DEF Typed
<1>12. Closed'
  BY <1>2 DEF Closed
<1>13. Pairs'
  <2>1. trees["key_value_object"] = {<<r[2], r[3], r[1]>> : r \in trees["object_key_value"]}
    BY DEF Pairs
  <2> DEFINE P(r) == <<r[2], r[3], r[1]>>
  <2>2. P(<<obj, key, value>>) = <<key, value, obj>>
    OBVIOUS
  <2> HIDE DEF P
  <2>3. trees["key_value_object"] = {P(r) : r \in trees["object_key_value"]}
    BY <2>1 DEF P
  <2>4. trees'["key_value_object"] = {P(r) : r \in trees'["object_key_value"]}
    BY <1>5, <2>2, <2>3
  <2> QED
    BY <1>8, <2>4 DEF Pairs, P
<1>14. Known'
  <2>1. imported' = imported
    BY <1>2
  <2> QED
    BY <1>5, <1>8, <2>1 DEF Known
<1>15. Finite'
  <2>1. ASSUME NEW t \in Trees PROVE \E x : trees'[t] = trees[t] \cup {x} \/ trees'[t] = trees[t]
    <3>1. trees'["nodes"] = trees["nodes"] \cup {<<obj>>}
      BY <1>5
    <3> QED
      BY <1>5, <3>1
  <2>2. ASSUME NEW t \in Trees PROVE IsFiniteSet(trees'[t])
    BY <2>1, FS_AddElement DEF Finite
  <2> QED
    BY <2>2 DEF Finite
<1> QED
  BY <1>7, <1>9, <1>10, <1>11, <1>12, <1>13, <1>14, <1>15

\* Records that are made from the edges, when there is one more edge.
LEMMA EdgeMore ==
  ASSUME NEW E, NEW e
  PROVE  LET F == E \cup {e}
         IN  /\ {<<x.to, x.type, x.from, x.id>> : x \in F}
                  = {<<x.to, x.type, x.from, x.id>> : x \in E} \cup {<<e.to, e.type, e.from, e.id>>}
             /\ {<<x.type, x.from, x.to, x.id>> : x \in F}
                  = {<<x.type, x.from, x.to, x.id>> : x \in E} \cup {<<e.type, e.from, e.to, e.id>>}
             /\ {<<x.type, x.to, x.from, x.id>> : x \in F}
                  = {<<x.type, x.to, x.from, x.id>> : x \in E} \cup {<<e.type, e.to, e.from, e.id>>}
             /\ {<<d.to, d.type, d.id>> : d \in {x \in F : x.from = x.to}}
                  = {<<d.to, d.type, d.id>> : d \in {x \in E : x.from = x.to}}
                      \cup When(e.from = e.to, <<e.from, e.type, e.id>>)
             /\ {<<d.type, d.id>> : d \in {x \in F : x.from = x.to /\ x.to = x.type}}
                  = {<<d.type, d.id>> : d \in {x \in E : x.from = x.to /\ x.to = x.type}}
                      \cup When(e.from = e.to /\ e.from = e.type, <<e.from, e.id>>)
             /\ {<<d.type, d.to, d.id>> : d \in {x \in F : x.from = x.type}}
                  = {<<d.type, d.to, d.id>> : d \in {x \in E : x.from = x.type}}
                      \cup When(e.from = e.type, <<e.from, e.to, e.id>>)
             /\ {<<d.type, d.from, d.id>> : d \in {x \in F : x.to = x.type}}
                  = {<<d.type, d.from, d.id>> : d \in {x \in E : x.to = x.type}}
                      \cup When(e.type = e.to, <<e.to, e.from, e.id>>)
<1> DEFINE F == E \cup {e}
<1>1. {<<x.to, x.type, x.from, x.id>> : x \in F}
        = {<<x.to, x.type, x.from, x.id>> : x \in E} \cup {<<e.to, e.type, e.from, e.id>>}
  <2> DEFINE P(x) == <<x.to, x.type, x.from, x.id>>
  <2> HIDE DEF P
  <2>1. {P(x) : x \in F} = {P(x) : x \in E} \cup {P(e)}
    OBVIOUS
  <2> QED
    BY <2>1, Zenon DEF P
<1>2. {<<x.type, x.from, x.to, x.id>> : x \in F}
        = {<<x.type, x.from, x.to, x.id>> : x \in E} \cup {<<e.type, e.from, e.to, e.id>>}
  <2> DEFINE P(x) == <<x.type, x.from, x.to, x.id>>
  <2> HIDE DEF P
  <2>1. {P(x) : x \in F} = {P(x) : x \in E} \cup {P(e)}
    OBVIOUS
  <2> QED
    BY <2>1, Zenon DEF P
<1>3. {<<x.type, x.to, x.from, x.id>> : x \in F}
        = {<<x.type, x.to, x.from, x.id>> : x \in E} \cup {<<e.type, e.to, e.from, e.id>>}
  <2> DEFINE P(x) == <<x.type, x.to, x.from, x.id>>
  <2> HIDE DEF P
  <2>1. {P(x) : x \in F} = {P(x) : x \in E} \cup {P(e)}
    OBVIOUS
  <2> QED
    BY <2>1, Zenon DEF P
<1>4. {<<d.to, d.type, d.id>> : d \in {x \in F : x.from = x.to}}
        = {<<d.to, d.type, d.id>> : d \in {x \in E : x.from = x.to}}
            \cup When(e.from = e.to, <<e.from, e.type, e.id>>)
  <2> DEFINE P(x) == <<x.to, x.type, x.id>>
  <2>1. e.from = e.to => P(e) = <<e.from, e.type, e.id>>
    OBVIOUS
  <2> HIDE DEF P
  <2>2. {P(d) : d \in {x \in F : x.from = x.to}}
          = {P(d) : d \in {x \in E : x.from = x.to}}
               \cup When(e.from = e.to, <<e.from, e.type, e.id>>)
    BY <2>1 DEF When
  <2> QED
    BY <2>2, Zenon DEF P
<1>5. {<<d.type, d.id>> : d \in {x \in F : x.from = x.to /\ x.to = x.type}}
        = {<<d.type, d.id>> : d \in {x \in E : x.from = x.to /\ x.to = x.type}}
            \cup When(e.from = e.to /\ e.from = e.type, <<e.from, e.id>>)
  <2> DEFINE P(x) == <<x.type, x.id>>
             L(x) == x.from = x.to /\ x.to = x.type
  <2>1. (L(e) => P(e) = <<e.from, e.id>>) /\ (L(e) <=> e.from = e.to /\ e.from = e.type)
    OBVIOUS
  <2> HIDE DEF P, L
  <2>2. {P(d) : d \in {x \in F : L(x)}}
          = {P(d) : d \in {x \in E : L(x)}}
              \cup When(e.from = e.to /\ e.from = e.type, <<e.from, e.id>>)
    BY <2>1 DEF When
  <2> QED
    BY <2>2, Zenon DEF P, L
<1>6. {<<d.type, d.to, d.id>> : d \in {x \in F : x.from = x.type}}
        = {<<d.type, d.to, d.id>> : d \in {x \in E : x.from = x.type}}
            \cup When(e.from = e.type, <<e.from, e.to, e.id>>)
  <2> DEFINE P(x) == <<x.type, x.to, x.id>>
  <2>1. e.from = e.type => P(e) = <<e.from, e.to, e.id>>
    OBVIOUS
  <2> HIDE DEF P
  <2>2. {P(d) : d \in {x \in F : x.from = x.type}}
          = {P(d) : d \in {x \in E : x.from = x.type}}
              \cup When(e.from = e.type, <<e.from, e.to, e.id>>)
    BY <2>1 DEF When
  <2> QED
    BY <2>2, Zenon DEF P
<1>7. {<<d.type, d.from, d.id>> : d \in {x \in F : x.to = x.type}}
        = {<<d.type, d.from, d.id>> : d \in {x \in E : x.to = x.type}}
            \cup When(e.type = e.to, <<e.to, e.from, e.id>>)
  <2> DEFINE P(x) == <<x.type, x.from, x.id>>
  <2>1. e.type = e.to => P(e) = <<e.to, e.from, e.id>>
    OBVIOUS
  <2> HIDE DEF P
  <2>2. {P(d) : d \in {x \in F : x.to = x.type}}
          = {P(d) : d \in {x \in E : x.to = x.type}}
               \cup When(e.type = e.to, <<e.to, e.from, e.id>>)
    BY <2>1 DEF When
  <2> QED
    BY <2>2, Zenon DEF P
<1> QED
  BY <1>1, <1>2, <1>3, <1>4, <1>5, <1>6, <1>7, Zenon

LEMMA EdgePositive ==
  ASSUME Shapes, Positive, NEW e, catalog' = CountedEdge(e)
  PROVE  /\ DOMAIN catalog' = Fields
         /\ catalog'.connections_count = catalog.connections_count + 2
         /\ Positive'
<1> DEFINE counted == CountNodes(catalog, trees, EdgeNodes(e))
           Pos(map) == \A k \in DOMAIN map : map[k] \in Nat \ {0}
<1>1. /\ DOMAIN counted = Fields /\ counted.connections_count = catalog.connections_count
      /\ \A m \in Maps : counted[m] = catalog[m]
  BY CountNodesOnly
<1>2. catalog' = [counted EXCEPT
                    !.connections_count = @ + 2,
                    !.type2total_count = Bump(@, e.type),
                    !.distinct_type = KeysAfter(catalog.type2total_count, e.type),
                    !.equal_from_to_count = OneIf(e.from = e.to, @),
                    !.equal_from_to_type_count = OneIf(e.from = e.to /\ e.from = e.type, @),
                    !.equal_from_type_count = OneIf(e.from = e.type, @),
                    !.equal_to_type_count = OneIf(e.type = e.to, @),
                    !.type2equal_from_to_count = BumpIf(e.from = e.to, @, e.type),
                    !.type2equal_from_to_type_count =
                       BumpIf(e.from = e.to /\ e.from = e.type, @, e.type),
                    !.type2equal_from_type_count = BumpIf(e.from = e.type, @, e.type),
                    !.type2equal_to_type_count = BumpIf(e.type = e.to, @, e.type)]
  BY DEF CountedEdge
<1> HIDE DEF counted
<1>3. DOMAIN catalog' = Fields /\ catalog'.connections_count = catalog.connections_count + 2
  <2>1. "connections_count" \in Fields
    BY DEF Fields
  <2>2. catalog'.connections_count = counted.connections_count + 2
    BY <1>1, <1>2, <2>1
  <2>3. DOMAIN catalog' = DOMAIN counted
    BY <1>2, Zenon
  <2> QED
    BY <1>1, <2>2, <2>3
<1>4. /\ catalog'.type2total_count = Bump(catalog.type2total_count, e.type)
      /\ catalog'.type2equal_from_to_count =
           BumpIf(e.from = e.to, catalog.type2equal_from_to_count, e.type)
      /\ catalog'.type2equal_from_type_count =
           BumpIf(e.from = e.type, catalog.type2equal_from_type_count, e.type)
      /\ catalog'.type2equal_to_type_count =
           BumpIf(e.type = e.to, catalog.type2equal_to_type_count, e.type)
      /\ catalog'.type2equal_from_to_type_count =
           BumpIf(e.from = e.to /\ e.from = e.type, catalog.type2equal_from_to_type_count, e.type)
  <2>1. "type2equal_from_to_type_count" \in Maps
    BY DEF Maps
  <2> QED
    BY <1>1, <1>2, <2>1 DEF Fields, Maps
<1>5. /\ catalog'.label2total_count = catalog.label2total_count
      /\ catalog'.key2total_count = catalog.key2total_count
      /\ catalog'.key2distinct = catalog.key2distinct
  BY <1>1, <1>2 DEF Fields, Maps
<1>6. \A m \in Maps : Pos(catalog[m])
  BY DEF Positive
<1>7. ASSUME NEW map, Pos(map), NEW k PROVE Pos(Bump(map, k))
  BY <1>7, BumpPositive
<1>8. \A m \in Maps : Pos(catalog'[m])
  <2>1. /\ Pos(catalog.type2total_count) /\ Pos(catalog.type2equal_from_to_count)
        /\ Pos(catalog.type2equal_from_type_count) /\ Pos(catalog.type2equal_to_type_count)
        /\ Pos(catalog.type2equal_from_to_type_count)
        /\ Pos(catalog.label2total_count) /\ Pos(catalog.key2total_count)
        /\ Pos(catalog.key2distinct)
    <3> HIDE DEF Pos
    <3> QED
      BY <1>6 DEF Maps
  <2> HIDE DEF Pos
  <2>2. /\ Pos(catalog'.type2total_count) /\ Pos(catalog'.type2equal_from_to_count)
        /\ Pos(catalog'.type2equal_from_type_count) /\ Pos(catalog'.type2equal_to_type_count)
        /\ Pos(catalog'.type2equal_from_to_type_count)
    <3>1. /\ Pos(Bump(catalog.type2total_count, e.type))
          /\ Pos(Bump(catalog.type2equal_from_to_count, e.type))
          /\ Pos(Bump(catalog.type2equal_from_type_count, e.type))
          /\ Pos(Bump(catalog.type2equal_to_type_count, e.type))
          /\ Pos(Bump(catalog.type2equal_from_to_type_count, e.type))
      BY <1>7, <2>1
    <3> QED
      BY <1>4, <2>1, <3>1 DEF BumpIf
  <2>3. /\ Pos(catalog'.label2total_count) /\ Pos(catalog'.key2total_count)
        /\ Pos(catalog'.key2distinct)
    BY <1>5, <2>1, Zenon
  <2> QED
    BY <2>2, <2>3 DEF Maps
<1> QED
  BY <1>3, <1>8 DEF Positive

\* The edges of an INSERT, one by one.
LEMMA EdgeRound ==
  ASSUME QuadInv, InsertEdge
  PROVE  \E e \in EdgeRec :
           /\ e.id = catalog.connections_count + 1
           /\ Round(EdgeNodes(e), EdgeRecords(e) \o EqualRecords(e),
                    [todo EXCEPT !.edges = Tail(@)], CountedEdge(e))
           /\ edge_table' = Append(edge_table, <<e.from, e.to, e.type>>)
<1> USE DEF QuadInv
<1>1. Head(todo.edges) \in Triples
  <2>1. todo.edges \in Seq(Ids \X Ids \X Objects) /\ todo.edges # << >>
    BY DEF InsertEdge, Shapes, Inserts
  <2>2. Head(todo.edges) \in Ids \X Ids \X Objects
    BY <2>1
  <2> QED
    BY <2>2 DEF Triples, Ids
<1>2. NewEdge \in EdgeRec /\ NewEdge.id = catalog.connections_count + 1
  BY <1>1 DEF NewEdge, EdgeRec, Triples, Shapes
<1>3. /\ Round(EdgeNodes(NewEdge), EdgeRecords(NewEdge) \o EqualRecords(NewEdge),
               [todo EXCEPT !.edges = Tail(@)], CountedEdge(NewEdge))
      /\ edge_table' = Append(edge_table, <<NewEdge.from, NewEdge.to, NewEdge.type>>)
  BY Zenon DEF InsertEdge, CountedEdge
<1> QED
  BY <1>2, <1>3

\* The edge that was inserted is read back.
LEMMA EdgeReadBack ==
  ASSUME NEW e \in EdgeRec,
         trees'["from_to_type_edge"] = trees["from_to_type_edge"] \cup {FromToTypeEdge(e)}
  PROVE  Edges' = Edges \cup {e}
<1> DEFINE Of(r) == [from |-> r[1], to |-> r[2], type |-> r[3], id |-> r[4]]
<1>1. Of(FromToTypeEdge(e)) = e
  <2>1. e = [from |-> e.from, to |-> e.to, type |-> e.type, id |-> e.id]
    BY DEF EdgeRec
  <2> QED
    BY <2>1 DEF FromToTypeEdge
<1>2. /\ Edges = {Of(r) : r \in trees["from_to_type_edge"]}
      /\ Edges' = {Of(r) : r \in trees'["from_to_type_edge"]}
  BY DEF Edges
<1> HIDE DEF Of
<1> QED
  BY <1>1, <1>2

LEMMA EdgeStep ==
  ASSUME QuadInv, InsertEdge
  PROVE  QuadInv' /\ (Directed => Directed')
<1> USE DEF QuadInv
<1>1. PICK e \in EdgeRec :
        /\ e.id = catalog.connections_count + 1
        /\ Round(EdgeNodes(e), EdgeRecords(e) \o EqualRecords(e),
                 [todo EXCEPT !.edges = Tail(@)], CountedEdge(e))
        /\ edge_table' = Append(edge_table, <<e.from, e.to, e.type>>)
  BY EdgeRound, Zenon
<1>2. /\ UNCHANGED <<imported, catalog_file, sent, restarts, open>> /\ todo # Done
      /\ todo \in Inserts /\ todo.edges \in Seq(Ids \X Ids \X Objects) /\ todo.edges # << >>
  BY DEF InsertEdge, Shapes, Inserts, Done
<1> DEFINE rest == [todo EXCEPT !.edges = Tail(@)]
           counted == CountedEdge(e)
<1>3. rest \in Inserts
  <2>1. Tail(todo.edges) \in Seq(Ids \X Ids \X Objects)
    BY <1>2
  <2> QED
    BY <1>2, <2>1 DEF Inserts
<1>4. e.from \in Ids /\ e.to \in Ids /\ e.type \in Ids /\ e.id \in Nat
  BY DEF EdgeRec
<1>5. Round(EdgeNodes(e), EdgeRecords(e) \o EqualRecords(e), rest, counted)
  BY <1>1
<1> HIDE DEF rest, counted
<1>6. /\ DOMAIN trees' = Trees
      /\ trees'["nodes"] = trees["nodes"] \cup {<<o>> : o \in EdgeNodes(e)}
      /\ \A t \in {"label_node", "node_label", "object_key_value", "key_value_object"} :
           trees'[t] = trees[t]
      /\ trees'["type_from_to_edge"] = trees["type_from_to_edge"] \cup {TypeFromToEdge(e)}
      /\ trees'["type_to_from_edge"] = trees["type_to_from_edge"] \cup {TypeToFromEdge(e)}
      /\ trees'["from_to_type_edge"] = trees["from_to_type_edge"] \cup {FromToTypeEdge(e)}
      /\ trees'["to_type_from_edge"] = trees["to_type_from_edge"] \cup {ToTypeFromEdge(e)}
      /\ trees'["equal_from_to"] =
           trees["equal_from_to"] \cup When(e.from = e.to, <<e.from, e.type, e.id>>)
      /\ trees'["equal_from_to_inverted"] =
           trees["equal_from_to_inverted"] \cup When(e.from = e.to, <<e.type, e.from, e.id>>)
      /\ trees'["equal_from_to_type"] =
           trees["equal_from_to_type"] \cup When(e.from = e.to /\ e.from = e.type, <<e.from, e.id>>)
      /\ trees'["equal_from_type"] =
           trees["equal_from_type"] \cup When(e.from = e.type, <<e.from, e.to, e.id>>)
      /\ trees'["equal_from_type_inverted"] =
           trees["equal_from_type_inverted"] \cup When(e.from = e.type, <<e.to, e.from, e.id>>)
      /\ trees'["equal_to_type"] =
           trees["equal_to_type"] \cup When(e.type = e.to, <<e.to, e.from, e.id>>)
      /\ trees'["equal_to_type_inverted"] =
           trees["equal_to_type_inverted"] \cup When(e.type = e.to, <<e.from, e.to, e.id>>)
      /\ catalog' = counted /\ todo' = rest
  BY <1>1, <1>5, RoundOfEdge
<1>7. /\ DOMAIN catalog' = Fields
      /\ catalog'.connections_count = catalog.connections_count + 2
      /\ Positive'
  BY <1>6, EdgePositive DEF counted
<1>8. PICK n \in Nat : catalog.connections_count = n
  BY DEF Shapes
<1>9. e.id = n + 1 /\ catalog'.connections_count = n + 2
  BY <1>1, <1>7, <1>8
<1>10. Edges' = Edges \cup {e}
  BY <1>6, EdgeReadBack
<1>11. Shapes'
  <2>1. <<e.from, e.to, e.type>> \in Triples
    BY <1>4 DEF Triples
  <2>2. edge_table' \in Seq(Triples)
    BY <1>1, <2>1 DEF Shapes
  <2>3. catalog'.connections_count \in Nat
    BY <1>8, <1>9
  <2> QED
    BY <1>2, <1>3, <1>6, <1>7, <2>2, <2>3 DEF Shapes
<1>12. Typed'
  <2>1. FromToTypeEdge(e) \in Quads
    BY <1>4 DEF FromToTypeEdge, Quads
  <2>2. trees'["nodes"] \subseteq {<<o>> : o \in Ids}
    BY <1>4, <1>6 DEF EdgeNodes, Typed
  <2> QED
    BY <1>6, <2>1, <2>2 DEF Typed
<1>13. Closed'
  BY <1>2 DEF Closed, InsertEdge
<1>14. Given'
  <2>1. /\ \A t \in QuadTrees : \A r \in trees[t] : r[4] \in 0 .. n
        /\ \A t \in EqualTrees : \A r \in trees[t] : r[3] \in 0 .. n
        /\ \A r \in trees["equal_from_to_type"] : r[2] \in 0 .. n
    BY <1>8 DEF Given
  <2>2. e.id \in 0 .. n + 2 /\ \A i \in 0 .. n : i \in 0 .. n + 2
    BY <1>8, <1>9
  <2>3. \A t \in QuadTrees : \A r \in trees'[t] : r \in trees[t] \/ r[4] = e.id
    BY <1>6 DEF QuadTrees, TypeFromToEdge, TypeToFromEdge, FromToTypeEdge, ToTypeFromEdge
  <2>4. \A t \in EqualTrees : \A r \in trees'[t] : r \in trees[t] \/ r[3] = e.id
    BY <1>6 DEF EqualTrees, When
  <2>5. \A r \in trees'["equal_from_to_type"] : r \in trees["equal_from_to_type"] \/ r[2] = e.id
    BY <1>6 DEF When
  <2>6. /\ \A t \in QuadTrees : \A r \in trees'[t] : r[4] \in 0 .. n + 2
        /\ \A t \in EqualTrees : \A r \in trees'[t] : r[3] \in 0 .. n + 2
        /\ \A r \in trees'["equal_from_to_type"] : r[2] \in 0 .. n + 2
    BY <2>1, <2>2, <2>3, <2>4, <2>5
  <2> QED
    BY <1>9, <2>6 DEF Given
<1>15. Distinct'
  <2>1. \A r \in trees["from_to_type_edge"] : r[4] # e.id
    BY <1>8, <1>9 DEF Given, QuadTrees
  <2>2. FromToTypeEdge(e)[4] = e.id
    BY DEF FromToTypeEdge
  <2> QED
    BY <1>6, <2>1, <2>2 DEF Distinct
<1>16. Pairs'
  BY <1>6 DEF Pairs
<1>17. Known'
  <2>1. /\ <<e.from>> \in trees'["nodes"] /\ <<e.to>> \in trees'["nodes"]
        /\ <<e.type>> \in trees'["nodes"]
    BY <1>6 DEF EdgeNodes
  <2>2. \A r \in trees["nodes"] : r \in trees'["nodes"]
    BY <1>6
  <2>3. \A r \in trees'["from_to_type_edge"] :
          /\ <<r[1]>> \in trees'["nodes"] /\ <<r[2]>> \in trees'["nodes"]
          /\ <<r[3]>> \in trees'["nodes"]
    <3> TAKE r \in trees'["from_to_type_edge"]
    <3>1. CASE r \in trees["from_to_type_edge"]
      BY <2>2, <3>1 DEF Known
    <3>2. CASE r = FromToTypeEdge(e)
      <4>1. r[1] = e.from /\ r[2] = e.to /\ r[3] = e.type
        BY <3>2 DEF FromToTypeEdge
      <4> QED
        BY <2>1, <4>1
    <3> QED
      BY <1>6, <3>1, <3>2
  <2>4. /\ \A r \in trees'["node_label"] :
             r \in Lines(imported'.labels) \/ <<r[1]>> \in trees'["nodes"]
        /\ \A r \in trees'["object_key_value"] :
             r \in Lines(imported'.properties) \/ <<r[1]>> \in trees'["nodes"]
    BY <1>2, <1>6, <2>2 DEF Known
  <2> QED
    BY <2>3, <2>4 DEF Known
<1> DEFINE P1(S) == {<<x.to, x.type, x.from, x.id>> : x \in S}
           P2(S) == {<<x.type, x.from, x.to, x.id>> : x \in S}
           P3(S) == {<<x.type, x.to, x.from, x.id>> : x \in S}
           P4(S) == {<<d.to, d.type, d.id>> : d \in {x \in S : x.from = x.to}}
           P5(S) == {<<d.type, d.id>> : d \in {x \in S : x.from = x.to /\ x.to = x.type}}
           P6(S) == {<<d.type, d.to, d.id>> : d \in {x \in S : x.from = x.type}}
           P7(S) == {<<d.type, d.from, d.id>> : d \in {x \in S : x.to = x.type}}
<1>18. LET F == Edges \cup {e}
       IN  /\ P1(F) = P1(Edges) \cup {ToTypeFromEdge(e)}
           /\ P2(F) = P2(Edges) \cup {TypeFromToEdge(e)}
           /\ P3(F) = P3(Edges) \cup {TypeToFromEdge(e)}
           /\ P4(F) = P4(Edges) \cup When(e.from = e.to, <<e.from, e.type, e.id>>)
           /\ P5(F) = P5(Edges) \cup When(e.from = e.to /\ e.from = e.type, <<e.from, e.id>>)
           /\ P6(F) = P6(Edges) \cup When(e.from = e.type, <<e.from, e.to, e.id>>)
           /\ P7(F) = P7(Edges) \cup When(e.type = e.to, <<e.to, e.from, e.id>>)
  BY EdgeMore, Zenon DEF ToTypeFromEdge, TypeFromToEdge, TypeToFromEdge
<1>19. Orders' /\ Coincide'
  <2>1. /\ trees["to_type_from_edge"] = P1(Edges) /\ trees["type_from_to_edge"] = P2(Edges)
        /\ trees["type_to_from_edge"] = P3(Edges) /\ trees["equal_from_to"] = P4(Edges)
        /\ trees["equal_from_to_type"] = P5(Edges)
    BY Zenon DEF Orders, Coincide
  <2>2. /\ trees'["to_type_from_edge"] = P1(Edges') /\ trees'["type_from_to_edge"] = P2(Edges')
        /\ trees'["type_to_from_edge"] = P3(Edges') /\ trees'["equal_from_to"] = P4(Edges')
        /\ trees'["equal_from_to_type"] = P5(Edges')
    <3> HIDE DEF P1, P2, P3, P4, P5
    <3> QED
      BY <1>6, <1>10, <1>18, <2>1, Zenon
  <2> DEFINE P(r) == <<r[2], r[1], r[3]>>
  <2>3. /\ P(<<e.from, e.type, e.id>>) = <<e.type, e.from, e.id>>
        /\ P(<<e.from, e.to, e.id>>) = <<e.to, e.from, e.id>>
        /\ P(<<e.to, e.from, e.id>>) = <<e.from, e.to, e.id>>
    OBVIOUS
  <2>4. /\ trees["equal_from_to_inverted"] = {P(r) : r \in trees["equal_from_to"]}
        /\ trees["equal_from_type_inverted"] = {P(r) : r \in trees["equal_from_type"]}
        /\ trees["equal_to_type_inverted"] = {P(r) : r \in trees["equal_to_type"]}
    BY Zenon DEF Coincide, Swapped
  <2>5. /\ trees'["equal_from_to_inverted"] = {P(r) : r \in trees'["equal_from_to"]}
        /\ trees'["equal_from_type_inverted"] = {P(r) : r \in trees'["equal_from_type"]}
        /\ trees'["equal_to_type_inverted"] = {P(r) : r \in trees'["equal_to_type"]}
    <3> HIDE DEF P
    <3>1. trees'["equal_from_to_inverted"] = {P(r) : r \in trees'["equal_from_to"]}
      BY <1>6, <2>3, <2>4 DEF When
    <3>2. trees'["equal_from_type_inverted"] = {P(r) : r \in trees'["equal_from_type"]}
      BY <1>6, <2>3, <2>4 DEF When
    <3>3. trees'["equal_to_type_inverted"] = {P(r) : r \in trees'["equal_to_type"]}
      BY <1>6, <2>3, <2>4 DEF When
    <3> QED
      BY <3>1, <3>2, <3>3
  <2>6. /\ trees'["equal_from_to_inverted"] = Swapped(trees'["equal_from_to"])
        /\ trees'["equal_from_type_inverted"] = Swapped(trees'["equal_from_type"])
        /\ trees'["equal_to_type_inverted"] = Swapped(trees'["equal_to_type"])
    BY <2>5, Zenon DEF Swapped
  <2> QED
    BY <2>2, <2>6, Zenon DEF Orders, Coincide
<1>20. Directed => Directed'
  <2> SUFFICES ASSUME Directed PROVE Directed'
    OBVIOUS
  <2>1. trees["equal_from_type"] = P6(Edges) /\ trees["equal_to_type"] = P7(Edges)
    BY Zenon DEF Directed
  <2>2. trees'["equal_from_type"] = P6(Edges') /\ trees'["equal_to_type"] = P7(Edges')
    <3> HIDE DEF P6, P7
    <3> QED
      BY <1>6, <1>10, <1>18, <2>1, Zenon
  <2> QED
    BY <2>2, Zenon DEF Directed
<1>21. Finite'
  <2>1. \A t \in Trees : IsFiniteSet(trees[t])
    BY DEF Finite
  <2>2. ASSUME NEW S, IsFiniteSet(S), NEW x PROVE IsFiniteSet(S \cup {x})
    BY <2>2, FS_AddElement
  <2>3. ASSUME NEW S, IsFiniteSet(S), NEW c, NEW x PROVE IsFiniteSet(S \cup When(c, x))
    <3>1. S \cup {} = S
      OBVIOUS
    <3> QED
      BY <2>2, <2>3, <3>1 DEF When
  <2>4. IsFiniteSet(trees'["nodes"])
    <3>1. trees'["nodes"] = ((trees["nodes"] \cup {<<e.from>>}) \cup {<<e.to>>}) \cup {<<e.type>>}
      BY <1>6 DEF EdgeNodes
    <3>2. IsFiniteSet(trees["nodes"])
      BY <2>1 DEF Trees
    <3>3. IsFiniteSet(trees["nodes"] \cup {<<e.from>>})
      BY <2>2, <3>2
    <3>4. IsFiniteSet((trees["nodes"] \cup {<<e.from>>}) \cup {<<e.to>>})
      BY <2>2, <3>3
    <3>5. IsFiniteSet(((trees["nodes"] \cup {<<e.from>>}) \cup {<<e.to>>}) \cup {<<e.type>>})
      BY <2>2, <3>4, Zenon
    <3> QED
      BY <3>1, <3>5, Zenon
  <2>5. ASSUME NEW t \in {"label_node", "node_label", "object_key_value", "key_value_object"}
        PROVE  IsFiniteSet(trees'[t])
    BY <1>6, <2>1 DEF Trees
  <2>6. ASSUME NEW t \in QuadTrees PROVE IsFiniteSet(trees'[t])
    <3>1. PICK x : trees'[t] = trees[t] \cup {x}
      BY <1>6 DEF QuadTrees
    <3>2. IsFiniteSet(trees[t])
      BY <2>1 DEF QuadTrees, Trees
    <3> QED
      BY <2>2, <3>1, <3>2, Zenon
  <2>7. ASSUME NEW t \in EqualTrees \cup {"equal_from_to_type"} PROVE IsFiniteSet(trees'[t])
    <3>1. PICK c, x : trees'[t] = trees[t] \cup When(c, x)
      BY <1>6 DEF EqualTrees
    <3> QED
      BY <2>1, <2>3, <3>1 DEF EqualTrees, Trees
  <2>8. ASSUME NEW t \in Trees PROVE IsFiniteSet(trees'[t])
    BY <2>4, <2>5, <2>6, <2>7 DEF Trees, QuadTrees, EqualTrees
  <2> QED
    BY <2>8 DEF Finite
<1> QED
  BY <1>7, <1>11, <1>12, <1>13, <1>14, <1>15, <1>16, <1>17, <1>19, <1>20, <1>21

LEMMA StepInv == QuadInv /\ [Next]_vars => QuadInv' /\ (Directed => Directed')
<1> SUFFICES ASSUME QuadInv, [Next]_vars PROVE QuadInv' /\ (Directed => Directed')
  OBVIOUS
<1>1. CASE UNCHANGED vars
  <2>1. UNCHANGED <<imported, trees, edge_table, catalog, catalog_file, todo, sent, restarts,
                    open>>
    BY <1>1 DEF vars
  <2>2. Given' /\ Distinct' /\ Orders' /\ Coincide' /\ (Directed => Directed')
    BY <2>1, EdgesKept DEF QuadInv
  <2>3. Shapes' /\ Typed' /\ Closed' /\ Pairs' /\ Known' /\ Finite' /\ Positive'
    BY <2>1 DEF QuadInv, Shapes, Typed, Closed, Pairs, Known, Finite, Positive
  <2> QED
    BY <2>2, <2>3 DEF QuadInv
<1>2. CASE \E s \in Statements : Start(s)
  BY <1>2, StartStep
<1>3. CASE InsertLabel
  BY <1>3, LabelStep
<1>4. CASE InsertProperty
  BY <1>4, PropertyStep
<1>5. CASE InsertEdge
  BY <1>5, EdgeStep
<1>6. CASE Close
  BY <1>6, CloseStep
<1>7. CASE Open
  BY <1>7, OpenStep
<1> QED
  BY <1>1, <1>2, <1>3, <1>4, <1>5, <1>6, <1>7 DEF Next

-----------------------------------------------------------------------------
(* Theorems.                                                                *)

\* The inductive invariant of the quad model: for every import, every sequence
\* of INSERTs, cut off or not, and every restart.
THEOREM QuadInvariant == Spec => []QuadInv
<1>1. Init => QuadInv
  BY InitInv
<1>2. QuadInv /\ [Next]_vars => QuadInv'
  BY StepInv
<1> QED
  BY <1>1, <1>2, PTL DEF Spec

\* exec_inserts gives every edge an id of its own, and the next id is new, also
\* after ~QuadModel saved the catalog and a new process read it.
THEOREM IdsFresh == Spec => []EdgeIdsFresh
<1>1. QuadInv => EdgeIdsFresh
  <2> SUFFICES ASSUME QuadInv PROVE EdgeIdsFresh
    OBVIOUS
  <2>1. \A e \in Edges : \E r \in trees["from_to_type_edge"] :
          e = [from |-> r[1], to |-> r[2], type |-> r[3], id |-> r[4]]
    BY DEF Edges
  <2>2. ASSUME NEW d \in Edges, NEW e \in Edges, d.id = e.id PROVE d = e
    <3>1. PICK r \in trees["from_to_type_edge"] :
            d = [from |-> r[1], to |-> r[2], type |-> r[3], id |-> r[4]]
      BY <2>1
    <3>2. PICK s \in trees["from_to_type_edge"] :
            e = [from |-> s[1], to |-> s[2], type |-> s[3], id |-> s[4]]
      BY <2>1
    <3>3. r = s
      BY <2>2, <3>1, <3>2 DEF QuadInv, Distinct
    <3> QED
      BY <3>1, <3>2, <3>3
  <2>3. ASSUME NEW e \in Edges PROVE e.id <= catalog.connections_count
    BY <2>1 DEF QuadInv, Given, QuadTrees, Shapes
  <2> QED
    BY <2>2, <2>3 DEF EdgeIdsFresh
<1> QED
  BY <1>1, QuadInvariant, PTL

\* The ends and the type of every edge are in the tree of the nodes, and so is
\* what an INSERT gave a label or a property: try_add_node comes before the
\* inserts that may be refused.
THEOREM MentionedKnown == Spec => []NodesKnown
<1>1. QuadInv => NodesKnown
  <2> SUFFICES ASSUME QuadInv PROVE NodesKnown
    OBVIOUS
  <2>1. ASSUME NEW e \in Edges
        PROVE  {<<e.from>>, <<e.to>>, <<e.type>>} \subseteq trees["nodes"]
    <3>1. PICK r \in trees["from_to_type_edge"] : e.from = r[1] /\ e.to = r[2] /\ e.type = r[3]
      BY DEF Edges
    <3> QED
      BY <3>1 DEF QuadInv, Known
  <2> QED
    BY <2>1 DEF QuadInv, Known, NodesKnown
<1> QED
  BY <1>1, QuadInvariant, PTL

\* No line of a file has its second id, and not its first, as the type.
ImportsInOrder ==
  \A f \in Imports : \A i \in DOMAIN f.edges :
    f.edges[i].id2 = f.edges[i].type => f.edges[i].id1 = f.edges[i].id2

LEMMA InitDirected == ImportsInOrder /\ Init => Directed
<1> SUFFICES ASSUME ImportsInOrder, Init PROVE Directed
  OBVIOUS
<1>1. PICK f \in Imports : trees = ImportedTrees(f)
  BY DEF Init
<1> DEFINE D == DOMAIN f.edges
           l(i) == f.edges[i]
           e(i) == ImportedEdge(f, i)
<1>2. /\ trees["equal_from_type"] = UNION {ImportedEqual(f, i)["from_type"] : i \in D}
      /\ trees["equal_to_type"] = UNION {ImportedEqual(f, i)["to_type"] : i \in D}
  BY <1>1, ImportedAll
<1>3. Edges = {e(i) : i \in D}
  BY <1>1, ImportedBack DEF ImportedEdges
<1>4. ASSUME NEW i \in D, NEW r
      PROVE  /\ r \in ImportedEqual(f, i)["from_type"] <=>
                  e(i).from = e(i).type /\ r = <<e(i).type, e(i).to, e(i).id>>
             /\ r \in ImportedEqual(f, i)["to_type"] <=>
                  e(i).to = e(i).type /\ r = <<e(i).type, e(i).from, e(i).id>>
  <2>1. /\ r \in ImportedEqual(f, i)["from_type"] <=>
             /\ IF l(i).direction THEN l(i).id1 = l(i).type ELSE l(i).id2 = l(i).type
             /\ r = <<l(i).id1, l(i).id2, i>>
        /\ r \in ImportedEqual(f, i)["to_type"] <=>
             /\ IF l(i).direction THEN l(i).id2 = l(i).type ELSE l(i).id1 = l(i).type
             /\ r = <<l(i).id1, l(i).id2, i>>
    BY ImportedRecords
  <2>2. /\ l(i).direction \in BOOLEAN /\ e(i).id = i /\ e(i).type = l(i).type
        /\ l(i).direction => e(i).from = l(i).id1 /\ e(i).to = l(i).id2
        /\ ~l(i).direction => e(i).from = l(i).id2 /\ e(i).to = l(i).id1
    BY ImportedLine
  <2>3. l(i).id2 = l(i).type => l(i).id1 = l(i).id2
    BY DEF ImportsInOrder
  <2> HIDE DEF l, e
  <2>4. CASE l(i).direction
    BY <2>1, <2>2, <2>3, <2>4
  <2>5. CASE ~l(i).direction
    BY <2>1, <2>2, <2>3, <2>5
  <2> QED
    BY <2>4, <2>5
<1> HIDE DEF D, l, e
<1>5. trees["equal_from_type"] = {<<d.type, d.to, d.id>> : d \in {x \in Edges : x.from = x.type}}
  BY <1>2, <1>3, <1>4
<1>6. trees["equal_to_type"] = {<<d.type, d.from, d.id>> : d \in {x \in Edges : x.to = x.type}}
  BY <1>2, <1>3, <1>4
<1> QED
  BY <1>5, <1>6 DEF Directed

\* Every index tells the same graph, also after an INSERT that was cut off.  The
\* condition is on the files only: save_edge_type writes the records of a line
\* in the order of the line, which is not the order in which an index of the
\* edges whose type is an end is read.
THEOREM IndexesSame == ASSUME ImportsInOrder PROVE Spec => []IndexesAgree
<1>1. Init => QuadInv /\ Directed
  BY InitInv, InitDirected
<1>2. (QuadInv /\ Directed) /\ [Next]_vars => (QuadInv /\ Directed)'
  BY StepInv
<1>3. QuadInv /\ Directed => IndexesAgree
  <2> SUFFICES ASSUME QuadInv, Directed PROVE IndexesAgree
    OBVIOUS
  <2>1. TypeOK
    <3>1. \A r \in trees["nodes"] : r = <<r[1]>> /\ r[1] \in Ids
      BY DEF QuadInv, Typed
    <3> QED
      BY <3>1 DEF QuadInv, Shapes, Typed, Positive, TypeOK, Triples, Quads
  <2> QED
    BY <2>1 DEF QuadInv, Pairs, Orders, Coincide, Directed, IndexesAgree
<1> QED
  BY <1>1, <1>2, <1>3, PTL DEF Spec

=============================================================================

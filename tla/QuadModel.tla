----------------------------- MODULE QuadModel ------------------------------
(***************************************************************************)
(* The quad graph model (query_optimizer/quad_model): the B+ trees that    *)
(* hold one graph in several orders, the table of edges and the catalog    *)
(* with its counts.  import/quad_model builds them from a file; an INSERT  *)
(* adds labels, properties and edges one at a time (exec_inserts), and     *)
(* stops where a B+ tree refuses a record that it already has: what was    *)
(* inserted before stays.  An INSERT runs alone (module Server).           *)
(*                                                                         *)
(* A B+ tree is the set of its records (module BPlusTree), the table of    *)
(* edges a sequence, an id the object it stands for.  The import writes a  *)
(* record once for each line that has it: these copies (Copies) stay for   *)
(* good, and an INSERT adds none, since a tree refuses what it has.        *)
(***************************************************************************)
EXTENDS Integers, Sequences, FiniteSets

CONSTANTS
  Objects,        \* ids of nodes and of literals; an edge has a number
  Anon,           \* those with MASK_ANON
  Labels, Keys, Values,
  Imports,        \* the files that may be imported
  Statements,     \* the INSERTs that clients may send
  MaxStatements,  \* bound: how many they send
  MaxRestarts     \* bound: how often the database is closed and opened

Ids == Objects \cup Nat

\* What an INSERT may mention: insertLabelElement, insertPropertyElement and
\* insertEdgeElement of the grammar.
Inserts == [labels : Seq(Objects \X Labels), properties : Seq(Ids \X Keys \X Values),
            edges : Seq(Ids \X Ids \X Objects)]

\* A file has node lines, labels, properties of nodes and of edges, and lines
\* with an edge between two ids, in either direction, of which the first may be
\* an edge.  A line that turns out wrong leaves the labels and properties read
\* so far, and declares no node.  `anonymous` is the greatest number of an
\* anonymous id on any line.
Files == [nodes : Seq(Objects), labels : Seq(Objects \X Labels),
          properties : Seq(Ids \X Keys \X Values),
          edges : Seq([id1 : Ids, id2 : Objects, type : Objects \ Anon, direction : BOOLEAN]),
          anonymous : Nat]

ASSUME QuadAssumption ==
  /\ Anon \subseteq Objects
  /\ \A f \in Imports : f \in Files
  /\ \A s \in Statements : s \in Inserts
  /\ MaxStatements \in Nat /\ MaxRestarts \in Nat

VARIABLES
  imported,      \* the file of the import
  trees,         \* trees[t]: the records of B+ tree t
  edge_table,    \* edges.table
  catalog,       \* QuadCatalog
  catalog_file,  \* catalog.dat
  todo,          \* what is left of the INSERT, or Done
  sent,          \* statements sent
  restarts, open

vars == <<imported, trees, edge_table, catalog, catalog_file, todo, sent, restarts, open>>

Trees == {"nodes", "label_node", "node_label", "object_key_value", "key_value_object",
          "from_to_type_edge", "to_type_from_edge", "type_from_to_edge", "type_to_from_edge",
          "equal_from_to", "equal_from_to_inverted", "equal_from_type",
          "equal_from_type_inverted", "equal_to_type", "equal_to_type_inverted",
          "equal_from_to_type"}

Done == [labels |-> << >>, properties |-> << >>, edges |-> << >>]

-----------------------------------------------------------------------------
(* The orders of the trees.                                                 *)

FromToTypeEdge(e) == <<e.from, e.to, e.type, e.id>>
ToTypeFromEdge(e) == <<e.to, e.type, e.from, e.id>>
TypeFromToEdge(e) == <<e.type, e.from, e.to, e.id>>
TypeToFromEdge(e) == <<e.type, e.to, e.from, e.id>>

\* How many records of S have v in their first column, as a map of the values
\* that occur.
CountBy(S) ==
  [v \in {r[1] : r \in S} |-> Cardinality({r \in S : r[1] = v})]

\* The tuples of a DiskVector, each with its place, the column c first.
Tuples(lines, c) == {<<lines[i][c], i, lines[i]>> : i \in DOMAIN lines}
Lines(lines) == {lines[i] : i \in DOMAIN lines}

\* robin_hood's map[k]++, where a key that is not in the map counts as 0.
Counts(map, k) == IF k \in DOMAIN map THEN map[k] ELSE 0
Bump(map, k) ==
  [x \in DOMAIN map \cup {k} |-> IF x = k THEN Counts(map, x) + 1 ELSE Counts(map, x)]

\* The size of the map afterwards.
KeysAfter(map, k) == Cardinality(DOMAIN map \cup {k})

-----------------------------------------------------------------------------
(* The import of a file.  Edge i gets the id i and row i of the table.      *)

ImportedEdge(f, i) ==
  LET l == f.edges[i]
  IN  [from |-> IF l.direction THEN l.id1 ELSE l.id2,
       to |-> IF l.direction THEN l.id2 ELSE l.id1, type |-> l.type, id |-> i]

\* save_edge_type gives the records of the equal_ trees in the order of the
\* line, not of the edge.
ImportedEqual(f, i) ==
  LET l == f.edges[i]
      record == <<l.id1, l.id2, i>>
      If(c, r) == IF c THEN {r} ELSE {}
  IN  [from_to |-> If(l.id1 = l.id2, <<l.id1, l.type, i>>),
       from_to_type |-> If(l.id1 = l.id2 /\ l.id1 = l.type, <<l.id1, i>>),
       from_type |-> If(IF l.direction THEN l.id1 = l.type ELSE l.id2 = l.type, record),
       to_type |-> If(IF l.direction THEN l.id2 = l.type ELSE l.id1 = l.type, record)]

Swapped(S) == {<<r[2], r[1], r[3]>> : r \in S}

ImportedTrees(f) ==
  LET E == {ImportedEdge(f, i) : i \in DOMAIN f.edges}
      Equal(name) == UNION {ImportedEqual(f, i)[name] : i \in DOMAIN f.edges}
  IN  [t \in Trees |->
         CASE t = "nodes" ->
                {<<n>> : n \in Lines(f.nodes) \cup UNION {{e.from, e.to, e.type} : e \in E}}
           [] t = "node_label" -> Lines(f.labels)
           [] t = "label_node" -> {<<r[2], r[1]>> : r \in Lines(f.labels)}
           [] t = "object_key_value" -> Lines(f.properties)
           [] t = "key_value_object" -> {<<r[2], r[3], r[1]>> : r \in Lines(f.properties)}
           [] t = "from_to_type_edge" -> {FromToTypeEdge(e) : e \in E}
           [] t = "to_type_from_edge" -> {ToTypeFromEdge(e) : e \in E}
           [] t = "type_from_to_edge" -> {TypeFromToEdge(e) : e \in E}
           [] t = "type_to_from_edge" -> {TypeToFromEdge(e) : e \in E}
           [] t = "equal_from_to" -> Equal("from_to")
           [] t = "equal_from_to_inverted" -> Swapped(Equal("from_to"))
           [] t = "equal_from_type" -> Equal("from_type")
           [] t = "equal_from_type_inverted" -> Swapped(Equal("from_type"))
           [] t = "equal_to_type" -> Equal("to_type")
           [] t = "equal_to_type_inverted" -> Swapped(Equal("to_type"))
           [] t = "equal_from_to_type" -> Equal("from_to_type")]

\* nodes_set has the nodes, anonymous ones too; a DiskVector counts every tuple.
ImportedCatalog(f, ts) ==
  LET Distinct(S, c) == Cardinality({r[c] : r \in S})
  IN  [identifiable_nodes_count |-> Cardinality(ts["nodes"]),
       anonymous_nodes_count |-> f.anonymous,
       connections_count |-> Len(f.edges),
       label_count |-> Len(f.labels),
       properties_count |-> Len(f.properties),
       distinct_labels |-> Cardinality(DOMAIN CountBy(Tuples(f.labels, 2))),
       distinct_keys |-> Cardinality(DOMAIN CountBy(Tuples(f.properties, 2))),
       distinct_from |-> Distinct(ts["from_to_type_edge"], 1),
       distinct_to |-> Distinct(ts["to_type_from_edge"], 1),
       distinct_type |-> Cardinality(DOMAIN CountBy(ts["type_from_to_edge"])),
       equal_from_to_count |-> Cardinality(ts["equal_from_to"]),
       equal_from_type_count |-> Cardinality(ts["equal_from_type"]),
       equal_to_type_count |-> Cardinality(ts["equal_to_type"]),
       equal_from_to_type_count |-> Cardinality(ts["equal_from_to_type"]),
       label2total_count |-> CountBy(Tuples(f.labels, 2)),
       key2total_count |-> CountBy(Tuples(f.properties, 2)),
       key2distinct |-> CountBy({<<r[1], r[2]>> : r \in ts["key_value_object"]}),
       type2total_count |-> CountBy(ts["type_from_to_edge"]),
       type2equal_from_to_count |-> CountBy(ts["equal_from_to_inverted"]),
       type2equal_from_type_count |-> CountBy(ts["equal_from_type"]),
       type2equal_to_type_count |-> CountBy(ts["equal_to_type"]),
       type2equal_from_to_type_count |-> CountBy(ts["equal_from_to_type"])]

Init ==
  /\ imported \in Imports
  /\ trees = ImportedTrees(imported)
  /\ edge_table = [i \in DOMAIN imported.edges |->
                     LET e == ImportedEdge(imported, i) IN <<e.from, e.to, e.type>>]
  /\ catalog = ImportedCatalog(imported, trees)
  /\ catalog_file = ImportedCatalog(imported, trees)
  /\ todo = Done
  /\ sent = 0 /\ restarts = 0 /\ open = TRUE

-----------------------------------------------------------------------------
(* exec_inserts.                                                            *)

\* BPlusTree::insert throws LogicException when the tree has the record.  The
\* inserts that recs lists are done in order up to the first one that throws.
Refused(ts, recs) == {i \in DOMAIN recs : recs[i].record \in ts[recs[i].tree]}

InsertAll(ts, recs) ==
  LET done == {i \in DOMAIN recs : \A j \in Refused(ts, recs) : i < j}
  IN  [t \in Trees |-> ts[t] \cup {recs[i].record : i \in {j \in done : recs[j].tree = t}}]

Rec(t, r) == [tree |-> t, record |-> r]

\* try_add_node for each of the objects, which catches the exception.
AddNodes(ts, objects) == [ts EXCEPT !["nodes"] = @ \cup {<<o>> : o \in objects}]

CountNodes(cat, ts, objects) ==
  LET new == {o \in objects : <<o>> \notin ts["nodes"]}
  IN  [cat EXCEPT !.anonymous_nodes_count = @ + Cardinality(new \cap Anon),
                  !.identifiable_nodes_count = @ + Cardinality(new \ Anon)]

\* Mutant: the counts go up before the trees are asked.
RoundCountsFirst(objects, recs, rest, counted) ==
  /\ trees' = InsertAll(AddNodes(trees, objects), recs)
  /\ catalog' = counted
  /\ todo' = IF Refused(trees, recs) = {} THEN rest ELSE Done

\* One round of a loop adds the nodes, inserts recs, and goes on with `rest` and
\* the counts of `counted`, or leaves exec_inserts at the first refusal.
Round(objects, recs, rest, counted) ==
  /\ trees' = InsertAll(AddNodes(trees, objects), recs)
  /\ IF Refused(trees, recs) = {}
       THEN catalog' = counted /\ todo' = rest
       ELSE catalog' = CountNodes(catalog, trees, objects) /\ todo' = Done

Start(s) ==
  /\ open /\ todo = Done /\ sent < MaxStatements
  /\ todo' = s
  /\ sent' = sent + 1
  /\ UNCHANGED <<imported, trees, edge_table, catalog, catalog_file, restarts, open>>

CountedLabel(node, label) ==
  [CountNodes(catalog, trees, {node}) EXCEPT
     !.label_count = @ + 1, !.label2total_count = Bump(@, label),
     !.distinct_labels = KeysAfter(catalog.label2total_count, label)]

InsertLabel ==
  /\ todo.labels # << >>
  /\ LET node == Head(todo.labels)[1]
         label == Head(todo.labels)[2]
     IN  Round({node},
               <<Rec("label_node", <<label, node>>), Rec("node_label", <<node, label>>)>>,
               [todo EXCEPT !.labels = Tail(@)],
               CountedLabel(node, label))
  /\ UNCHANGED <<imported, edge_table, catalog_file, sent, restarts, open>>

\* The range that decides on key2distinct has the record just inserted, so it
\* is never empty.
CountedProperty(obj, key) ==
  [CountNodes(catalog, trees, {obj}) EXCEPT
     !.properties_count = @ + 1,
     !.key2total_count = Bump(@, key), !.key2distinct = Bump(@, key),
     !.distinct_keys = KeysAfter(catalog.key2total_count, key)]

InsertProperty ==
  /\ todo.labels = << >> /\ todo.properties # << >>
  /\ LET obj == Head(todo.properties)[1]
         key == Head(todo.properties)[2]
         value == Head(todo.properties)[3]
     IN  Round({obj},
               <<Rec("key_value_object", <<key, value, obj>>),
                 Rec("object_key_value", <<obj, key, value>>)>>,
               [todo EXCEPT !.properties = Tail(@)],
               CountedProperty(obj, key))
  /\ UNCHANGED <<imported, edge_table, catalog_file, sent, restarts, open>>

EdgeRecords(e) ==
  <<Rec("type_from_to_edge", TypeFromToEdge(e)), Rec("type_to_from_edge", TypeToFromEdge(e)),
    Rec("from_to_type_edge", FromToTypeEdge(e)), Rec("to_type_from_edge", ToTypeFromEdge(e))>>

\* Mutant: the case is looked at only when from is not the type.
ToIsTypeElse(e) == e.type = e.to /\ e.from # e.type
ToIsType(e) == e.type = e.to

EqualRecords(e) ==
  (IF e.from # e.to THEN << >>
   ELSE <<Rec("equal_from_to", <<e.from, e.type, e.id>>),
          Rec("equal_from_to_inverted", <<e.type, e.from, e.id>>)>>)
  \o (IF e.from # e.to \/ e.from # e.type THEN << >>
      ELSE <<Rec("equal_from_to_type", <<e.from, e.id>>)>>)
  \o (IF e.from # e.type THEN << >>
      ELSE <<Rec("equal_from_type", <<e.from, e.to, e.id>>),
             Rec("equal_from_type_inverted", <<e.to, e.from, e.id>>)>>)
  \o (IF ~ ToIsType(e) THEN << >>
      ELSE <<Rec("equal_to_type", <<e.to, e.from, e.id>>),
             Rec("equal_to_type_inverted", <<e.from, e.to, e.id>>)>>)

BumpIf(cond, map, k) == IF cond THEN Bump(map, k) ELSE map
OneIf(cond, n) == IF cond THEN n + 1 ELSE n

\* Mutant: the type is not registered as a node.
EdgeNodesFew(e) == {e.from, e.to}
EdgeNodes(e) == {e.from, e.to, e.type}

NewEdge ==
  [from |-> Head(todo.edges)[1], to |-> Head(todo.edges)[2], type |-> Head(todo.edges)[3],
   id |-> catalog.connections_count + 1]

\* The counter goes up once for the id and once more after the inserts.
\* distinct_from and distinct_to stay as they are.
CountedEdge(e) ==
  [CountNodes(catalog, trees, EdgeNodes(e)) EXCEPT
     !.connections_count = @ + 2,
     !.type2total_count = Bump(@, e.type),
     !.distinct_type = KeysAfter(catalog.type2total_count, e.type),
     !.equal_from_to_count = OneIf(e.from = e.to, @),
     !.equal_from_to_type_count = OneIf(e.from = e.to /\ e.from = e.type, @),
     !.equal_from_type_count = OneIf(e.from = e.type, @),
     !.equal_to_type_count = OneIf(e.type = e.to, @),
     !.type2equal_from_to_count = BumpIf(e.from = e.to, @, e.type),
     !.type2equal_from_to_type_count = BumpIf(e.from = e.to /\ e.from = e.type, @, e.type),
     !.type2equal_from_type_count = BumpIf(e.from = e.type, @, e.type),
     !.type2equal_to_type_count = BumpIf(e.type = e.to, @, e.type)]

\* The id is new, so no tree refuses the edge (EdgeIdsFresh).
InsertEdge ==
  /\ todo.labels = << >> /\ todo.properties = << >> /\ todo.edges # << >>
  /\ LET e == NewEdge
     IN  /\ Round(EdgeNodes(e), EdgeRecords(e) \o EqualRecords(e),
                  [todo EXCEPT !.edges = Tail(@)], CountedEdge(e))
         /\ edge_table' = Append(edge_table, <<e.from, e.to, e.type>>)
  /\ UNCHANGED <<imported, catalog_file, sent, restarts, open>>

\* EdgeTableLookup: the row of an edge, or nothing.
Row(id) == IF id \in DOMAIN edge_table THEN edge_table[id] ELSE << >>

-----------------------------------------------------------------------------
(* ~QuadModel saves the catalog and the pool; the pages of the trees and of *)
(* the table are then on disk (module BufferManager).                       *)

\* Mutant: the catalog is not saved.
SavedOnce == catalog_file
Saved == catalog

Close ==
  /\ open /\ todo = Done /\ restarts < MaxRestarts
  /\ catalog_file' = Saved
  /\ open' = FALSE
  /\ restarts' = restarts + 1
  /\ UNCHANGED <<imported, trees, edge_table, catalog, todo, sent>>

Open ==
  /\ ~open
  /\ catalog' = catalog_file
  /\ open' = TRUE
  /\ UNCHANGED <<imported, trees, edge_table, catalog_file, todo, sent, restarts>>

Next ==
  \/ \E s \in Statements : Start(s)
  \/ InsertLabel \/ InsertProperty \/ InsertEdge
  \/ Close \/ Open

Spec == Init /\ [][Next]_vars

-----------------------------------------------------------------------------
(* Properties.                                                              *)

\* The edges as the first of the four trees has them.
Edges ==
  {[from |-> r[1], to |-> r[2], type |-> r[3], id |-> r[4]] : r \in trees["from_to_type_edge"]}

Maps == {"label2total_count", "key2total_count", "key2distinct", "type2total_count",
         "type2equal_from_to_count", "type2equal_from_type_count",
         "type2equal_to_type_count", "type2equal_from_to_type_count"}

\* Every field has its type; a key that is in a map of counts occurs.
TypeOK ==
  /\ imported \in Imports
  /\ DOMAIN trees = Trees
  /\ \A r \in trees["nodes"] : r = <<r[1]>> /\ r[1] \in Ids
  /\ trees["node_label"] \subseteq Objects \X Labels
  /\ trees["object_key_value"] \subseteq Ids \X Keys \X Values
  /\ trees["from_to_type_edge"] \subseteq Ids \X Ids \X Ids \X Nat
  /\ edge_table \in Seq(Ids \X Ids \X Ids)
  /\ \A m \in Maps : \A k \in DOMAIN catalog[m] : catalog[m][k] \in Nat \ {0}
  /\ todo \in Inserts
  /\ sent \in 0 .. MaxStatements /\ restarts \in 0 .. MaxRestarts /\ open \in BOOLEAN

\* The trees tell the same graph in every order, whichever of them the planner
\* picks: the pairs of labels and of properties, the four orders of the edges,
\* and the equal_ trees with exactly the edges whose ends or type coincide;
\* also after an INSERT that was cut off.
IndexesAgree ==
  /\ TypeOK
  /\ trees["label_node"] = {<<r[2], r[1]>> : r \in trees["node_label"]}
  /\ trees["key_value_object"] = {<<r[2], r[3], r[1]>> : r \in trees["object_key_value"]}
  /\ trees["to_type_from_edge"] = {<<e.to, e.type, e.from, e.id>> : e \in Edges}
  /\ trees["type_from_to_edge"] = {<<e.type, e.from, e.to, e.id>> : e \in Edges}
  /\ trees["type_to_from_edge"] = {<<e.type, e.to, e.from, e.id>> : e \in Edges}
  /\ trees["equal_from_to"] = {<<e.to, e.type, e.id>> : e \in {x \in Edges : x.from = x.to}}
  /\ trees["equal_from_type"] = {<<e.type, e.to, e.id>> : e \in {x \in Edges : x.from = x.type}}
  /\ trees["equal_to_type"] = {<<e.type, e.from, e.id>> : e \in {x \in Edges : x.to = x.type}}
  /\ trees["equal_from_to_type"] =
       {<<e.type, e.id>> : e \in {x \in Edges : x.from = x.to /\ x.to = x.type}}
  /\ trees["equal_from_to_inverted"] = Swapped(trees["equal_from_to"])
  /\ trees["equal_from_type_inverted"] = Swapped(trees["equal_from_type"])
  /\ trees["equal_to_type_inverted"] = Swapped(trees["equal_to_type"])

\* An edge id is given once, also after the database was closed and opened,
\* and the next one is new.
EdgeIdsFresh ==
  /\ \A d, e \in Edges : d.id = e.id => d = e
  /\ open => \A e \in Edges : e.id <= catalog.connections_count

\* The ends and the type of an edge are nodes, also when an end is an edge, and
\* so is what an INSERT gave a label or a property, cut off or not.  The import
\* does not make a node of an edge that only has properties, nor of the object
\* of a wrong line.
NodesKnown ==
  /\ \A e \in Edges : {<<e.from>>, <<e.to>>, <<e.type>>} \subseteq trees["nodes"]
  /\ \A r \in trees["node_label"] \ Lines(imported.labels) : <<r[1]>> \in trees["nodes"]
  /\ \A r \in trees["object_key_value"] \ Lines(imported.properties) :
       <<r[1]>> \in trees["nodes"]

\* The records of a tree: one for every line of the file, the column c first,
\* and those that were inserted.
Copies(lines, S, c) == Tuples(lines, c) \cup {<<r[c], 0, r>> : r \in S \ Lines(lines)}

NewNodes == trees["nodes"] \ ImportedTrees(imported)["nodes"]

\* The counts that exec_inserts keeps are those of the trees, the copies that
\* the import wrote of a record included, after INSERTs that were cut off and
\* after a restart: labels, properties, edges by type and by which of their ends
\* and type coincide, and the distinct labels, keys and types.  To the counts of
\* nodes, in which the import has every node as identifiable, it adds the new
\* nodes of either kind.  It does not keep distinct_from and distinct_to, which
\* stay those of the import, nor are key2distinct and connections_count exact.
CountsExact ==
  LET labels == Copies(imported.labels, trees["node_label"], 2)
      properties == Copies(imported.properties, trees["object_key_value"], 2)
  IN  open =>
        /\ catalog.identifiable_nodes_count =
             Cardinality(ImportedTrees(imported)["nodes"])
               + Cardinality({r \in NewNodes : r[1] \notin Anon})
        /\ catalog.anonymous_nodes_count =
             imported.anonymous + Cardinality({r \in NewNodes : r[1] \in Anon})
        /\ catalog.label_count = Cardinality(labels)
        /\ catalog.label2total_count = CountBy(labels)
        /\ catalog.properties_count = Cardinality(properties)
        /\ catalog.key2total_count = CountBy(properties)
        /\ catalog.type2total_count = CountBy(trees["type_from_to_edge"])
        /\ catalog.type2equal_from_to_count = CountBy(trees["equal_from_to_inverted"])
        /\ catalog.type2equal_from_type_count = CountBy(trees["equal_from_type"])
        /\ catalog.type2equal_to_type_count = CountBy(trees["equal_to_type"])
        /\ catalog.type2equal_from_to_type_count = CountBy(trees["equal_from_to_type"])
        /\ catalog.equal_from_to_count = Cardinality(trees["equal_from_to"])
        /\ catalog.equal_from_type_count = Cardinality(trees["equal_from_type"])
        /\ catalog.equal_to_type_count = Cardinality(trees["equal_to_type"])
        /\ catalog.equal_from_to_type_count = Cardinality(trees["equal_from_to_type"])
        /\ catalog.distinct_labels = Cardinality(DOMAIN catalog.label2total_count)
        /\ catalog.distinct_keys = Cardinality(DOMAIN catalog.key2total_count)
        /\ catalog.distinct_type = Cardinality(DOMAIN catalog.type2total_count)

\* edge_table_lookup.cc: "first edge has the id 1, and its inserted at pos 0 in
\* the table": the row of every edge has its ends and its type.
EdgeRowsFound == \A e \in Edges : Row(e.id) = <<e.from, e.to, e.type>>
=============================================================================

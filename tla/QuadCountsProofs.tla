-------------------------- MODULE QuadCountsProofs --------------------------
(***************************************************************************)
(* The counts of the catalog are those of the B+ trees, after every round  *)
(* of an INSERT and after every restart: where a tree refuses a record,    *)
(* nothing is counted but the nodes that were added before.                *)
(***************************************************************************)
EXTENDS QuadModelProofs

\* What was imported is never taken out.
Grown ==
  /\ ImportedTrees(imported)["nodes"] \subseteq trees["nodes"]
  /\ Lines(imported.labels) \subseteq trees["node_label"]
  /\ Lines(imported.properties) \subseteq trees["object_key_value"]

\* The nodes, by whether they are anonymous.
CountedNodes ==
  /\ catalog.identifiable_nodes_count =
       Cardinality(ImportedTrees(imported)["nodes"])
         + Cardinality({r \in NewNodes : r[1] \notin Anon})
  /\ catalog.anonymous_nodes_count =
       imported.anonymous + Cardinality({r \in NewNodes : r[1] \in Anon})

\* A set with as many elements as the count says, under each of their first
\* columns as many as the map says.
Tallied(n, map, S) == n = Cardinality(S) /\ map = CountBy(S)

CountedLabels ==
  /\ Tallied(catalog.label_count, catalog.label2total_count,
             Copies(imported.labels, trees["node_label"], 2))
  /\ catalog.distinct_labels = Cardinality(DOMAIN catalog.label2total_count)

CountedProperties ==
  /\ Tallied(catalog.properties_count, catalog.key2total_count,
             Copies(imported.properties, trees["object_key_value"], 2))
  /\ catalog.distinct_keys = Cardinality(DOMAIN catalog.key2total_count)

CountedTypes ==
  /\ catalog.type2total_count = CountBy(trees["type_from_to_edge"])
  /\ catalog.distinct_type = Cardinality(DOMAIN catalog.type2total_count)

CountedEqual ==
  /\ Tallied(catalog.equal_from_type_count, catalog.type2equal_from_type_count,
             trees["equal_from_type"])
  /\ Tallied(catalog.equal_to_type_count, catalog.type2equal_to_type_count,
             trees["equal_to_type"])
  /\ Tallied(catalog.equal_from_to_type_count, catalog.type2equal_from_to_type_count,
             trees["equal_from_to_type"])
  /\ catalog.equal_from_to_count = Cardinality(trees["equal_from_to"])
  /\ catalog.type2equal_from_to_count = CountBy(trees["equal_from_to_inverted"])

Counted ==
  Grown /\ CountedNodes /\ CountedLabels /\ CountedProperties /\ CountedTypes /\ CountedEqual

CountInv == QuadInv /\ Counted

-----------------------------------------------------------------------------
(* Cardinalities.                                                           *)

\* As many values as arguments, where no two arguments have one value.
LEMMA ImageCount ==
  ASSUME NEW S, IsFiniteSet(S), NEW g, DOMAIN g = S, \A x, y \in S : g[x] = g[y] => x = y
  PROVE  /\ IsFiniteSet({g[x] : x \in S})
         /\ Cardinality({g[x] : x \in S}) = Cardinality(S)
<1> DEFINE T == {g[x] : x \in S}
           h == [x \in S |-> g[x]]
<1>1. h \in Surjection(S, T) /\ h \in Injection(S, T)
  <2>1. h \in Surjection(S, T)
    BY DEF Surjection
  <2>2. h \in [S -> T] /\ \A x, y \in S : h[x] = h[y] => x = y
    OBVIOUS
  <2> HIDE DEF h, T
  <2>3. h \in Injection(S, T)
    BY <2>2 DEF Injection, IsInjective
  <2> QED
    BY <2>1, <2>3
<1>2. IsFiniteSet(T) /\ (Cardinality(T) = Cardinality(S) <=> h \in Injection(S, T))
  <2> HIDE DEF T, h
  <2> QED
    BY <1>1, FS_Surjection
<1> QED
  BY <1>1, <1>2

\* What a map of counts has for a value, whether it is in the map or not.
LEMMA CountsOfCountBy ==
  ASSUME NEW S, IsFiniteSet(S), NEW k
  PROVE  Counts(CountBy(S), k) = Cardinality({r \in S : r[1] = k})
<1>1. CASE k \in {r[1] : r \in S}
  BY <1>1 DEF Counts, CountBy
<1>2. CASE k \notin {r[1] : r \in S}
  <2>1. {r \in S : r[1] = k} = {}
    BY <1>2
  <2>2. Counts(CountBy(S), k) = 0
    BY <1>2 DEF Counts, CountBy
  <2> QED
    BY <2>1, <2>2, FS_EmptySet
<1> QED
  BY <1>1, <1>2

\* A new record is counted by one map[k]++.
LEMMA CountByMore ==
  ASSUME NEW S, IsFiniteSet(S), NEW r, r \notin S, NEW T, T = S \cup {r}
  PROVE  CountBy(T) = Bump(CountBy(S), r[1])
<1> DEFINE Of(R, k) == {x \in R : x[1] = k}
           new == Bump(CountBy(S), r[1])
           D == {x[1] : x \in S} \cup {r[1]}
<1>1. CountBy(T) = [k \in D |-> Cardinality(Of(T, k))]
  <2>1. {x[1] : x \in T} = D
    OBVIOUS
  <2> HIDE DEF D
  <2> QED
    BY <2>1 DEF CountBy
<1>2. new = [k \in D |-> IF k = r[1] THEN Counts(CountBy(S), k) + 1
                                     ELSE Counts(CountBy(S), k)]
  BY DEF Bump, CountBy
<1>3. ASSUME NEW k PROVE Counts(CountBy(S), k) = Cardinality(Of(S, k)) /\ IsFiniteSet(Of(S, k))
  BY CountsOfCountBy, FS_Subset
<1>4. ASSUME NEW k \in D
      PROVE  Cardinality(Of(T, k)) = IF k = r[1] THEN Counts(CountBy(S), k) + 1
                                                 ELSE Counts(CountBy(S), k)
  <2>1. CASE k = r[1]
    <3>1. Of(T, k) = Of(S, k) \cup {r} /\ r \notin Of(S, k)
      BY <2>1
    <3> HIDE DEF Of
    <3>2. Cardinality(Of(S, k) \cup {r}) = Cardinality(Of(S, k)) + 1
      BY <1>3, <3>1, FS_AddElement
    <3> QED
      BY <1>3, <2>1, <3>1, <3>2
  <2>2. CASE k # r[1]
    <3>1. Of(T, k) = Of(S, k)
      BY <2>2
    <3> HIDE DEF Of
    <3> QED
      BY <1>3, <2>2, <3>1
  <2> QED
    BY <2>1, <2>2
<1> HIDE DEF D, Of, new
<1>5. CountBy(T) = new
  BY <1>1, <1>2, <1>4
<1> QED
  BY <1>5 DEF new

\* Objects that are new in a tree of one column.
LEMMA NodesMoreCount ==
  ASSUME NEW A, IsFiniteSet(A), NEW B, IsFiniteSet(B), \A o \in B : <<o>> \notin A,
         NEW C, C = A \cup {<<o>> : o \in B}
  PROVE  Cardinality(C) = Cardinality(A) + Cardinality(B)
<1> DEFINE g == [o \in B |-> <<o>>]
           T == {g[o] : o \in B}
<1>1. DOMAIN g = B /\ \A x, y \in B : g[x] = g[y] => x = y
  <2>1. \A x, y : <<x>> = <<y>> => x = y
    OBVIOUS
  <2> QED
    BY <2>1
<1>2. C = A \cup T /\ A \cap T = {}
  OBVIOUS
<1> HIDE DEF g
<1>3. IsFiniteSet(T) /\ Cardinality(T) = Cardinality(B)
  BY <1>1, ImageCount
<1> HIDE DEF T
<1>4. Cardinality(A \cup T) = Cardinality(A) + Cardinality(T) - Cardinality(A \cap T)
  BY <1>3, FS_Union
<1>5. /\ Cardinality(A \cap T) = 0 /\ Cardinality(A) \in Nat /\ Cardinality(B) \in Nat
  BY <1>2, FS_EmptySet, FS_CardinalityType
<1>6. Cardinality(C) = Cardinality(A \cup T)
  BY <1>2
<1> QED
  BY <1>3, <1>4, <1>5, <1>6

\* One element more, counted by n++ and map[k]++.
LEMMA TallyMore ==
  ASSUME NEW S, IsFiniteSet(S), NEW x, x \notin S, NEW n, NEW map, Tallied(n, map, S)
  PROVE  /\ Tallied(n + 1, Bump(map, x[1]), S \cup {x})
         /\ KeysAfter(map, x[1]) = Cardinality(DOMAIN Bump(map, x[1]))
<1>1. Cardinality(S \cup {x}) = Cardinality(S) + 1
  BY FS_AddElement
<1>2. CountBy(S \cup {x}) = Bump(CountBy(S), x[1])
  BY CountByMore
<1>3. DOMAIN Bump(map, x[1]) = DOMAIN map \cup {x[1]}
  BY DEF Bump
<1> QED
  BY <1>1, <1>2, <1>3 DEF Tallied, KeysAfter

\* A record that the tree did not have is one more among its copies.
LEMMA CopiesMore ==
  ASSUME NEW R, NEW lines \in Seq(R), NEW S, IsFiniteSet(S), Lines(lines) \subseteq S,
         NEW r, r \notin S, NEW c
  PROVE  LET x == <<r[c], 0, r>>
             C == Copies(lines, S, c)
         IN  /\ Copies(lines, S \cup {r}, c) = C \cup {x}
             /\ x \notin C /\ IsFiniteSet(C) /\ x[1] = r[c]
<1> DEFINE L == Lines(lines)
           W(z) == <<z[c], 0, z>>
           x == W(r)
           A == Tuples(lines, c)
           B(T) == {W(z) : z \in T \ L}
<1>1. \A T : Copies(lines, T, c) = A \cup B(T)
  BY DEF Copies
<1>2. x \notin A
  <2>1. \A i \in DOMAIN lines : i # 0
    OBVIOUS
  <2>2. \A i \in DOMAIN lines : <<lines[i][c], i, lines[i]>>[2] = i
    OBVIOUS
  <2>3. x[2] = 0
    OBVIOUS
  <2> HIDE DEF x
  <2> QED
    BY <2>1, <2>2, <2>3 DEF Tuples
<1>3. \A y, z : W(y) = W(z) => y = z
  OBVIOUS
<1>4. IsFiniteSet(A)
  BY TuplesFinite
<1>5. x[1] = r[c]
  OBVIOUS
<1> HIDE DEF W, A, L
<1>6. B(S \cup {r}) = B(S) \cup {x} /\ x \notin B(S)
  <2>1. r \notin L
    BY DEF L
  <2> QED
    BY <1>3, <2>1
<1>7. IsFiniteSet(B(S))
  <2> DEFINE D == S \ L
             g == [z \in D |-> W(z)]
  <2>1. IsFiniteSet(D)
    BY FS_Subset
  <2>2. DOMAIN g = D /\ B(S) = {g[z] : z \in D}
    OBVIOUS
  <2> HIDE DEF g, D, B
  <2> QED
    BY <2>1, <2>2, ImageFinite
<1> HIDE DEF x, B
<1>8. IsFiniteSet(A \cup B(S))
  BY <1>4, <1>7, FS_Union
<1>9. A \cup B(S \cup {r}) = (A \cup B(S)) \cup {x} /\ x \notin A \cup B(S)
  BY <1>2, <1>6
<1> QED
  BY <1>1, <1>5, <1>8, <1>9 DEF x, W

\* Nothing but the lines of the file.
LEMMA CopiesNone ==
  ASSUME NEW R, NEW lines \in Seq(R), NEW c
  PROVE  /\ Copies(lines, Lines(lines), c) = Tuples(lines, c)
         /\ Cardinality(Tuples(lines, c)) = Len(lines)
<1> DEFINE g == [i \in DOMAIN lines |-> <<lines[i][c], i, lines[i]>>]
           D == DOMAIN lines
<1>1. Copies(lines, Lines(lines), c) = Tuples(lines, c)
  BY DEF Copies
<1>2. D = 1 .. Len(lines) /\ Len(lines) \in Nat
  OBVIOUS
<1>3. IsFiniteSet(D) /\ Cardinality(D) = Len(lines)
  BY <1>2, FS_Interval
<1>4. DOMAIN g = D /\ Tuples(lines, c) = {g[i] : i \in D}
  BY DEF Tuples
<1>5. \A i, j \in D : g[i] = g[j] => i = j
  <2>1. \A i \in D : g[i][2] = i
    OBVIOUS
  <2> HIDE DEF g, D
  <2> QED
    BY <2>1
<1> HIDE DEF g, D
<1>6. Cardinality({g[i] : i \in D}) = Cardinality(D)
  BY <1>3, <1>4, <1>5, ImageCount
<1> QED
  BY <1>1, <1>3, <1>4, <1>6

\* try_add_node counts the nodes that it adds.
LEMMA NodesCounted ==
  ASSUME QuadInv, Grown, CountedNodes, NEW objects, IsFiniteSet(objects), imported' = imported,
         trees'["nodes"] = trees["nodes"] \cup {<<o>> : o \in objects},
         catalog'.identifiable_nodes_count =
           CountNodes(catalog, trees, objects).identifiable_nodes_count,
         catalog'.anonymous_nodes_count =
           CountNodes(catalog, trees, objects).anonymous_nodes_count
  PROVE  CountedNodes'
<1> DEFINE O == ImportedTrees(imported)["nodes"]
           N == trees["nodes"]
           M == trees'["nodes"]
           new == {o \in objects : <<o>> \notin N}
           newAnon == new \cap Anon
           newIds == new \ Anon
           A == {r \in N \ O : r[1] \in Anon}
           I == {r \in N \ O : r[1] \notin Anon}
           X == {r \in M \ O : r[1] \in Anon}
           Y == {r \in M \ O : r[1] \notin Anon}
<1>1. /\ catalog'.anonymous_nodes_count = catalog.anonymous_nodes_count + Cardinality(newAnon)
      /\ catalog'.identifiable_nodes_count =
           catalog.identifiable_nodes_count + Cardinality(newIds)
  BY DEF CountNodes, QuadInv, Shapes, Fields
<1>2. /\ catalog.anonymous_nodes_count = imported.anonymous + Cardinality(A)
      /\ catalog.identifiable_nodes_count = Cardinality(O) + Cardinality(I)
  BY DEF CountedNodes, NewNodes
<1>3. IsFiniteSet(A) /\ IsFiniteSet(I)
  <2>1. IsFiniteSet(N) /\ A \subseteq N /\ I \subseteq N
    BY DEF QuadInv, Finite, Trees
  <2> HIDE DEF N, A, I
  <2> QED
    BY <2>1, FS_Subset
<1>4. IsFiniteSet(newAnon) /\ IsFiniteSet(newIds)
  <2>1. newAnon \in SUBSET objects /\ newIds \in SUBSET objects
    OBVIOUS
  <2> HIDE DEF newAnon, newIds
  <2> QED
    BY <2>1, FS_Subset
<1>5. M = N \cup {<<o>> : o \in objects} /\ O \subseteq N
  BY DEF Grown
<1>6. Cardinality(O) \in Nat /\ imported.anonymous \in Nat
  <2>1. imported \in Imports /\ "nodes" \in Trees
    BY DEF QuadInv, Shapes, Trees
  <2>2. IsFiniteSet(O)
    BY <2>1, ImportedFinite
  <2> QED
    BY <2>1, <2>2, ImportedFile, FS_CardinalityType
<1> DEFINE One(o) == <<o>>
           Key(r) == r[1]
<1>7. /\ \A o : Key(One(o)) = o
      /\ M = N \cup {One(o) : o \in objects} /\ new = {o \in objects : One(o) \notin N}
      /\ A = {r \in N \ O : Key(r) \in Anon} /\ I = {r \in N \ O : Key(r) \notin Anon}
      /\ X = {r \in M \ O : Key(r) \in Anon} /\ Y = {r \in M \ O : Key(r) \notin Anon}
  BY <1>5
<1>8. X = A \cup {<<o>> : o \in newAnon} /\ Y = I \cup {<<o>> : o \in newIds}
  <2> HIDE DEF One, Key, new, A, I, X, Y, N, M, O
  <2>1. X = A \cup {One(o) : o \in newAnon}
    BY <1>5, <1>7
  <2>2. Y = I \cup {One(o) : o \in newIds}
    BY <1>5, <1>7
  <2> QED
    BY <2>1, <2>2 DEF One
<1>9. (\A o \in newAnon : <<o>> \notin A) /\ (\A o \in newIds : <<o>> \notin I)
  OBVIOUS
<1>10. CountedNodes' <=>
         /\ catalog'.anonymous_nodes_count = imported.anonymous + Cardinality(X)
         /\ catalog'.identifiable_nodes_count = Cardinality(O) + Cardinality(Y)
  BY DEF CountedNodes, NewNodes
<1> HIDE DEF A, I, X, Y, new, newAnon, newIds, O, N, M
<1>11. /\ Cardinality(X) = Cardinality(A) + Cardinality(newAnon)
       /\ Cardinality(Y) = Cardinality(I) + Cardinality(newIds)
  BY <1>3, <1>4, <1>8, <1>9, NodesMoreCount
<1>12. /\ Cardinality(A) \in Nat /\ Cardinality(newAnon) \in Nat
       /\ Cardinality(I) \in Nat /\ Cardinality(newIds) \in Nat
  BY <1>3, <1>4, FS_CardinalityType
<1> QED
  BY <1>1, <1>2, <1>6, <1>10, <1>11, <1>12

-----------------------------------------------------------------------------
(* The counts of an import.                                                 *)

LEMMA InitCounts == Init => Counted
<1> SUFFICES ASSUME Init PROVE Counted
  OBVIOUS
<1>1. /\ imported \in Imports /\ trees = ImportedTrees(imported)
      /\ catalog = ImportedCatalog(imported, trees)
  BY DEF Init
<1>2. /\ trees["node_label"] = Lines(imported.labels)
      /\ trees["object_key_value"] = Lines(imported.properties)
  BY <1>1, ImportedAll
<1>3. Grown
  BY <1>1, <1>2 DEF Grown
<1>4. CountedNodes
  <2>1. NewNodes = {}
    BY <1>1 DEF NewNodes
  <2>2. /\ {r \in NewNodes : r[1] \notin Anon} = {} /\ {r \in NewNodes : r[1] \in Anon} = {}
    BY <2>1
  <2>3. /\ catalog.identifiable_nodes_count = Cardinality(ImportedTrees(imported)["nodes"])
        /\ catalog.anonymous_nodes_count = imported.anonymous
    BY <1>1 DEF ImportedCatalog
  <2>4. Cardinality(ImportedTrees(imported)["nodes"]) \in Nat /\ imported.anonymous \in Nat
    <3>1. "nodes" \in Trees
      BY DEF Trees
    <3> QED
      BY <1>1, <3>1, ImportedFinite, ImportedFile, FS_CardinalityType
  <2> QED
    BY <2>2, <2>3, <2>4, FS_EmptySet DEF CountedNodes
<1>5. CountedLabels
  <2>1. /\ catalog.label_count = Len(imported.labels)
        /\ catalog.label2total_count = CountBy(Tuples(imported.labels, 2))
        /\ catalog.distinct_labels = Cardinality(DOMAIN CountBy(Tuples(imported.labels, 2)))
    BY <1>1 DEF ImportedCatalog
  <2>2. /\ Copies(imported.labels, trees["node_label"], 2) = Tuples(imported.labels, 2)
        /\ Cardinality(Tuples(imported.labels, 2)) = Len(imported.labels)
    <3>1. imported.labels \in Seq(Objects \X Labels)
      BY <1>1, ImportedFile
    <3> QED
      BY <1>2, <3>1, CopiesNone
  <2> QED
    BY <2>1, <2>2 DEF CountedLabels, Tallied
<1>6. CountedProperties
  <2>1. /\ catalog.properties_count = Len(imported.properties)
        /\ catalog.key2total_count = CountBy(Tuples(imported.properties, 2))
        /\ catalog.distinct_keys = Cardinality(DOMAIN CountBy(Tuples(imported.properties, 2)))
    BY <1>1 DEF ImportedCatalog
  <2>2. /\ Copies(imported.properties, trees["object_key_value"], 2)
             = Tuples(imported.properties, 2)
        /\ Cardinality(Tuples(imported.properties, 2)) = Len(imported.properties)
    <3>1. imported.properties \in Seq(Ids \X Keys \X Values)
      BY <1>1, ImportedFile
    <3> QED
      BY <1>2, <3>1, CopiesNone
  <2> QED
    BY <2>1, <2>2 DEF CountedProperties, Tallied
<1>7. CountedTypes
  BY <1>1 DEF ImportedCatalog, CountedTypes
<1>8. CountedEqual
  BY <1>1 DEF ImportedCatalog, CountedEqual, Tallied
<1> QED
  BY <1>3, <1>4, <1>5, <1>6, <1>7, <1>8 DEF Counted

-----------------------------------------------------------------------------
(* The steps.                                                               *)

NodeCounts == {"identifiable_nodes_count", "anonymous_nodes_count"}
LabelFields == {"label_count", "label2total_count", "distinct_labels"}
PropertyFields == {"properties_count", "key2total_count", "distinct_keys"}
TypeFields == {"type2total_count", "distinct_type"}
EqualFields == {"equal_from_type_count", "type2equal_from_type_count",
                "equal_to_type_count", "type2equal_to_type_count",
                "equal_from_to_type_count", "type2equal_from_to_type_count",
                "equal_from_to_count", "type2equal_from_to_count"}

\* Nodes are counted in fields of their own.
LEMMA NodeFields ==
  ASSUME Shapes, NEW objects
  PROVE  LET counted == CountNodes(catalog, trees, objects)
         IN  /\ DOMAIN counted = Fields
             /\ \A x \in Fields \ NodeCounts : counted[x] = catalog[x]
BY DEF Shapes, CountNodes, Fields, NodeCounts

\* What is counted elsewhere stays counted.
LEMMA KeepLabels ==
  ASSUME CountedLabels, imported' = imported, trees'["node_label"] = trees["node_label"],
         \A x \in LabelFields : catalog'[x] = catalog[x]
  PROVE  CountedLabels'
BY DEF CountedLabels, LabelFields

LEMMA KeepProperties ==
  ASSUME CountedProperties, imported' = imported,
         trees'["object_key_value"] = trees["object_key_value"],
         \A x \in PropertyFields : catalog'[x] = catalog[x]
  PROVE  CountedProperties'
BY DEF CountedProperties, PropertyFields

LEMMA KeepEdges ==
  ASSUME CountedTypes, CountedEqual,
         \A t \in {"type_from_to_edge", "equal_from_type", "equal_to_type", "equal_from_to_type",
                   "equal_from_to", "equal_from_to_inverted"} : trees'[t] = trees[t],
         \A x \in TypeFields \cup EqualFields : catalog'[x] = catalog[x]
  PROVE  CountedTypes' /\ CountedEqual'
<1>1. CountedTypes'
  BY DEF CountedTypes, TypeFields
<1>2. CountedEqual'
  BY DEF CountedEqual, EqualFields
<1> QED
  BY <1>1, <1>2

\* Statements that begin, and the end and the start of a process.
LEMMA QuietCounts ==
  ASSUME Counted, UNCHANGED <<imported, trees, catalog>>
  PROVE  Counted'
BY DEF Counted, Grown, CountedNodes, NewNodes, CountedLabels, CountedProperties, CountedTypes,
       CountedEqual

\* A label is counted when both trees have taken it.
LEMMA LabelCounts ==
  ASSUME CountInv, InsertLabel
  PROVE  Counted'
<1> USE DEF CountInv, Counted
<1>1. PICK node \in Objects, label \in Labels :
        /\ <<label, node>> \in trees["label_node"] <=> <<node, label>> \in trees["node_label"]
        /\ TwoAdded({node}, "label_node", <<label, node>>, "node_label", <<node, label>>,
                    [todo EXCEPT !.labels = Tail(@)], CountedLabel(node, label))
  BY LabelRound, Zenon
<1> DEFINE counted == CountNodes(catalog, trees, {node})
           r == <<node, label>>
           S == trees["node_label"]
<1>2. /\ DOMAIN counted = Fields /\ \A x \in Fields \ NodeCounts : counted[x] = catalog[x]
  BY NodeFields DEF QuadInv
<1>3. /\ trees'["nodes"] = trees["nodes"] \cup {<<o>> : o \in {node}}
      /\ \A t \in Trees \ {"nodes", "label_node", "node_label"} : trees'[t] = trees[t]
      /\ trees'["node_label"] = S \cup {r}
      /\ r \notin S => catalog' = CountedLabel(node, label)
      /\ r \in S => catalog' = counted
  BY <1>1 DEF TwoAdded
<1>4. imported' = imported
  BY DEF InsertLabel
<1>5. r \notin S =>
        /\ catalog'.label_count = catalog.label_count + 1
        /\ catalog'.label2total_count = Bump(catalog.label2total_count, label)
        /\ catalog'.distinct_labels = KeysAfter(catalog.label2total_count, label)
        /\ \A x \in Fields \ LabelFields : catalog'[x] = counted[x]
  <2> SUFFICES ASSUME r \notin S
               PROVE  /\ catalog'.label_count = catalog.label_count + 1
                      /\ catalog'.label2total_count = Bump(catalog.label2total_count, label)
                      /\ catalog'.distinct_labels = KeysAfter(catalog.label2total_count, label)
                      /\ \A x \in Fields \ LabelFields : catalog'[x] = counted[x]
    OBVIOUS
  <2>1. catalog' = [counted EXCEPT
                      !.label_count = @ + 1, !.label2total_count = Bump(@, label),
                      !.distinct_labels = KeysAfter(catalog.label2total_count, label)]
    BY <1>3 DEF CountedLabel
  <2> HIDE DEF counted
  <2>2. LabelFields \subseteq Fields \ NodeCounts
    BY DEF LabelFields, Fields, NodeCounts, Maps
  <2>3. /\ catalog'.label_count = counted.label_count + 1
        /\ catalog'.label2total_count = Bump(counted.label2total_count, label)
        /\ catalog'.distinct_labels = KeysAfter(catalog.label2total_count, label)
        /\ \A x \in Fields \ LabelFields : catalog'[x] = counted[x]
    BY <1>2, <2>1, <2>2 DEF LabelFields
  <2> QED
    BY <1>2, <2>2, <2>3 DEF LabelFields
<1> HIDE DEF counted
<1>6. \A x \in Fields \ LabelFields : catalog'[x] = counted[x]
  BY <1>3, <1>5
<1>7. CountedNodes'
  <2>1. /\ catalog'.identifiable_nodes_count = counted.identifiable_nodes_count
        /\ catalog'.anonymous_nodes_count = counted.anonymous_nodes_count
    BY <1>6 DEF Fields, LabelFields
  <2>2. IsFiniteSet({node})
    BY FS_Singleton
  <2> QED
    BY <1>3, <1>4, <2>1, <2>2, NodesCounted DEF counted
<1>8. CountedLabels'
  <2>1. CASE r \in S
    <3>1. trees'["node_label"] = trees["node_label"]
      BY <1>3, <2>1
    <3>2. \A x \in LabelFields : catalog'[x] = catalog[x]
      BY <1>2, <1>3, <2>1 DEF LabelFields, Fields, NodeCounts, Maps
    <3> QED
      BY <1>4, <3>1, <3>2, KeepLabels
  <2>2. CASE r \notin S
    <3> DEFINE C == Copies(imported.labels, S, 2)
               x == <<r[2], 0, r>>
    <3>1. imported.labels \in Seq(Objects \X Labels) /\ IsFiniteSet(S)
      BY ImportedFile DEF QuadInv, Shapes, Finite, Trees
    <3>2. Lines(imported.labels) \subseteq S
      BY DEF Grown
    <3> HIDE DEF r, S
    <3>3. /\ Copies(imported.labels, S \cup {r}, 2) = C \cup {x}
          /\ x \notin C /\ IsFiniteSet(C) /\ x[1] = r[2]
      BY <2>2, <3>1, <3>2, CopiesMore
    <3>4. x[1] = label
      BY <3>3 DEF r
    <3>5. Tallied(catalog.label_count, catalog.label2total_count, C)
      BY DEF CountedLabels, S
    <3> HIDE DEF C, x
    <3>6. /\ Tallied(catalog.label_count + 1, Bump(catalog.label2total_count, label), C \cup {x})
          /\ KeysAfter(catalog.label2total_count, label)
               = Cardinality(DOMAIN Bump(catalog.label2total_count, label))
      BY <3>3, <3>4, <3>5, TallyMore
    <3> QED
      BY <1>3, <1>4, <1>5, <2>2, <3>3, <3>6 DEF CountedLabels, S
  <2> QED
    BY <2>1, <2>2
<1>9. CountedProperties' /\ CountedTypes' /\ CountedEqual'
  <2>1. \A x \in PropertyFields \cup TypeFields \cup EqualFields : catalog'[x] = catalog[x]
    BY <1>2, <1>6 DEF PropertyFields, TypeFields, EqualFields, LabelFields, Fields, NodeCounts,
                      Maps
  <2>2. /\ trees'["object_key_value"] = trees["object_key_value"]
        /\ \A t \in {"type_from_to_edge", "equal_from_type", "equal_to_type",
                     "equal_from_to_type", "equal_from_to", "equal_from_to_inverted"} :
             trees'[t] = trees[t]
    BY <1>3 DEF Trees
  <2> QED
    BY <1>4, <2>1, <2>2, KeepProperties, KeepEdges
<1>10. Grown'
  <2>1. trees'["object_key_value"] = trees["object_key_value"]
    BY <1>3 DEF Trees
  <2> QED
    BY <1>3, <1>4, <2>1 DEF Grown
<1> QED
  BY <1>7, <1>8, <1>9, <1>10

\* A property is counted when both trees have taken it.
LEMMA PropertyCounts ==
  ASSUME CountInv, InsertProperty
  PROVE  Counted'
<1> USE DEF CountInv, Counted
<1>1. PICK obj \in Ids, key \in Keys, value \in Values :
        /\ <<key, value, obj>> \in trees["key_value_object"]
             <=> <<obj, key, value>> \in trees["object_key_value"]
        /\ TwoAdded({obj}, "key_value_object", <<key, value, obj>>,
                    "object_key_value", <<obj, key, value>>,
                    [todo EXCEPT !.properties = Tail(@)], CountedProperty(obj, key))
  BY PropertyRound, Zenon
<1> DEFINE counted == CountNodes(catalog, trees, {obj})
           r == <<obj, key, value>>
           S == trees["object_key_value"]
<1>2. /\ DOMAIN counted = Fields /\ \A x \in Fields \ NodeCounts : counted[x] = catalog[x]
  BY NodeFields DEF QuadInv
<1>3. /\ trees'["nodes"] = trees["nodes"] \cup {<<o>> : o \in {obj}}
      /\ \A t \in Trees \ {"nodes", "key_value_object", "object_key_value"} : trees'[t] = trees[t]
      /\ trees'["object_key_value"] = S \cup {r}
      /\ r \notin S => catalog' = CountedProperty(obj, key)
      /\ r \in S => catalog' = counted
  BY <1>1 DEF TwoAdded
<1>4. imported' = imported
  BY DEF InsertProperty
<1>5. r \notin S =>
        /\ catalog'.properties_count = catalog.properties_count + 1
        /\ catalog'.key2total_count = Bump(catalog.key2total_count, key)
        /\ catalog'.distinct_keys = KeysAfter(catalog.key2total_count, key)
        /\ \A x \in Fields \ (PropertyFields \cup {"key2distinct"}) : catalog'[x] = counted[x]
  <2> SUFFICES ASSUME r \notin S
               PROVE  /\ catalog'.properties_count = catalog.properties_count + 1
                      /\ catalog'.key2total_count = Bump(catalog.key2total_count, key)
                      /\ catalog'.distinct_keys = KeysAfter(catalog.key2total_count, key)
                      /\ \A x \in Fields \ (PropertyFields \cup {"key2distinct"}) : catalog'[x] = counted[x]
    OBVIOUS
  <2>1. catalog' = [counted EXCEPT
                      !.properties_count = @ + 1,
                      !.key2total_count = Bump(@, key), !.key2distinct = Bump(@, key),
                      !.distinct_keys = KeysAfter(catalog.key2total_count, key)]
    BY <1>3 DEF CountedProperty
  <2> HIDE DEF counted
  <2>2. PropertyFields \subseteq Fields \ NodeCounts
    BY DEF PropertyFields, Fields, NodeCounts, Maps
  <2>3. /\ catalog'.properties_count = counted.properties_count + 1
        /\ catalog'.key2total_count = Bump(counted.key2total_count, key)
        /\ catalog'.distinct_keys = KeysAfter(catalog.key2total_count, key)
        /\ \A x \in Fields \ (PropertyFields \cup {"key2distinct"}) : catalog'[x] = counted[x]
    BY <1>2, <2>1, <2>2 DEF PropertyFields
  <2> QED
    BY <1>2, <2>2, <2>3 DEF PropertyFields
<1> HIDE DEF counted
<1>6. \A x \in Fields \ (PropertyFields \cup {"key2distinct"}) : catalog'[x] = counted[x]
  BY <1>3, <1>5
<1>7. CountedNodes'
  <2>1. /\ catalog'.identifiable_nodes_count = counted.identifiable_nodes_count
        /\ catalog'.anonymous_nodes_count = counted.anonymous_nodes_count
    BY <1>6 DEF Fields, PropertyFields
  <2>2. IsFiniteSet({obj})
    BY FS_Singleton
  <2> QED
    BY <1>3, <1>4, <2>1, <2>2, NodesCounted DEF counted
<1>8. CountedProperties'
  <2>1. CASE r \in S
    <3>1. trees'["object_key_value"] = trees["object_key_value"]
      BY <1>3, <2>1
    <3>2. \A x \in PropertyFields : catalog'[x] = catalog[x]
      BY <1>2, <1>3, <2>1 DEF PropertyFields, Fields, NodeCounts, Maps
    <3> QED
      BY <1>4, <3>1, <3>2, KeepProperties
  <2>2. CASE r \notin S
    <3> DEFINE C == Copies(imported.properties, S, 2)
               x == <<r[2], 0, r>>
    <3>1. imported.properties \in Seq(Ids \X Keys \X Values) /\ IsFiniteSet(S)
      BY ImportedFile DEF QuadInv, Shapes, Finite, Trees
    <3>2. Lines(imported.properties) \subseteq S
      BY DEF Grown
    <3> HIDE DEF r, S
    <3>3. /\ Copies(imported.properties, S \cup {r}, 2) = C \cup {x}
          /\ x \notin C /\ IsFiniteSet(C) /\ x[1] = r[2]
      BY <2>2, <3>1, <3>2, CopiesMore
    <3>4. x[1] = key
      BY <3>3 DEF r
    <3>5. Tallied(catalog.properties_count, catalog.key2total_count, C)
      BY DEF CountedProperties, S
    <3> HIDE DEF C, x
    <3>6. /\ Tallied(catalog.properties_count + 1, Bump(catalog.key2total_count, key), C \cup {x})
          /\ KeysAfter(catalog.key2total_count, key)
               = Cardinality(DOMAIN Bump(catalog.key2total_count, key))
      BY <3>3, <3>4, <3>5, TallyMore
    <3> QED
      BY <1>3, <1>4, <1>5, <2>2, <3>3, <3>6 DEF CountedProperties, S
  <2> QED
    BY <2>1, <2>2
<1>9. CountedLabels' /\ CountedTypes' /\ CountedEqual'
  <2>1. \A x \in LabelFields \cup TypeFields \cup EqualFields : catalog'[x] = catalog[x]
    BY <1>2, <1>6 DEF LabelFields, TypeFields, EqualFields, PropertyFields, Fields, NodeCounts,
                      Maps
  <2>2. /\ trees'["node_label"] = trees["node_label"]
        /\ \A t \in {"type_from_to_edge", "equal_from_type", "equal_to_type",
                     "equal_from_to_type", "equal_from_to", "equal_from_to_inverted"} :
             trees'[t] = trees[t]
    BY <1>3 DEF Trees
  <2> QED
    BY <1>4, <2>1, <2>2, KeepLabels, KeepEdges
<1>10. Grown'
  <2>1. trees'["node_label"] = trees["node_label"]
    BY <1>3 DEF Trees
  <2> QED
    BY <1>3, <1>4, <2>1 DEF Grown
<1> QED
  BY <1>7, <1>8, <1>9, <1>10

\* What a new edge leaves in the fields of the catalog.
LEMMA EdgeFields ==
  ASSUME Shapes, NEW e, catalog' = CountedEdge(e)
  PROVE  LET counted == CountNodes(catalog, trees, EdgeNodes(e))
             loop == e.from = e.to
         IN  /\ \A x \in NodeCounts : catalog'[x] = counted[x]
             /\ \A x \in LabelFields \cup PropertyFields : catalog'[x] = catalog[x]
             /\ catalog'.type2total_count = Bump(catalog.type2total_count, e.type)
             /\ catalog'.distinct_type = KeysAfter(catalog.type2total_count, e.type)
             /\ catalog'.equal_from_to_count = OneIf(loop, catalog.equal_from_to_count)
             /\ catalog'.type2equal_from_to_count =
                  BumpIf(loop, catalog.type2equal_from_to_count, e.type)
             /\ catalog'.equal_from_to_type_count =
                  OneIf(loop /\ e.from = e.type, catalog.equal_from_to_type_count)
             /\ catalog'.type2equal_from_to_type_count =
                  BumpIf(loop /\ e.from = e.type, catalog.type2equal_from_to_type_count, e.type)
             /\ catalog'.equal_from_type_count =
                  OneIf(e.from = e.type, catalog.equal_from_type_count)
             /\ catalog'.type2equal_from_type_count =
                  BumpIf(e.from = e.type, catalog.type2equal_from_type_count, e.type)
             /\ catalog'.equal_to_type_count = OneIf(e.type = e.to, catalog.equal_to_type_count)
             /\ catalog'.type2equal_to_type_count =
                  BumpIf(e.type = e.to, catalog.type2equal_to_type_count, e.type)
<1> DEFINE counted == CountNodes(catalog, trees, EdgeNodes(e))
<1>1. /\ DOMAIN counted = Fields /\ \A x \in Fields \ NodeCounts : counted[x] = catalog[x]
  BY NodeFields
<1>2. catalog' = [counted EXCEPT
                    !.connections_count = @ + 2,
                    !.type2total_count = Bump(@, e.type),
                    !.distinct_type = KeysAfter(catalog.type2total_count, e.type),
                    !.equal_from_to_count = OneIf(e.from = e.to, @),
                    !.equal_from_to_type_count = OneIf(e.from = e.to /\ e.from = e.type, @),
                    !.equal_from_type_count = OneIf(e.from = e.type, @),
                    !.equal_to_type_count = OneIf(e.type = e.to, @),
                    !.type2equal_from_to_count = BumpIf(e.from = e.to, @, e.type),
                    !.type2equal_from_to_type_count =
                       BumpIf(e.from = e.to /\ e.from = e.type, @, e.type),
                    !.type2equal_from_type_count = BumpIf(e.from = e.type, @, e.type),
                    !.type2equal_to_type_count = BumpIf(e.type = e.to, @, e.type)]
  BY DEF CountedEdge
<1> HIDE DEF counted
<1>3. /\ TypeFields \subseteq Fields \ NodeCounts /\ EqualFields \subseteq Fields \ NodeCounts
      /\ LabelFields \cup PropertyFields \subseteq Fields \ NodeCounts
      /\ NodeCounts \subseteq Fields
  BY DEF TypeFields, EqualFields, LabelFields, PropertyFields, Fields, NodeCounts, Maps
<1>4. /\ \A x \in NodeCounts : catalog'[x] = counted[x]
      /\ \A x \in LabelFields \cup PropertyFields : catalog'[x] = counted[x]
  BY <1>1, <1>2, <1>3 DEF NodeCounts, LabelFields, PropertyFields
<1>5. /\ catalog'.type2total_count = Bump(counted.type2total_count, e.type)
      /\ catalog'.distinct_type = KeysAfter(catalog.type2total_count, e.type)
  BY <1>1, <1>2, <1>3 DEF TypeFields
<1>6. /\ catalog'.equal_from_to_count = OneIf(e.from = e.to, counted.equal_from_to_count)
      /\ catalog'.equal_from_to_type_count =
           OneIf(e.from = e.to /\ e.from = e.type, counted.equal_from_to_type_count)
      /\ catalog'.equal_from_type_count = OneIf(e.from = e.type, counted.equal_from_type_count)
      /\ catalog'.equal_to_type_count = OneIf(e.type = e.to, counted.equal_to_type_count)
  BY <1>1, <1>2, <1>3 DEF EqualFields
<1>7. /\ catalog'.type2equal_from_to_count =
           BumpIf(e.from = e.to, counted.type2equal_from_to_count, e.type)
      /\ catalog'.type2equal_from_to_type_count =
           BumpIf(e.from = e.to /\ e.from = e.type, counted.type2equal_from_to_type_count, e.type)
      /\ catalog'.type2equal_from_type_count =
           BumpIf(e.from = e.type, counted.type2equal_from_type_count, e.type)
      /\ catalog'.type2equal_to_type_count =
           BumpIf(e.type = e.to, counted.type2equal_to_type_count, e.type)
  BY <1>1, <1>2, <1>3 DEF EqualFields
<1>8. \A x \in LabelFields \cup PropertyFields : catalog'[x] = catalog[x]
  BY <1>1, <1>3, <1>4
<1>9. counted.type2total_count = catalog.type2total_count
  BY <1>1, <1>3 DEF TypeFields
<1>10. \A x \in EqualFields : counted[x] = catalog[x]
  BY <1>1, <1>3
<1>11. /\ counted.equal_from_to_count = catalog.equal_from_to_count
       /\ counted.equal_from_to_type_count = catalog.equal_from_to_type_count
       /\ counted.equal_from_type_count = catalog.equal_from_type_count
       /\ counted.equal_to_type_count = catalog.equal_to_type_count
       /\ counted.type2equal_from_to_count = catalog.type2equal_from_to_count
       /\ counted.type2equal_from_to_type_count = catalog.type2equal_from_to_type_count
       /\ counted.type2equal_from_type_count = catalog.type2equal_from_type_count
       /\ counted.type2equal_to_type_count = catalog.type2equal_to_type_count
  BY <1>10 DEF EqualFields
<1> QED
  BY <1>4, <1>5, <1>6, <1>7, <1>8, <1>9, <1>11, Zenon DEF counted

\* A record that is there under a condition is counted under it.
LEMMA TallyIf ==
  ASSUME NEW S, IsFiniteSet(S), NEW c \in BOOLEAN, NEW x, x \notin S, NEW n,
         n = Cardinality(S)
  PROVE  OneIf(c, n) = Cardinality(S \cup When(c, x))
<1>1. CASE c
  <2>1. S \cup When(c, x) = S \cup {x}
    BY <1>1 DEF When
  <2>2. Cardinality(S \cup {x}) = Cardinality(S) + 1
    BY FS_AddElement
  <2> QED
    BY <1>1, <2>1, <2>2 DEF OneIf
<1>2. CASE ~c
  <2>1. S \cup When(c, x) = S
    BY <1>2 DEF When
  <2> QED
    BY <1>2, <2>1 DEF OneIf
<1> QED
  BY <1>1, <1>2

\* And it is counted under its first component.
LEMMA TallyByIf ==
  ASSUME NEW S, IsFiniteSet(S), NEW c \in BOOLEAN, NEW x, x \notin S, NEW k, c => x[1] = k,
         NEW map, map = CountBy(S)
  PROVE  BumpIf(c, map, k) = CountBy(S \cup When(c, x))
<1>1. CASE c
  <2>1. S \cup When(c, x) = S \cup {x} /\ x[1] = k
    BY <1>1 DEF When
  <2>2. CountBy(S \cup {x}) = Bump(CountBy(S), x[1])
    BY CountByMore
  <2> QED
    BY <1>1, <2>1, <2>2 DEF BumpIf
<1>2. CASE ~c
  <2>1. S \cup When(c, x) = S
    BY <1>2 DEF When
  <2> QED
    BY <1>2, <2>1 DEF BumpIf
<1> QED
  BY <1>1, <1>2

\* An edge is counted with its new nodes, under its type, and once more for each
\* pair of its ends and its type that coincide.
LEMMA EdgeCounts ==
  ASSUME CountInv, InsertEdge
  PROVE  Counted'
<1> USE DEF CountInv, Counted
<1>1. PICK e \in EdgeRec :
        /\ e.id = catalog.connections_count + 1
        /\ Round(EdgeNodes(e), EdgeRecords(e) \o EqualRecords(e),
                 [todo EXCEPT !.edges = Tail(@)], CountedEdge(e))
  BY EdgeRound, Zenon
<1>2. /\ trees'["nodes"] = trees["nodes"] \cup {<<o>> : o \in EdgeNodes(e)}
      /\ \A t \in {"label_node", "node_label", "object_key_value", "key_value_object"} :
           trees'[t] = trees[t]
      /\ trees'["type_from_to_edge"] = trees["type_from_to_edge"] \cup {TypeFromToEdge(e)}
      /\ trees'["equal_from_to"] =
           trees["equal_from_to"] \cup When(e.from = e.to, <<e.from, e.type, e.id>>)
      /\ trees'["equal_from_to_inverted"] =
           trees["equal_from_to_inverted"] \cup When(e.from = e.to, <<e.type, e.from, e.id>>)
      /\ trees'["equal_from_to_type"] =
           trees["equal_from_to_type"] \cup When(e.from = e.to /\ e.from = e.type, <<e.from, e.id>>)
      /\ trees'["equal_from_type"] =
           trees["equal_from_type"] \cup When(e.from = e.type, <<e.from, e.to, e.id>>)
      /\ trees'["equal_to_type"] =
           trees["equal_to_type"] \cup When(e.type = e.to, <<e.to, e.from, e.id>>)
      /\ catalog' = CountedEdge(e)
  <2>1. Shapes /\ Given
    BY DEF QuadInv
  <2> QED
    BY <1>1, <2>1, RoundOfEdge
<1>3. imported' = imported /\ Shapes
  BY DEF InsertEdge, QuadInv
<1>4. e.id \in Nat /\ e.id \notin 0 .. catalog.connections_count
  BY <1>1 DEF EdgeRec, QuadInv, Shapes
<1>5. CountedNodes'
  <2>1. IsFiniteSet(EdgeNodes(e))
    <3>1. EdgeNodes(e) = ({e.from} \cup {e.to}) \cup {e.type}
      BY DEF EdgeNodes
    <3>2. IsFiniteSet({e.from} \cup {e.to})
      BY FS_Singleton, FS_AddElement
    <3>3. IsFiniteSet(({e.from} \cup {e.to}) \cup {e.type})
      BY <3>2, FS_AddElement
    <3> QED
      BY <3>1, <3>3
  <2>2. /\ catalog'.identifiable_nodes_count =
             CountNodes(catalog, trees, EdgeNodes(e)).identifiable_nodes_count
        /\ catalog'.anonymous_nodes_count =
             CountNodes(catalog, trees, EdgeNodes(e)).anonymous_nodes_count
    BY <1>2, <1>3, EdgeFields DEF NodeCounts
  <2> QED
    BY <1>2, <1>3, <2>1, <2>2, NodesCounted
<1>6. CountedLabels' /\ CountedProperties'
  <2>1. \A x \in LabelFields \cup PropertyFields : catalog'[x] = catalog[x]
    BY <1>2, <1>3, EdgeFields
  <2> QED
    BY <1>2, <1>3, <2>1, KeepLabels, KeepProperties
<1>7. CountedTypes'
  <2> DEFINE S == trees["type_from_to_edge"]
             x == TypeFromToEdge(e)
  <2>1. x[4] = e.id /\ x[1] = e.type
    BY DEF TypeFromToEdge
  <2>2. IsFiniteSet(S) /\ x \notin S
    BY <1>4, <2>1 DEF QuadInv, Given, QuadTrees, Finite, Trees
  <2>3. trees'["type_from_to_edge"] = S \cup {x} /\ catalog.type2total_count = CountBy(S)
    BY <1>2 DEF CountedTypes
  <2>4. /\ catalog'.type2total_count = Bump(catalog.type2total_count, e.type)
        /\ catalog'.distinct_type = KeysAfter(catalog.type2total_count, e.type)
    BY <1>2, <1>3, EdgeFields
  <2> HIDE DEF S, x
  <2>5. CountBy(S \cup {x}) = Bump(CountBy(S), x[1])
    BY <2>2, CountByMore
  <2>6. DOMAIN Bump(catalog.type2total_count, e.type) = DOMAIN catalog.type2total_count \cup {e.type}
    BY DEF Bump
  <2> QED
    BY <2>1, <2>3, <2>4, <2>5, <2>6 DEF CountedTypes, KeysAfter
<1>8. CountedEqual'
  <2>1. ASSUME NEW t \in EqualTrees, NEW x, x[3] = e.id
        PROVE  IsFiniteSet(trees[t]) /\ x \notin trees[t]
    BY <1>4, <2>1 DEF QuadInv, Given, EqualTrees, Finite, Trees
  <2>2. /\ IsFiniteSet(trees["equal_from_to_type"])
        /\ <<e.from, e.id>> \notin trees["equal_from_to_type"]
    BY <1>4 DEF QuadInv, Given, Finite, Trees
  <2>3. Tallied(catalog'.equal_from_type_count, catalog'.type2equal_from_type_count,
                trees'["equal_from_type"])
    <3> DEFINE S == trees["equal_from_type"]
               x == <<e.from, e.to, e.id>>
               c == e.from = e.type
    <3>1. c \in BOOLEAN /\ x[3] = e.id /\ (c => x[1] = e.type)
      OBVIOUS
    <3>2. IsFiniteSet(S) /\ x \notin S
      BY <2>1, <3>1 DEF EqualTrees
    <3>3. /\ catalog.equal_from_type_count = Cardinality(S)
          /\ catalog.type2equal_from_type_count = CountBy(S)
      BY DEF CountedEqual, Tallied
    <3>4. /\ catalog'.equal_from_type_count = OneIf(c, catalog.equal_from_type_count)
          /\ catalog'.type2equal_from_type_count =
               BumpIf(c, catalog.type2equal_from_type_count, e.type)
          /\ trees'["equal_from_type"] = S \cup When(c, x)
      BY <1>2, <1>3, EdgeFields
    <3> HIDE DEF S, x, c
    <3> QED
      BY <3>1, <3>2, <3>3, <3>4, TallyIf, TallyByIf DEF Tallied
  <2>4. Tallied(catalog'.equal_to_type_count, catalog'.type2equal_to_type_count,
                trees'["equal_to_type"])
    <3> DEFINE S == trees["equal_to_type"]
               x == <<e.to, e.from, e.id>>
               c == e.type = e.to
    <3>1. c \in BOOLEAN /\ x[3] = e.id /\ (c => x[1] = e.type)
      OBVIOUS
    <3>2. IsFiniteSet(S) /\ x \notin S
      BY <2>1, <3>1 DEF EqualTrees
    <3>3. /\ catalog.equal_to_type_count = Cardinality(S)
          /\ catalog.type2equal_to_type_count = CountBy(S)
      BY DEF CountedEqual, Tallied
    <3>4. /\ catalog'.equal_to_type_count = OneIf(c, catalog.equal_to_type_count)
          /\ catalog'.type2equal_to_type_count =
               BumpIf(c, catalog.type2equal_to_type_count, e.type)
          /\ trees'["equal_to_type"] = S \cup When(c, x)
      BY <1>2, <1>3, EdgeFields
    <3> HIDE DEF S, x, c
    <3> QED
      BY <3>1, <3>2, <3>3, <3>4, TallyIf, TallyByIf DEF Tallied
  <2>5. Tallied(catalog'.equal_from_to_type_count, catalog'.type2equal_from_to_type_count,
                trees'["equal_from_to_type"])
    <3> DEFINE S == trees["equal_from_to_type"]
               x == <<e.from, e.id>>
               c == e.from = e.to /\ e.from = e.type
    <3>1. c \in BOOLEAN /\ (c => x[1] = e.type)
      OBVIOUS
    <3>3. /\ catalog.equal_from_to_type_count = Cardinality(S)
          /\ catalog.type2equal_from_to_type_count = CountBy(S)
      BY DEF CountedEqual, Tallied
    <3>4. /\ catalog'.equal_from_to_type_count = OneIf(c, catalog.equal_from_to_type_count)
          /\ catalog'.type2equal_from_to_type_count =
               BumpIf(c, catalog.type2equal_from_to_type_count, e.type)
          /\ trees'["equal_from_to_type"] = S \cup When(c, x)
      BY <1>2, <1>3, EdgeFields
    <3>5. IsFiniteSet(S) /\ x \notin S
      BY <2>2
    <3> HIDE DEF S, x, c
    <3> QED
      <4>1. OneIf(c, catalog.equal_from_to_type_count) = Cardinality(S \cup When(c, x))
        BY <3>1, <3>3, <3>5, TallyIf
      <4>2. BumpIf(c, catalog.type2equal_from_to_type_count, e.type)
              = CountBy(S \cup When(c, x))
        <5>1. c \in BOOLEAN
          BY <3>1
        <5>2. c => x[1] = e.type
          BY <3>1
        <5>3. IsFiniteSet(S)
          BY <3>5
        <5>4. x \notin S
          BY <3>5
        <5>5. catalog.type2equal_from_to_type_count = CountBy(S)
          BY <3>3
        <5> DEFINE m == catalog.type2equal_from_to_type_count
                   k == e.type
        <5> HIDE DEF m, k
        <5>6. ASSUME c => x[1] = k, m = CountBy(S)
              PROVE  BumpIf(c, m, k) = CountBy(S \cup When(c, x))
          BY <5>1, <5>3, <5>4, <5>6, TallyByIf
        <5> QED
          BY <5>2, <5>5, <5>6 DEF m, k
      <4> QED
        BY <3>4, <4>1, <4>2 DEF Tallied
  <2>6. catalog'.equal_from_to_count = Cardinality(trees'["equal_from_to"])
    <3> DEFINE S == trees["equal_from_to"]
               x == <<e.from, e.type, e.id>>
               c == e.from = e.to
    <3>1. c \in BOOLEAN /\ x[3] = e.id
      OBVIOUS
    <3>2. IsFiniteSet(S) /\ x \notin S
      BY <2>1, <3>1 DEF EqualTrees
    <3>3. catalog.equal_from_to_count = Cardinality(S)
      BY DEF CountedEqual
    <3>4. /\ catalog'.equal_from_to_count = OneIf(c, catalog.equal_from_to_count)
          /\ trees'["equal_from_to"] = S \cup When(c, x)
      BY <1>2, <1>3, EdgeFields
    <3> HIDE DEF S, x, c
    <3>5. OneIf(c, catalog.equal_from_to_count) = Cardinality(S \cup When(c, x))
      BY <3>1, <3>2, <3>3, TallyIf
    <3> QED
      BY <3>4, <3>5
  <2>7. catalog'.type2equal_from_to_count = CountBy(trees'["equal_from_to_inverted"])
    <3> DEFINE S == trees["equal_from_to_inverted"]
               x == <<e.type, e.from, e.id>>
               c == e.from = e.to
    <3>1. c \in BOOLEAN /\ x[3] = e.id /\ (c => x[1] = e.type)
      OBVIOUS
    <3>2. IsFiniteSet(S) /\ x \notin S
      BY <2>1, <3>1 DEF EqualTrees
    <3>3. catalog.type2equal_from_to_count = CountBy(S)
      BY DEF CountedEqual
    <3>4. /\ catalog'.type2equal_from_to_count =
               BumpIf(c, catalog.type2equal_from_to_count, e.type)
          /\ trees'["equal_from_to_inverted"] = S \cup When(c, x)
      BY <1>2, <1>3, EdgeFields
    <3> HIDE DEF S, x, c
    <3>5. BumpIf(c, catalog.type2equal_from_to_count, e.type) = CountBy(S \cup When(c, x))
      BY <3>1, <3>2, <3>3, TallyByIf
    <3> QED
      BY <3>4, <3>5
  <2> QED
    BY <2>3, <2>4, <2>5, <2>6, <2>7 DEF CountedEqual
<1>9. Grown'
  BY <1>2, <1>3 DEF Grown
<1> QED
  BY <1>5, <1>6, <1>7, <1>8, <1>9

LEMMA StepCounts == CountInv /\ [Next]_vars => CountInv'
<1> SUFFICES ASSUME CountInv, [Next]_vars PROVE CountInv'
  OBVIOUS
<1>1. QuadInv' /\ Counted
  BY StepInv DEF CountInv
<1>2. Counted'
  <2>1. CASE UNCHANGED vars
    BY <1>1, <2>1, QuietCounts DEF vars
  <2>2. CASE \E s \in Statements : Start(s)
    BY <1>1, <2>2, QuietCounts DEF Start
  <2>3. CASE InsertLabel
    BY <2>3, LabelCounts
  <2>4. CASE InsertProperty
    BY <2>4, PropertyCounts
  <2>5. CASE InsertEdge
    BY <2>5, EdgeCounts
  <2>6. CASE Close
    BY <1>1, <2>6, QuietCounts DEF Close
  <2>7. CASE Open
    <3>1. UNCHANGED <<imported, trees, catalog>>
      BY <2>7 DEF Open, CountInv, QuadInv, Closed
    <3> QED
      BY <1>1, <3>1, QuietCounts
  <2> QED
    BY <2>1, <2>2, <2>3, <2>4, <2>5, <2>6, <2>7 DEF Next
<1> QED
  BY <1>1, <1>2 DEF CountInv

\* The counts that exec_inserts keeps in QuadCatalog are those of the B+ trees,
\* for every file, duplicate lines, anonymous nodes and properties of edges
\* included, however many statements were cut off by a record that a tree already
\* had and however often the database was closed and opened: a label, a property
\* or an edge is counted after the trees have taken it, a node when it is new.
THEOREM CountsCorrect == Spec => []CountsExact
<1>1. Init => CountInv
  BY InitInv, InitCounts DEF CountInv
<1>2. CountInv => CountsExact
  BY DEF CountInv, Counted, CountedNodes, CountedLabels, CountedProperties, CountedTypes,
         CountedEqual, Tallied, CountsExact
<1> QED
  BY <1>1, <1>2, StepCounts, PTL DEF Spec

=============================================================================

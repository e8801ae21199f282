----------------------------- MODULE BPlusTree ------------------------------
(***************************************************************************)
(* The B+ tree index (storage/index/bplus_tree): an import writes the tree *)
(* from sorted records (bpt_mem_import.h, import/disk_vector.h), inserts   *)
(* descend from the root, page 0 of the .dir file, and split full pages,   *)
(* and range scans follow the list of leaves.  The order of the records is *)
(* all that the tree uses of them, so a record is a number.                *)
(*                                                                         *)
(* New pages come from append_page, whose page number is the size of the   *)
(* file: the file grows only when the pool writes the new page back, and   *)
(* until then append_page gives the same page again.  `reused' is a history *)
(* variable, not part of the program: append_page has given a page that was *)
(* in use.  From there on two parts of the tree are one page, directories   *)
(* may even reach themselves, and the model stops following the inserts.    *)
(***************************************************************************)
EXTENDS Integers, Sequences, FiniteSets, SequencesExt

CONSTANTS
  MaxRecord,  \* records are 1 .. MaxRecord
  LeafMax,    \* leaf_max_records
  DirMax,     \* dir_max_records
  Imports,    \* the sets of records that an import may start from
  MaxLeaves,  \* bound: pages of the .leaf file
  MaxDirs     \* bound: pages of the .dir file

ASSUME TreeAssumption ==
  /\ MaxRecord \in Nat /\ MaxLeaves \in Nat /\ MaxDirs \in Nat
  /\ LeafMax \in Nat /\ LeafMax > 1
  /\ DirMax \in Nat /\ DirMax > 1
  /\ \A S \in Imports : S \subseteq 1 .. MaxRecord

VARIABLES
  leaves,      \* leaves[p]: records, value_count and next_leaf of page p
  dirs,        \* dirs[p]: the keys in use and the children of page p
  leaf_pages,  \* pages of the .leaf file on disk
  dir_pages,   \* pages of the .dir file on disk
  unwritten,   \* the files whose last page is only in the buffer
  present,     \* the records imported and inserted
  reused       \* history: append_page has given a page that was in use

vars == <<leaves, dirs, leaf_pages, dir_pages, unwritten, present, reused>>

Records    == 1 .. MaxRecord
LeafPages  == 0 .. MaxLeaves - 1
DirPages   == 0 .. MaxDirs - 1
Slots      == 0 .. LeafMax - 1
Zeros      == [records |-> [i \in Slots |-> 0], value_count |-> 0, next_leaf |-> 0]
NoDir      == [keys |-> << >>, children |-> <<0>>]
NoSplit    == [key |-> 0, page |-> 0]

\* The records of S in order: the i-th has i - 1 others below it.
Sorted(S) ==
  [i \in 1 .. Cardinality(S) |-> CHOOSE r \in S : Cardinality({x \in S : x < r}) = i - 1]

-----------------------------------------------------------------------------
(* The import.  Every leaf is full but the last; a pointer to a directory   *)
(* is negative.                                                             *)

ImportedLeaf(S, p) ==
  LET seq == Sorted(S)
      size == IF (p + 1) * LeafMax < Len(seq) THEN LeafMax ELSE Len(seq) - p * LeafMax
  IN  [records |-> [i \in Slots |-> IF i < size THEN seq[p * LeafMax + i + 1] ELSE 0],
       value_count |-> size,
       next_leaf |-> IF (p + 1) * LeafMax < Len(seq) THEN p + 1 ELSE 0]

LeafCount(S) ==
  LET n == Len(Sorted(S)) IN IF n = 0 THEN 1 ELSE (n + LeafMax - 1) \div LeafMax

\* BPTDirWriter::bulk_insert at directory d: s has the directories written so
\* far, their number, and the key and page that came from the level below.
BulkStep(d, s) ==
  LET n == s.count
      dir == s.dirs[d]
      last == [keys |-> << >>, children |-> <<s.split.page>>]
  IN  IF s.split = NoSplit THEN s
      ELSE IF Len(dir.keys) < DirMax
        THEN [s EXCEPT !.dirs[d] = [keys |-> Append(dir.keys, s.split.key),
                                    children |-> Append(dir.children, s.split.page)],
                       !.split = NoSplit]
      ELSE IF d # 0
        THEN [s EXCEPT !.dirs[n] = last, !.count = n + 1,
                       !.split = [key |-> s.split.key, page |-> -n]]
        ELSE [s EXCEPT !.dirs[n] = dir, !.dirs[n + 1] = last,
                       !.dirs[0] = [keys |-> <<s.split.key>>,
                                    children |-> <<-n, -(n + 1)>>],
                       !.count = n + 2, !.split = NoSplit]

\* It goes down to the last leaf first: the steps are taken from there upwards.
BulkInsert(s, p, key) ==
  LET after[d \in DirPages] ==
        LET c == Last(s.dirs[d].children)
        IN  BulkStep(d, IF c < 0 THEN after[-c]
                                 ELSE [s EXCEPT !.split = [key |-> key, page |-> p]])
  IN  after[0]

\* Every leaf but the first goes to the directories, in order.  Bound: past
\* MaxDirs pages no more are written.
DirsAfter(S) ==
  LET written[p \in 0 .. LeafCount(S) - 1] ==
        IF p = 0 THEN [dirs |-> [d \in DirPages |-> NoDir], count |-> 1, split |-> NoSplit]
        ELSE IF written[p - 1].count > MaxDirs THEN written[p - 1]
        ELSE BulkInsert(written[p - 1], p, ImportedLeaf(S, p).records[0])
  IN  written

ImportedDirs(S) == DirsAfter(S)[LeafCount(S) - 1]

\* Bounds of the imports: there is a page for every leaf and every directory.
Fits(S) == LeafCount(S) <= MaxLeaves /\ ImportedDirs(S).count <= MaxDirs

Init ==
  \E S \in Imports :
    /\ Fits(S)
    /\ leaves = [p \in LeafPages |-> IF p < LeafCount(S) THEN ImportedLeaf(S, p) ELSE Zeros]
    /\ leaf_pages = LeafCount(S)
    /\ dirs = ImportedDirs(S).dirs
    /\ dir_pages = ImportedDirs(S).count
    /\ unwritten = {}
    /\ present = S
    /\ reused = FALSE

-----------------------------------------------------------------------------
(* Searching.                                                               *)

\* BPlusTreeLeaf::search_index, a binary search over the records in use.
\* Mutant: the last record looked at is not compared.
SearchIndexEarly(l, r) ==
  LET at[s \in [from : 0 .. LeafMax, to : -1 .. LeafMax]] ==
        LET middle == (s.from + s.to) \div 2 IN
        IF s.from >= s.to THEN s.from
        ELSE IF r < l.records[middle] THEN at[[s EXCEPT !.to = middle - 1]]
        ELSE IF r > l.records[middle] THEN at[[s EXCEPT !.from = middle + 1]]
        ELSE middle
  IN  at[[from |-> 0, to |-> l.value_count - 1]]

SearchIndex(l, r) ==
  LET at[s \in [from : 0 .. LeafMax, to : -1 .. LeafMax]] ==
        LET middle == (s.from + s.to) \div 2 IN
        IF s.from >= s.to THEN IF r > l.records[s.from] THEN s.from + 1 ELSE s.from
        ELSE IF r < l.records[middle] THEN at[[s EXCEPT !.to = middle - 1]]
        ELSE IF r > l.records[middle] THEN at[[s EXCEPT !.from = middle + 1]]
        ELSE middle
  IN  at[[from |-> 0, to |-> l.value_count - 1]]

\* BPlusTreeDir::search_child_index.
DirSpans == {s \in [from : 0 .. DirMax, to : 0 .. DirMax] : s.from <= s.to}

\* Mutant: a record equal to a key goes to the left of it.
SearchChildLeft(dir, r) ==
  LET at[s \in DirSpans] ==
        LET middle == (s.from + s.to + 1) \div 2 - 1 IN
        IF s.from = s.to THEN s.from
        ELSE IF r <= dir.keys[middle + 1] THEN at[[s EXCEPT !.to = middle]]
        ELSE at[[s EXCEPT !.from = middle + 1]]
  IN  at[[from |-> 0, to |-> Len(dir.keys)]]

SearchChild(dir, r) ==
  LET at[s \in DirSpans] ==
        LET middle == (s.from + s.to + 1) \div 2 - 1 IN
        IF s.from = s.to THEN s.from
        ELSE IF r < dir.keys[middle + 1] THEN at[[s EXCEPT !.to = middle]]
        ELSE at[[s EXCEPT !.from = middle + 1]]
  IN  at[[from |-> 0, to |-> Len(dir.keys)]]

Child(d, r) == dirs[d].children[SearchChild(dirs[d], r) + 1]

\* From the root down to the leaf for r.
LeafFor(r) ==
  LET below[d \in DirPages] == IF Child(d, r) < 0 THEN below[-Child(d, r)] ELSE Child(d, r)
  IN  below[0]

-----------------------------------------------------------------------------
(* BPlusTree::insert.                                                       *)

\* The slot at index holds the record.  Past value_count it is a slot that is
\* not in use, and past the page it belongs to another frame, which starts
\* with the header of a page and not with an object id.
EqualRecord(l, r, i) == i < LeafMax /\ l.records[i] = r

\* The records after shift_right_records and the assignment, and the one that
\* does not fit any more.
Shifted(l, r, i) ==
  [k \in 0 .. LeafMax |->
     IF k = i THEN r
     ELSE IF k > i /\ k <= l.value_count THEN l.records[k - 1]
     ELSE IF k < LeafMax THEN l.records[k] ELSE 0]

FirstSlots(all) == [k \in Slots |-> all[k]]

\* Mutant: half of the page, rounded down, whatever it holds.
MiddleLow(n) == n \div 2
Middle(n) == (n + 1) \div 2

\* A full leaf p keeps the first half; the rest goes to the new leaf n, whose
\* other slots keep what they had.  The order is that of the code, which
\* matters when n is p.
SplitLeaf(p, n, all) ==
  LET m == Middle(LeafMax) IN
  [leaves EXCEPT ![n].next_leaf = leaves[p].next_leaf,
                 ![p].next_leaf = n,
                 ![p].records = FirstSlots(all),
                 ![p].value_count = m,
                 ![n].records = [k \in Slots |-> IF k <= LeafMax - m THEN all[m + k]
                                                  ELSE leaves[n].records[k]],
                 ![n].value_count = LeafMax \div 2 + 1]

\* BPlusTreeDir::insert at directory d after the level below returned: s has
\* the directories, how many pages were asked for, and the split.
\* The two pages of a root split are asked for one after the other.
DirStep(d, s) ==
  LET dir == s.dirs[d]
      i == SearchChild(dir, s.split.key)
      keys == InsertAt(dir.keys, i + 1, s.split.key)
      children == InsertAt(dir.children, i + 2, s.split.page)
      m == Middle(DirMax)
      left == [keys |-> SubSeq(keys, 1, m), children |-> SubSeq(children, 1, m + 1)]
      right == [keys |-> SubSeq(keys, m + 2, DirMax + 1),
                children |-> SubSeq(children, m + 2, DirMax + 2)]
      new_page == dir_pages
      new_left == dir_pages
      new_right == dir_pages
  IN  IF s.split = NoSplit THEN s
      ELSE IF Len(dir.keys) < DirMax
        THEN [s EXCEPT !.dirs[d] = [keys |-> keys, children |-> children],
                       !.split = NoSplit]
      ELSE IF d = 0
        THEN [s EXCEPT !.dirs[new_left] = left, !.dirs[new_right] = right,
                       !.dirs[0] = [keys |-> <<keys[m + 1]>>,
                                    children |-> <<-new_left, -new_right>>],
                       !.asked = @ + 2, !.split = NoSplit]
        ELSE [s EXCEPT !.dirs[d] = left, !.dirs[new_page] = right,
                       !.asked = @ + 1, !.split = [key |-> keys[m + 1], page |-> -new_page]]

\* The directories after a split of the leaf for r, from the leaf upwards.
Propagated(r, split) ==
  LET after[d \in DirPages] ==
        DirStep(d, IF Child(d, r) < 0 THEN after[-Child(d, r)]
                   ELSE [dirs |-> dirs, asked |-> 0, split |-> split])
  IN  after[0]

\* Bounds of the insertions: the tree is one still, and there is a page left to
\* append.
MayInsert ==
  /\ ~reused
  /\ leaf_pages < MaxLeaves /\ dir_pages < MaxDirs

\* The leaf has the record: LogicException.
Rejected(r) ==
  LET l == leaves[LeafFor(r)] IN
    l.value_count > 0 /\ EqualRecord(l, r, SearchIndex(l, r))

InsertDuplicate(r) ==
  /\ MayInsert
  /\ Rejected(r)
  /\ UNCHANGED vars

HasRoom(l) == l.value_count < LeafMax

\* The leaf has room, or is empty.
InsertInLeaf(r) ==
  /\ MayInsert
  /\ LET p == LeafFor(r)
         l == leaves[p]
         i == IF l.value_count = 0 THEN 0 ELSE SearchIndex(l, r)
     IN /\ ~Rejected(r)
        /\ HasRoom(l)
        /\ leaves' = [leaves EXCEPT ![p].records = FirstSlots(Shifted(l, r, i)),
                                    ![p].value_count = @ + 1]
  /\ present' = present \cup {r}
  /\ UNCHANGED <<dirs, leaf_pages, dir_pages, unwritten, reused>>

\* The new leaf is still the one of an earlier split, or a new directory is the
\* one of an earlier split, or of this one.
GivesUsedPage(asked) ==
  "leaf" \in unwritten \/ (asked > 0 /\ "dir" \in unwritten) \/ asked > 1

\* The leaf is full: it splits, and so may the directories above it.
InsertAndSplit(r) ==
  /\ MayInsert
  /\ LET p == LeafFor(r)
         l == leaves[p]
         i == SearchIndex(l, r)
         n == leaf_pages
         all == Shifted(l, r, i)
         up == Propagated(r, [key |-> all[Middle(LeafMax)], page |-> n])
     IN /\ ~Rejected(r)
        /\ ~HasRoom(l)
        /\ leaves' = SplitLeaf(p, n, all)
        /\ dirs' = up.dirs
        /\ unwritten' = unwritten \cup {"leaf"} \cup (IF up.asked > 0 THEN {"dir"} ELSE {})
        /\ reused' = GivesUsedPage(up.asked)
  /\ present' = present \cup {r}
  /\ UNCHANGED <<leaf_pages, dir_pages>>

\* The pool writes an appended page back, and its file grows.
WriteBack(file) ==
  /\ file \in unwritten
  /\ unwritten' = unwritten \ {file}
  /\ leaf_pages' = IF file = "leaf" THEN leaf_pages + 1 ELSE leaf_pages
  /\ dir_pages' = IF file = "dir" THEN dir_pages + 1 ELSE dir_pages
  /\ UNCHANGED <<leaves, dirs, present, reused>>

\* The bounds are reached, or a page was given twice.
Stopped ==
  /\ unwritten = {} /\ ~MayInsert
  /\ UNCHANGED vars

Next ==
  \/ \E r \in Records : InsertDuplicate(r) \/ InsertInLeaf(r) \/ InsertAndSplit(r)
  \/ \E file \in {"leaf", "dir"} : WriteBack(file)
  \/ Stopped

Spec == Init /\ [][Next]_vars

-----------------------------------------------------------------------------
(* Range scans: get_range(min, max) and BptIter::next until it ends.        *)

InUse(l) == [i \in 1 .. l.value_count |-> l.records[i - 1]]

\* The records from leaf p on; after MaxLeaves leaves the list is circular,
\* and the scan would not end.
FromLeaf(p) ==
  LET from[s \in [leaf : LeafPages, fuel : 0 .. MaxLeaves]] ==
        LET l == leaves[s.leaf] IN
        InUse(l) \o
          (IF l.next_leaf = 0 \/ s.fuel = 0 THEN << >>
           ELSE from[[leaf |-> l.next_leaf, fuel |-> s.fuel - 1]])
  IN  from[[leaf |-> p, fuel |-> MaxLeaves]]

Scan(min, max) ==
  LET p == LeafFor(min)
      all == FromLeaf(p)
      rest == SubSeq(all, SearchIndex(leaves[p], min) + 1, Len(all))
      stop == SelectInSeq(rest, LAMBDA r : r > max)
  IN  IF stop = 0 THEN rest ELSE SubSeq(rest, 1, stop - 1)

\* BPlusTreeLeaf::check and BPlusTreeDir::check, of the whole tree.
LeafCheck(p) ==
  LET s == InUse(leaves[p]) IN
    /\ leaves[p].value_count > 0 \/ p = 0
    /\ \A i \in 1 .. Len(s) - 1 : s[i] < s[i + 1]

KeysOf(c) == IF c < 0 THEN dirs[-c].keys ELSE InUse(leaves[c])

Check ==
  LET ok[d \in DirPages] ==
        LET keys == dirs[d].keys
            kids == dirs[d].children
        IN /\ Len(keys) <= DirMax
           /\ \A i \in 1 .. Len(keys) - 1 : keys[i] < keys[i + 1]
           /\ \A i \in 1 .. Len(keys) :
                /\ Last(KeysOf(kids[i])) < keys[i]
                /\ KeysOf(kids[i + 1]) # << >> => keys[i] <= Head(KeysOf(kids[i + 1]))
           /\ \A i \in 1 .. Len(keys) + 1 :
                IF kids[i] < 0 THEN ok[-kids[i]] ELSE LeafCheck(kids[i])
  IN  ok[0]

-----------------------------------------------------------------------------
TypeOK ==
  /\ leaves \in [LeafPages -> [records : [Slots -> 0 .. MaxRecord],
                               value_count : 0 .. LeafMax, next_leaf : LeafPages]]
  /\ \A d \in DirPages :
       /\ dirs[d].keys \in Seq(Records) /\ Len(dirs[d].keys) <= DirMax
       /\ Len(dirs[d].children) = Len(dirs[d].keys) + 1
  /\ leaf_pages \in 1 .. MaxLeaves /\ dir_pages \in 1 .. MaxDirs
  /\ unwritten \subseteq {"leaf", "dir"}
  /\ present \subseteq Records /\ reused \in BOOLEAN

\* As long as append_page has given new pages (its promise, which it breaks when
\* an earlier page is still in the buffer), a range scan returns exactly the
\* records of the index in the range, in order and once each, after any sequence
\* of inserts, splits and write-backs, wherever the bounds of the range fall (in
\* a leaf, between two leaves, on a split key).
ScanExact ==
  ~reused => \A min, max \in Records :
               min <= max => Scan(min, max) = Sorted(present \cap (min .. max))

\* As long as append_page has given new pages, check() finds no error: keys and
\* records are in order, every key separates its children, and no leaf is empty
\* but that of an empty tree.
CheckPasses == ~reused => TypeOK /\ Check

\* As long as append_page has given new pages, a record is refused as a duplicate
\* when it is in the index, and only then: the slots past value_count, which
\* equal_record may look at, never hold the record that is being inserted.
DuplicatesExact == ~reused => \A r \in Records : Rejected(r) <=> r \in present
=============================================================================

---------------------------- MODULE StringsHash -----------------------------
(***************************************************************************)
(* The hash from strings to ids (storage/index/hash/strings_hash), an      *)
(* extendible hash: a directory of 2^global_depth bucket numbers, always   *)
(* in memory, and one page of the buffer pool per bucket.  The import      *)
(* builds it (strings_hash_bulk_import.h) and numbers the buckets in the   *)
(* order of their creation; the running database then adds strings to it   *)
(* (strings_hash.cc) and numbers a new bucket by the suffix of its hashes. *)
(*                                                                         *)
(* A string keeps its hash.  Its id is its place in the StringManager,     *)
(* which stores it when a key is appended and compares it with the string  *)
(* that is looked up.  Ids grow, keys are appended and a split keeps their *)
(* order: the keys of a page are a set, and its order is that of the ids.  *)
(*                                                                         *)
(* `damage' is a history variable, not part of the program: which of the   *)
(* things that this code does not keep safe have happened.                 *)
(***************************************************************************)
EXTENDS StringManager

CONSTANTS
  Hash,           \* Hash[s]: XXH3_64bits
  Imports,        \* the sequences of strings that an import may write
  NoStr,          \* no string is being inserted
  DefaultDepth,   \* DEFAULT_GLOBAL_DEPTH
  MaxKeys,        \* StringsHashBucket::MAX_KEYS
  MaxDepth,       \* bound: the directory is not doubled beyond this depth
  MaxCreated,     \* bound: how many strings queries store
  MaxRestarts     \* bound: how often the database is closed and opened

ASSUME HashAssumption ==
  /\ Hash \in [Str -> Nat] /\ NoStr \notin Str
  /\ \A q \in Imports : Range(q) \subseteq Str /\ IsInjective(q)
  /\ DefaultDepth \in Nat /\ MaxDepth \in Nat /\ DefaultDepth <= MaxDepth
  /\ MaxKeys \in Nat \ {0} /\ MaxRestarts \in Nat /\ MaxCreated \in Nat

VARIABLES
  phase,         \* "import", "online" or "closed"
  import,        \* the strings of the import
  global_depth,
  dir,           \* dir[suffix]: bucket number
  buckets,       \* the pages as the pool (or the import) has them
  disk,          \* the pages of str_hash.dat
  dirty,         \* the pages that the pool has to write back
  dir_file,      \* str_hash.dir: depth and directory
  stored,        \* the strings that were stored, in this order, each with its id
  inserting,     \* the string of the loop of get_or_create_str_id
  restarts,
  damage         \* history: what has gone wrong, see Causes

vars == <<phase, import, global_depth, dir, buckets, disk, dirty, dir_file, stored,
          inserting, restarts, damage, stringVars>>

Numbers  == 0 .. 2 ^ MaxDepth - 1
ZeroPage == [keys |-> {}, local_depth |-> 0]
\* What may go wrong.
\*   "split":  a page that a split changed left the pool, which had not been told
\*             that it was dirty (an eviction or the end of the program);
\*   "number": a query gave a new bucket a number that is not its suffix, or that
\*             another bucket has, the import having numbered them otherwise;
\*   "cut":    a query stored, or looked up, a string that lies in two blocks;
\*   "block":  the database was closed after a block had been appended.
Causes   == {"split", "number", "cut", "block"}
NoId     == 0  \* OBJECT_ID_NOT_FOUND; place 0 is the metadata

Suffix(hash, depth) == hash % 2 ^ depth
BucketOf(s)         == dir[Suffix(Hash[s], global_depth)]
Full(b)             == Cardinality(buckets[b].keys) = MaxKeys

\* The loop of StringsHashBucket::get_str_id over the keys of bucket b: the ids
\* for which it may return, of which it returns the first.
Matches(b, s) ==
  {k.id : k \in {k \in buckets[b].keys : k.hash = Hash[s] /\ StrEq(bytes, s, k.id)}}

FirstOf(ids) == CHOOSE id \in ids : \A other \in ids \ {id} : id < other
FindIn(b, s) == IF Matches(b, s) = {} THEN NoId ELSE FirstOf(Matches(b, s))

\* StringsHash::get_str_id.
Lookup(s) == FindIn(BucketOf(s), s)

-----------------------------------------------------------------------------
Init ==
  /\ phase = "import"
  /\ import \in Imports
  /\ global_depth = DefaultDepth
  /\ dir = [i \in 0 .. 2 ^ DefaultDepth - 1 |-> i]
  /\ buckets = [b \in Numbers |->
                  IF b < 2 ^ DefaultDepth
                  THEN [keys |-> {}, local_depth |-> DefaultDepth] ELSE ZeroPage]
  /\ disk = [b \in Numbers |-> ZeroPage]
  /\ dirty = {}
  /\ dir_file = [global_depth |-> 0, dir |-> << >>]
  /\ stored = << >>
  /\ inserting = NoStr
  /\ restarts = 0
  /\ damage = {}
  /\ StringsInit(import)

\* What happens if something is so.
If(holds, what) == IF holds THEN {what} ELSE {}

IsStored(s) == \E k \in DOMAIN stored : stored[k].str = s
IdOf(s)     == stored[CHOOSE k \in DOMAIN stored : stored[k].str = s].id
\* The string at this place does not reach into a second block.
Whole(id)   == (id % BlockSize) + Len(LenCells(bytes, id)) + get_string_len(bytes, id) <= BlockSize

\* The import passes each of its strings once; a query that inserts passes any.
\* Bound: no query inserts once there is damage.
Begin(s) ==
  /\ inserting = NoStr
  /\ \/ /\ phase = "import" /\ Len(stored) < Len(import) /\ s = import[Len(stored) + 1]
        /\ UNCHANGED damage
     \/ /\ phase = "online" /\ damage = {}
        /\ IsStored(s) \/ Len(stored) < Len(import) + MaxCreated
        /\ damage' = If(IsStored(s) /\ ~ Whole(IdOf(s)), "cut")
  /\ inserting' = s
  /\ UNCHANGED <<phase, import, global_depth, dir, buckets, disk, dirty, dir_file, stored, restarts, stringVars>>

\* The string is there: online the loop returns its id.
Found ==
  /\ inserting # NoStr /\ phase = "online"
  /\ Lookup(inserting) # NoId
  /\ inserting' = NoStr
  /\ UNCHANGED <<phase, import, global_depth, dir, buckets, disk, dirty, dir_file, stored, restarts, damage, stringVars>>

\* The import counts the place of the next string; a query stores it.
NextId == IF phase = "import" THEN PlacesBy(ScannedAfter, import)[Len(stored) + 1] ELSE NewId(inserting)

\* It is not and its bucket has room.
AppendKey ==
  LET b == BucketOf(inserting)
  IN  /\ inserting # NoStr
      /\ phase = "import" \/ Lookup(inserting) = NoId
      /\ ~ Full(b)
      /\ IF phase = "import" THEN UNCHANGED stringVars ELSE create_new(inserting)
      /\ stored' = Append(stored, [str |-> inserting, id |-> NextId])
      /\ buckets' = [buckets EXCEPT ![b].keys = @ \cup {[hash |-> Hash[inserting], id |-> NextId]}]
      /\ dirty' = IF phase = "online" THEN dirty \cup {b} ELSE dirty
      /\ inserting' = NoStr
      /\ damage' = damage \cup If(phase = "online" /\ ~ FitsBlock(inserting), "cut")
      /\ UNCHANGED <<phase, import, global_depth, dir, disk, dir_file, restarts>>

-----------------------------------------------------------------------------
(* Splits.                                                                  *)

\* Mutant: the bits in which the two buckets differ are masked out.
SuffixBitsShort(depth) == depth - 1
SuffixBits(depth)      == depth

\* Bucket b, one bit deeper, keeps the hashes whose suffix is not the one of
\* the new bucket n, which starts empty.  When n is b, no key survives.
Redistribute(b, n, suffix) ==
  LET depth == buckets[b].local_depth + 1
      keys  == IF n = b THEN {} ELSE buckets[b].keys
      moved == {k \in keys : Suffix(k.hash, SuffixBits(depth)) = suffix}
  IN  [buckets EXCEPT ![b] = [keys |-> keys \ moved, local_depth |-> depth],
                      ![n] = [keys |-> moved, local_depth |-> depth]]

Duplicated == [i \in 0 .. 2 ^ (global_depth + 1) - 1 |-> dir[i % 2 ^ global_depth]]

\* (i << depth) | suffix.  The number of a bucket that an import created may have
\* more bits than its depth; else no bit is set twice.
Bits(n) == {k \in 0 .. MaxDepth : (n \div 2 ^ k) % 2 = 1}
OrSuffix(i, depth, suffix) ==
  IF suffix < 2 ^ depth THEN i * 2 ^ depth + suffix
  ELSE MapThenSumSet(LAMBDA k : 2 ^ k, Bits(i * 2 ^ depth) \cup Bits(suffix))

\* Mutant: only the first entry that ends in the suffix is updated.
EntriesFirst(depth, suffix) == {suffix}

\* The entries (i << local_depth) | suffix of the directory: those that end in
\* the new suffix.  An entry beyond the directory is a write outside of it.
Entries(depth, suffix) ==
  {OrSuffix(i, depth, suffix) : i \in 0 .. 2 ^ (global_depth - depth) - 1}

Pointed(entries, n) == [i \in DOMAIN dir |-> IF i \in entries THEN n ELSE dir[i]]

\* b | (1 << bit).
OrBit(b, bit) == IF (b \div 2 ^ bit) % 2 = 1 THEN b ELSE b + 2 ^ bit

\* Where the two versions differ: the number of the new bucket and its suffix.
NewBucket(b, bit) ==
  IF phase = "import" THEN Cardinality(Range(dir)) ELSE OrBit(b, bit)

NewSuffix(b, bit) ==
  IF phase = "import" THEN 2 ^ bit + Suffix(Hash[inserting], bit) ELSE NewBucket(b, bit)

\* A query takes a number that is not the suffix, or that is taken.
WrongNumber(b, bit) ==
  /\ phase = "online"
  /\ \/ NewBucket(b, bit) # 2 ^ bit + Suffix(Hash[inserting], bit)
     \/ NewBucket(b, bit) \in Range(dir)

MustSplit(b) ==
  /\ inserting # NoStr
  /\ phase = "import" \/ Lookup(inserting) = NoId
  /\ Full(b)

\* local_depth < global_depth: some entries of the directory move.
SplitBucket ==
  LET b == BucketOf(inserting)
      depth == buckets[b].local_depth
      n == NewBucket(b, depth)
  IN  /\ MustSplit(b)
      /\ depth < global_depth
      /\ buckets' = Redistribute(b, n, NewSuffix(b, depth))
      /\ dir' = Pointed(Entries(depth + 1, NewSuffix(b, depth)), n)
      /\ damage' = damage \cup If(WrongNumber(b, depth), "number")
      /\ UNCHANGED <<phase, import, global_depth, disk, dirty, dir_file, stored, inserting, restarts, stringVars>>

\* Otherwise the directory doubles.
SplitDirectory ==
  LET b == BucketOf(inserting)
      n == NewBucket(b, global_depth)
  IN  /\ MustSplit(b)
      /\ buckets[b].local_depth >= global_depth
      /\ global_depth < MaxDepth
      /\ buckets' = Redistribute(b, n, NewSuffix(b, global_depth))
      /\ dir' = [Duplicated EXCEPT ![NewSuffix(b, global_depth)] = n]
      /\ global_depth' = global_depth + 1
      /\ damage' = damage \cup If(WrongNumber(b, global_depth), "number")
      /\ UNCHANGED <<phase, import, disk, dirty, dir_file, stored, inserting, restarts, stringVars>>

-----------------------------------------------------------------------------
(* The pages and the files.                                                 *)

\* The pool does not know that the page was changed, as redistribute leaves it.
Unmarked(b) == b \notin dirty /\ buckets[b] # disk[b]

\* The pool gives the frame of bucket b to another page and reads b again.
Evict(b) ==
  /\ phase = "online"
  /\ buckets[b] # disk[b]
  /\ buckets' = [buckets EXCEPT ![b] = IF b \in dirty THEN @ ELSE disk[b]]
  /\ disk' = [disk EXCEPT ![b] = IF b \in dirty THEN buckets[b] ELSE @]
  /\ dirty' = dirty \ {b}
  /\ damage' = damage \cup If(Unmarked(b), "split")
  /\ UNCHANGED <<phase, import, global_depth, dir, dir_file, stored, inserting, restarts, stringVars>>

\* Mutant: the running database does not write the directory.
SavedDirOnce == IF phase = "import" THEN [global_depth |-> global_depth, dir |-> dir] ELSE dir_file
SavedDir == [global_depth |-> global_depth, dir |-> dir]

\* The import's destructor writes everything, ~StringsHash the directory and
\* ~BufferManager the dirty pages.
SavedPages ==
  [b \in Numbers |-> IF phase = "import" \/ b \in dirty THEN buckets[b] ELSE disk[b]]

Close ==
  /\ phase # "closed" /\ inserting = NoStr
  /\ phase = "import" => Len(stored) = Len(import)
  /\ restarts < MaxRestarts
  /\ dir_file' = SavedDir
  /\ disk' = SavedPages
  /\ buckets' = SavedPages
  /\ dirty' = {}
  /\ phase' = "closed"
  /\ damage' = damage \cup If(phase = "online" /\ \E b \in Numbers : Unmarked(b), "split")
                      \cup If(phase = "online" /\ shared # Blocks, "block")
  /\ CloseStrings
  /\ UNCHANGED <<import, global_depth, dir, stored, inserting, restarts>>

Open ==
  /\ phase = "closed"
  /\ global_depth' = dir_file.global_depth
  /\ dir' = dir_file.dir
  /\ phase' = "online"
  /\ restarts' = restarts + 1
  /\ OpenStrings
  /\ UNCHANGED <<import, buckets, disk, dirty, dir_file, stored, inserting, damage>>

Insert == Found \/ AppendKey \/ SplitBucket \/ SplitDirectory

Next ==
  \/ \E s \in Str : Begin(s)
  \/ Insert
  \/ \E b \in Numbers : Evict(b)
  \/ Close
  \/ Open

Spec == Init /\ [][Next]_vars /\ WF_vars(Insert)

-----------------------------------------------------------------------------
(* Properties.                                                              *)

\* What a page of str_hash.dat may be.
IsPage(page) ==
  /\ page.local_depth \in 0 .. MaxDepth
  /\ IsFiniteSet(page.keys) /\ Cardinality(page.keys) <= MaxKeys

\* Every field has its type, and no bucket more keys than a page holds.
TypeOK ==
  /\ phase \in {"import", "online", "closed"}
  /\ import \in Imports
  /\ global_depth \in DefaultDepth .. MaxDepth
  /\ dir \in [0 .. 2 ^ global_depth - 1 -> Numbers]
  /\ \A b \in Numbers : IsPage(buckets[b]) /\ IsPage(disk[b])
  /\ dirty \subseteq Numbers
  /\ \A k \in DOMAIN stored : stored[k].str \in Str
  /\ inserting \in Str \cup {NoStr}
  /\ restarts \in 0 .. MaxRestarts /\ damage \subseteq Causes

\* No split was lost and no number given twice; no string was cut or lost.
HashIntact    == {"split", "number"} \cap damage = {}
StringsIntact == {"cut", "block"} \cap damage = {}

\* What tests/check_extendible_hash.cc sets out to check: every string that
\* was ever stored is found, under the id that it was given, whatever inserts,
\* splits, evictions and restarts came after; so no string ever has two ids.
\* Not so after one of the Causes: the page of a split was not written, a split
\* took a wrong number, a string was cut or a block lost; and str_eq does not
\* recognise a string that reaches into the next block.
AllFound ==
  phase = "online" /\ HashIntact /\ StringsIntact =>
    \A k \in DOMAIN stored : Whole(stored[k].id) => Lookup(stored[k].str) = stored[k].id

\* Every id that was given out is a place of the file and prints as its string,
\* those that the import wrote across the end of a block included, whatever was
\* stored after it and however often the database was opened (create_new,
\* append_new_block, print), until a query's string is cut or a block is lost.
PrintsBack ==
  phase = "online" /\ StringsIntact =>
    /\ Len(bytes) = Len(file) /\ Len(file) % BlockSize = 0
    /\ \A k \in DOMAIN stored :
         /\ stored[k].id \in MetadataSize .. Len(file) - 1
         /\ PrintedChars(bytes, stored[k].id) = Chars[stored[k].str]

\* The keys of all the strings that were stored.
StoredKeys == {[hash |-> Hash[stored[k].str], id |-> stored[k].id] : k \in DOMAIN stored}

\* A bucket of local depth d is pointed to by exactly the directory entries
\* that agree with it in d bits, and holds exactly the keys of the strings whose
\* hashes end in these bits: what redistribute and the update of the directory
\* have to keep together, so that no split, eviction or restart loses a key, as
\* long as no page of a split was lost and no number given twice.
DirectoryExact ==
  HashIntact =>
    /\ TypeOK
    /\ \A i \in DOMAIN dir :
         LET d == buckets[dir[i]].local_depth
         IN  /\ d <= global_depth
             /\ {j \in DOMAIN dir : dir[j] = dir[i]} = {j \in DOMAIN dir : Suffix(j, d) = Suffix(i, d)}
             /\ buckets[dir[i]].keys = {k \in StoredKeys : Suffix(k.hash, d) = Suffix(i, d)}

\* The loop ends: doc/internals/storage.md says that collisions work as long
\* as the strings of one hash fit in a page.  (A string that is in the bucket
\* twice, not having been recognised, takes the room of another.)
InsertEnds == (inserting # NoStr) ~> (inserting = NoStr \/ damage # {})
=============================================================================

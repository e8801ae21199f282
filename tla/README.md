# MillenniumDB: a TLA+ development

MillenniumDB is a graph database. An *import* turns a text file into a folder of
index files; a *server* opens the folder, keeps pages of it in a buffer pool and
answers queries, some of which insert data. This directory models the storage
layer, the inserts, the server, the evaluation of property paths, and a query on its
way from text to rows. TLC checks the models on small instances. For the shared buffer
pool, the temporary files, the sessions of the server, the protocol, and the inserts with
their indexes and counts, TLAPS proves the safety properties for instances of any size.

Paths below are relative to `src/src/` unless they start with `doc/`.

## 1. The system

### Parts, state and operations

| Part | State | Operations | Where |
|---|---|---|---|
| File manager | open descriptors; the length and bytes of each file | `count_pages`, `read_page`, `flush`, `get_tmp_file_id`, `remove_tmp` | `storage/file_manager.*` |
| Buffer manager, shared pool | frames (page id, bytes, pins, usage, dirty), map from page to frame, clock hand, one mutex | `get_page`, `get_last_page`, `append_page`, `pin`, `unpin`, `make_dirty`, `flush` | `storage/buffer_manager.*`, `storage/page.h` |
| Buffer manager, private pools | one small pool per position; which thread has which position; the free positions | `get_private_buffer_index`, `get_tmp_page`, `remove_tmp` | the same files |
| B+ tree | leaves in a list, directories over them, in two files | bulk import, `insert`, `get_range` and `next`, `check` | `storage/index/bplus_tree/` |
| Strings hash | a directory in memory, one page per bucket, local and global depths | bulk import, `get_or_create_str_id`, `get_str_id`, save and load | `storage/index/hash/strings_hash/` |
| String manager | blocks of string bytes, mapped in memory | `create_new`, `print`, `str_eq` | `storage/string_manager.*` |
| Edge table | blocks of (from, to, type) rows | `append_record`, lookup by edge id | `storage/index/random_access_table/` |
| Quad model | sixteen B+ trees over one graph, the edge table, the catalog of counts | import, `exec_inserts`, save and load | `query_optimizer/quad_model/`, `import/quad_model/` |
| Server | sessions, `execution_mutex`, the queue of running queries, the timeout thread | `session`, `execute_query`, `execute_timeouts` | `bin/server.cc` |
| Protocol | a block buffer at the server, a read loop at the client | `overflow`, `xsputn`, `sync`, `set_status`, `send` | `network/`, `bin/query.cc` |
| Property paths | expressions, automata, search states of a breadth-first search; slots for paths per thread | parsing and rewriting, `transform_automaton`, `begin`, `next`, `reset` of each iterator; `PathManager::begin`, `clear` | `parser/query/paths/`, `execution/binding_id_iter/paths/` |
| Query parsers | a token stream and a tree; the members of a visitor | one function per grammar rule, one visit per tree node, checks of the logical plan | `parser/query/` |
| Optimizer | base plans with their input variables | `OptimizeOptionalTree`, plan visitors, join orders | `query_optimizer/quad_model/` |
| Query execution | iterators over one shared binding: scans, lookups, leapfrog and nested loop joins, OPTIONAL; hash joins, sorting, aggregation | `begin`, `next`, `reset`, `assign_nulls` | `execution/`, `storage/index/{leapfrog,ordered_file,hash}` |
| Import lexer, RDF model | none that outlives an import; a model of triples that is not updated | | `import/`, `query_optimizer/rdf_model/` |

### How they interact

* A session thread parses its query, takes `execution_mutex` (shared for a query,
  exclusive for an insert), runs, and writes results into a `TcpBuffer`, whose
  destructor sends the last block.
* Queries read pages of the B+ trees, the hash and the edge table through the
  shared pool, all at once; an insert changes them alone. Only `get_page` takes the
  pool's mutex: pin, unpin, page bytes and the size of a file are used without it.
* A query's text becomes a tree, a logical plan, a tree of iterators and rows. The
  iterators of one query share a binding, which keeps what the last row left in it.
* Planning takes a slot of the `PathManager`; the destructor of the plan's root gives it
  back. Path iterators are reset by joins and searched again from other nodes.
* The hash of strings compares a string with the bytes that the `StringManager` has.
* Sorting and grouping use temporary files through the private pool of the thread.
* The timeout thread and the sessions share `running_threads_queue` and two flags
  per query, which iterators poll.
* Everything that is written reaches the disk when its frame is reused, or in the
  destructors when the server is closed. There is no log.

### What is hard

Interleavings of unlocked pins with the clock scan; a page that is evicted dirty and
read again; the size of a file that lags behind the pages in the pool; descriptors
that are reused; a timeout that races with the end of a query; ways out of a session
that must release a lock; a client that goes away; blocks that end exactly where a
string does; splits of trees and hashes at odd sizes, after an import that numbered
things differently; an INSERT that stops in the middle; state that has to survive
closing and opening; strings across blocks; automata rewritten step by step; searches
with cycles on both sides that are reset and used again; join orders that no test
picks; and values that one iterator leaves in the binding for another. `PROJECT.json` lists these hazards at their lines with the
properties that would catch them, or with a note on what is not covered.

## 2. Modules

| Module | Models | Used by |
|---|---|---|
| `PageStore` | what the shared pool promises: pages with contents, references that designate them | refined by `BufferManager` |
| `BufferManager` | the shared pool and the page I/O below it | `MCBufferManager`, `BufferManagerProofs` |
| `BufferManagerProofs` | theorems | |
| `TmpFiles` | private pools and temporary files | `MCTmpFiles`, `TmpFilesProofs` |
| `TmpFilesProofs` | theorems | |
| `Server` | sessions, locks and timeouts | `MCServer`, `ServerProofs` |
| `ServerProofs` | theorems | |
| `TcpBuffer` | the conversation of one session with its client | `MCTcpBuffer`, `TcpBufferProofs` |
| `TcpBufferProofs` | theorems | |
| `BPlusTree` | one index, from its import through inserts and scans | `MCBPlusTree`, `BPlusTreeProofs` |
| `BPlusTreeProofs` | theorems | |
| `StringManager` | the bytes of the strings: blocks, lengths, import, `create_new`, `print`, `str_eq` | `StringsHash` |
| `StringsHash` | the extendible hash of strings, over `StringManager` | `MCStringsHash`, `StringsHashProofs` |
| `StringsHashProofs` | theorems | |
| `QuadModel` | INSERT over all the indexes, the edge table and the catalog | `MCQuadModel`, `QuadModelProofs` |
| `QuadModelProofs` | theorems on ids, nodes and indexes | `QuadCountsProofs` |
| `QuadCountsProofs` | theorem on the counts of the catalog | |
| `PathExpressions` | path expressions as written and as stored; `denull`, `invert` | `PathAutomaton`, `MDBQueryVisitor` |
| `PathAutomaton` | the automaton of a path and `transform_automaton` | `PathSearch` |
| `PathSearch` | the choice of an iterator and the path iterators | `MCPathSearch` |
| `Grammar` | what the parser generator makes of a rule: matching, prediction in SLL mode, operator levels | the grammars |
| `MDBGrammar`, `SparqlGrammar` | every rule of the two generated parsers | `QueryEngine` |
| `Derivations` | the reference for parsers: trees that a grammar derives | `QueryEngine` |
| `MDBQueryVisitor` | from tree to logical plan, and its three passes | `QueryPlanner` |
| `Objects` | object ids, indexes as queries see them, bindings | `LeapfrogJoin` |
| `LeapfrogJoin` | the leapfrog join and its two iterators | `QueryIterators` |
| `QueryIterators` | the other iterators | `QueryPlanner` |
| `QueryPlanner` | from logical plan to iterators | `QuerySemantics` |
| `QuerySemantics` | the reference for queries: how they are written, what they return | `QueryEngine` |
| `QueryEngine` | one query from its text to its rows | `MCQueryEngine` |

The modules meet at assumptions that another module checks: `BufferManager` assumes
that updates run alone (`UpdatesRunAlone` of `Server`); `QuadModel` takes a B+ tree as
a set of tuples that refuses a duplicate (`ScanExact`, `DuplicatesExact` of
`BPlusTree`) and pages that survive closing (`StoreSpec` of `BufferManager`).
`PROJECT.json` maps every definition that models code to its lines. Definitions with
the comment *Mutant* are plausible mistakes; no specification uses them. Each
shows that some property can fail.

### BufferManager

A page reference (`Page&`) is a *handle*, owned by a thread. `GetPage`, `GetLastPage`
and `AppendPage` begin a call, the last two with a page number read from the size of
the file before the mutex is taken. `Hit`, `Miss`, `ClockStep` and `Replace` are the
rest of `get_page`: while a call scans, mutex held, one frame per step, other threads
pin, unpin and write. `Replace` is everything after the loop: it takes the old page
out of the map, writes it back if it is dirty, and reads the new one, where `read_page`
returns zeros past the end of the file and truncates the file to `page_number` pages.
`WritePage` is a change of the bytes followed by `make_dirty`. `Restart` is the
destructor (`flush`) followed by `init`; frames are flushed in any order, and how far
the file reaches is left open within what that allows. `phase` is how a thread holds
`execution_mutex`. The bytes of a page are one of a few values.

`usage` is capped by `MaxUsage` in the guard of `Pin`: the clock ages a
counter by one each round, so a larger count only means more rounds.

### TmpFiles

The FileId of a temporary file is its descriptor, which the operating system gives
again after `close`. `ReadFront` and `PopFront` split `get_private_buffer_index` where
two threads may meet, as no mutex protects it. `TooManyThreads` is the exception when
no position is left; the file that was already opened stays open. `RemoveTmp` clears
the pool and closes. `Assigned` and `Spent` say which positions were taken by earlier
queries: positions never come back.

### Server

A session is a program counter over `session()`; `Handled` is the way through the
inner catch clauses (message first, status second, lock already released), `Uncaught`
and `SendFails` are the outer ones, `Message` sends the block of `endl`, `Destroy` is
`~TcpBuffer`. A query that runs may `Complete`, fail, or do nothing for ever until it
polls the flag (`Poll`). `CheckEmpty`, `CheckPop`, `CheckSleep` and `WakeUp` are the
loop of `execute_timeouts`. Time is kept as the ticks left until each deadline, so it
needs no bound. `Plan` takes a slot of the `PathManager` for a MATCH (`BeginPaths`);
every way on which the plan is destroyed calls `ClearPaths`, and a plan that fails
after `begin` was called leaves without. The front of the empty queue of slots is any
slot.

### TcpBuffer

One answer: the session writes characters (`Overflow`) and strings (`Xsputn`, then
`CopyMax` for each full block and `CopyRest`), flushes (`Sync`), sets a status and
destroys the buffer. The n-th byte written is the number n, so a byte that is lost,
repeated or out of place shows. Lengths are encoded in base `Byte` with as many
digits as the code has bytes, the query's length with the sign of an `int`. A session that
decodes a negative length, or loses its client while it reads the query, ends before it
has a buffer.

### BPlusTree

`Init` is what the bulk import writes for a set of records (`ImportedLeaf`, and
`BulkStep` for `bulk_insert` at each directory, from the last leaf upwards).
`SearchIndex` and `SearchChild` are the binary searches as they are, and `LeafFor` is
`search_leaf` from the root. Insertion is one of three actions: a refused
duplicate, a leaf with room, or a split that goes up through `DirStep`. Leaves keep
what is left in slots past `value_count`, because `equal_record` may look there. New
pages are numbered by the size of the file, which grows at `WriteBack` only, and which may
come at any time. `reused` is a history variable: an insert asked for a new page and got one
that is in use (`GivesUsedPage`). Two parts of the tree are then one page, so that a
search need not end; the model takes the insert that does this, and none after it.

### StringManager and StringsHash

Blocks are sequences of cells: a digit of a length, a character `<<string, place>>`, the
metadata, or anything. `ImportedFile` is `strings.dat` as the import writes it, and
`PlacesBy(ScannedAfter, ...)` are the ids that its second loop gives to the hash.
`create_new` appends blocks as the code does; blocks of the start are shared with the
file, later ones are private to the process. `PrintedChars` and `IterChars` are the two
readers, which leave a block differently.

`phase` selects the two versions of the hash: the import numbers a new bucket by its
creation, the running database by its suffix (`NewBucket`, `NewSuffix`). The insertion
loop is one action per turn (`Found`, `AppendKey`, `SplitBucket`, `SplitDirectory`);
`AppendKey` stores the string. `Evict` is the pool reusing a frame, which loses what was
not marked dirty; `Close` and `Open` may lose it in the same way. `damage` is a history
variable of what the code has not kept safe so far (`Causes`): the page of a split that was
not written ("split"), a new bucket with a number that is taken or not its suffix
("number"), a string of a query across blocks ("cut"), a block that was appended and not
saved ("block"). All of these steps are taken, each property says which of them it
depends on, and after one of them no query inserts. The keys of a page are a set of pairs of a hash and an id: a key is
appended at the end and a split keeps the order, so that the order of a page is the order of
its ids and the first match is the smallest. `Close` writes the directory and the dirty pages, `Open` reads them.

### QuadModel

`ImportedTrees` and `ImportedCatalog` are the result of an import of a file: its lines
declare nodes, labels, properties of nodes and of edges, and edges, which may start at
another edge; a line may be repeated, or turn out wrong after its labels and properties were
read. The import writes a record for every line that has it, and counts them; a tree is
the set of its records here, and `Copies` says how many there are. It takes every node as
identifiable, and the greatest number of an anonymous id for the number of anonymous
nodes; `CountNodes` of `exec_inserts` does otherwise. The catalog has all of its fields. An INSERT is a
sequence of rounds (`InsertLabel`, `InsertProperty`, `InsertEdge`), each of which adds
nodes and records in the order of the code up to the first that a tree refuses, and
then either goes on or leaves with what it has done.

### PathExpressions, PathAutomaton, PathSearch

A query writes a tree of atoms, groups, sequences and alternatives with suffixes;
`visit` makes of it what the parser stores, and `Words` is what it means, up to
`MaxWord` letters. The automaton is built bottom up from the stored path and
transformed in steps (`stage`), each checked against `Words`. `PathSearch` then takes
the iterator that the plan would (`PlanChoices` for MDB, `Begin` for SPARQL), and one
step is one turn of the loop in `next()`. `Reset` is a join that searches again from
another node; `BFSCheck` of ALL then keeps its iterator and its place in the transitions, which
`Exhausted` and `Pending` follow. `ShortestWalks` of the graph are the reference.

### Grammar to QueryEngine

A rule of a grammar is an expression (sequence, choice, repetition, call); `Predict`
decides between alternatives as ANTLR's simulator does in SLL mode: by the
configurations left after each token, ending at a conflict. A tree goes to the visitor,
whose members are a record, then through `CheckVarNames`, `CheckWellDesigned` and
`OptimizeOptionalTree`. The lists of an INSERT keep their order and what is repeated. The
planner's costs are left out: `QueryEngine` takes every
join order, although only the greedy optimizer runs (`MAX_SELINGER_PLANS` is 0), and every
kind of join that some costs choose. The search of a leapfrog iterator
(`internal_search`) is the least record in its range: the walk over leaves and
directories in `leapfrog_bpt_iter.cc:126-183` is abstracted. Iterators are records; `next`
returns the iterator and the shared binding after it. `QuerySemantics` has the queries
as they are meant, writes them as tokens, and computes their answers as bags from the
graph alone.

## 3. Runs

Passing runs:

| Run | Instance | What it shows |
|---|---|---|
| `buffer_pool` | 2 threads, 3 references, 2 frames, one file of up to 3 pages, 2 contents; every initial file | `MapExact`, `PinsExact`, `CleanIsOnDisk`, `CallsExact`, the refinement of `PageStore` (`StoreSpec`), and `GetPageReturns`: a call that scans finds a frame unless the pool keeps being full |
| `tmp_files` | 2 threads, 2 positions, 2 frames each, 2 descriptors, files of 2 pages | `NewFileIsEmpty`, `OnlyWritesChange`, `NoOrphanPages` |
| `server_sessions` | 2 sessions, each with a query, an insert or a bad query; one may lose its client; 2 slots | `UpdatesRunAlone`, `SlotsExact`, `TimeoutIsHonest`, and the liveness of `QueriesEnd` and `ReadersGetIn` |
| `protocol` | blocks of 2 payload bytes, answers of up to 5, 2 blocks in flight, query lengths within and beyond an `int` | `PrintsPrefix`, `CompleteOrError`, `LastBlockArrives`, `ShortQueryArrives` |
| `bplus_tree` | 13 records, leaves of 3, directories of 2 keys, from four imports, pages written back at any time | `ScanExact` for every range, `CheckPasses`, `DuplicatesExact` |
| `strings_hash` | 7 strings of which two collide, 4 imports, blocks of 19 cells, buckets of 2 keys, depth 1 to 3, 3 strings stored online, 2 restarts | `AllFound`, `PrintsBack`, `DirectoryExact`, `InsertEnds` |
| `quad_insert` | 4 statements out of 7, 2 restarts, on an empty or an imported graph with repeated lines, properties of an edge and an anonymous node | `IndexesAgree`, `EdgeIdsFresh`, `NodesKnown`, `CountsExact` |
| `path_search` | 3 graphs of 5 nodes, paths with every operator, every start and end, one reset, words of 4 letters | `AutomatonExact`, `DistancesAdmissible`; `AnyExact`, `AllExact`, `PathsAreShortest`; `ExpandedOnce`, `SearchEnds` |
| `query_engine` | some 400 queries over 2 graphs with all their plans; some 3,500 texts derived from the rules of both grammars | `AnswersExact`, `RejectsExactly`, `ReadsBack` |

The type invariant of a module is a conjunct of one of its invariants (`UpdatesRunAlone`,
`NoOrphanPages`, `PrintsPrefix`, `CheckPasses`, `DirectoryExact`, `IndexesAgree`), except in
`BufferManager`, where it has a theorem of its own.

Why these bounds are enough to see the interesting cases:

* *Pool.* Two frames and three pages force every page out and in again; three
  references of two threads give a frame two holders, a second thread that hits while
  the first scans, and a scan over frames that are pinned meanwhile. All initial
  contents and sizes are tried.
* *Temporary files.* With two descriptors a thread closes one and the other thread
  gets the same number; two pages per file and two files in a pool of two frames evict.
* *Server.* Two sessions give the pairs query/query, query/insert and insert/insert;
  a duration of two ticks lets deadlines differ.
* *Protocol.* Two payload bytes and five bytes of output put the end of a string
  before, at and after the end of a block, with blocks that are full, partial and
  empty. A byte of four values gives a block length with two digits.
* *B+ tree.* Leaves of an odd and directories of an even capacity, three levels after
  the largest import.
* *Strings.* Doubling twice, splits below the global depth, and a bucket full of one hash;
  lengths of one and of two digits, a rest of a block that is stepped over, a string of
  the import across a block, and blocks that queries append.
* *Paths.* Two shortest ways between two nodes, ways of different length, parallel edges,
  a cycle and a loop; words of four letters tell repetitions of one to three apart.
* *Queries.* Patterns of one to three chains with every kind of node and edge, each with
  several sets of OPTIONALs, nested ones too, then WHERE, DISTINCT, LIMIT and SET, over a
  graph with a cycle, a loop and an edge as a node, and one with a single edge. Each rule
  of the grammars is derived with its choices made in every way and repetitions up to two.
* *Quad model.* Statements whose second part is refused with more to follow, edges
  with each combination of equal ends and type, an edge from an edge, anonymous nodes, and
  a file with every kind of line that the import counts otherwise than `exec_inserts`.

`CHECK_DEADLOCK FALSE` appears where the system may stop: sessions that have all been
served, bounds on statements and restarts that are used up, a search or a query that
has ended.

### Where the code does not do what it says

Three runs expect a violation; each checks a sentence of the repository.

| Run | Sentence | What happens |
|---|---|---|
| `buffer_append` | `storage/buffer_manager.h:60`, the page returned by `append_page` "has all its bytes initialized to 0 ... 2 append_page in a row will work as expected" | The file does not grow until the page is evicted, so the second call returns the first page with its contents. |
| `quad_edge_table` | `execution/binding_id_iter/edge_table_lookup.cc:56`, "first edge has the id 1, and its inserted at pos 0" | `exec_inserts` uses up two ids per edge, so ids and rows drift apart from the second inserted edge on. |
| `path_twice` | `doc/property_path.md:103`, "a node never will be returned more than one time" (and line 401) | `BFSIterEnum2` returns the start of a path that may be empty without marking the final state as visited, and returns it again when a cycle leads back to it. The `BFSIterEnum` of the MDB language marks it. |

More places break what a property states. Where the code runs into one, the step is in
the model, a history variable records it, and the property says nothing from there on; the
others are kept out by the condition of a property or by the instance. Each is a hazard in
`PROJECT.json`:

* `reused` (`BPlusTree`): a second split before the first new page is written overwrites
  it, and a root split gets one page for two. The cause is that of `buffer_append`, and
  without the condition `ScanExact` fails after two inserts. What is covered are the
  leaf splits, splits of directories below the root, and the root splits of the import; an
  online split of the root always asks for two pages.
* `damage` (`StringsHash`). "split": `redistribute` marks no page dirty, so a frame that is
  reused, or a database that is closed, between a split and the next key loses it.
  "number": a split after an import that created buckets picks the number of a bucket
  that exists and empties it. "cut": a string that `create_new` stores across blocks
  starts again from its first byte in the second one; and `str_eq` need not know a string
  that the import wrote across blocks, since `next_char` reads one byte beyond the first,
  so that a query stores it again. "block": what is in an appended block is lost when
  the database is opened again. `AllFound` fails after any of the four, `DirectoryExact`
  after the first two, `PrintsBack` after the last two. Strings of the import across
  blocks do print (`PrintsBack`), and are not in what `AllFound` says.
* `CountsExact` leaves out `distinct_from` and `distinct_to`, which `edge_plan.cc:72` reads
  and `exec_inserts` does not keep; `key2distinct`, which goes up for every property since
  its test comes after the insert; and `connections_count`, which is the id counter.
* `NodesKnown` leaves out labels and properties of the import: an edge with properties
  (`import.h:298`) and the object of a wrong line are not added to the nodes.
* `MaxThreads` (`Server`): with fewer slots than sessions, two of them get one slot and
  `SlotsExact` fails.
* `Destroy` (`Server`): when the client is gone the destructor of `TcpBuffer` throws, and
  the server ends (`terminated`); the liveness properties allow for it.
* `Flat` (`PathExpressions`): a star or an optional around a sequence with a star may
  accept words that it should not, such as `a` for `(a*/b)?`.
* `BFSCheck` of ALL is checked in its first search only, since its `reset()` keeps the
  edge iterator; `UnfixedComposite` in its first pass, for paths that start forwards.
  ALL repeats rows where a walk can be found in two ways.
* `Supported` (`QueryEngine`) leaves out of `AnswersExact`: an equality of WHERE on a
  property of a variable that only an OPTIONAL has; a property in an OPTIONAL that is
  returned; an edge variable that is used elsewhere; an edge id that is joined with
  anything; and a pattern of constants only with an OPTIONAL. The queries of the instance
  also have no sibling OPTIONALs with the same label or contradicting properties.
* WHERE is evaluated by the same operators (`EvalExpr`, `WhereVars`) in the model and in the
  reference: `AnswersExact` checks which rows reach a condition and with which values,
  not the evaluation itself.
* The rules `updateCommand`, `constructTemplate` and `constructTriples` of SPARQL are not
  derived: their grammar is ambiguous.
* `Assigned` (`TmpFiles`): when two threads are new at once they may get one position,
  and `OnlyWritesChange` fails.
* The imported files of `MCQuadModel` have no line whose second id is the type:
  `import.h:185-191` writes these records with the columns the other way round
  than `quad_model.h:46-47` says.

## 4. Fairness

* `buffer_pool` assumes weak fairness of the scan (`Scan`): it is a loop with no wait in
  it. It does not assume that anybody unpins: while every frame is pinned the scan has no
  end, though `doc/internals/buffer_manager.md:39` speaks of an exception
  (`GetPageReturns` leaves this case out).
* `server_sessions` assumes that threads that can run do run (`WF` of the steps of a
  session and of the timeout thread), that time passes, and that a query polls its
  flag. It does not assume that a query ends by itself. Strong fairness of
  `LockShared` is the policy of glibc's rwlock behind `std::shared_mutex`, which lets
  waiting readers in when a writer leaves. Writers get no fairness, because
  readers may starve them.
* `strings_hash` assumes that the loop of an insert goes on (`WF(Insert)`), and
  `path_search` that the loop in `next()` does. `query_engine` has no fairness.

## 5. Proofs

Eight modules hold theorems. A theorem speaks of every value of the constants that the
assumption of its module allows; a run evaluates the assumption on its instance. No
theorem uses the bounds of the runs: `MaxUsage`, `MaxPages`, `MaxOutput`,
`MaxStatements`, `MaxRestarts`, `MaxDepth`, `MaxCreated`, `MaxRecord`, `MaxLeaves` and
`MaxDirs` may be any numbers.

| Module | Theorem | Statement |
|---|---|---|
| `BufferManagerProofs` | `BufferInvariant` | `Spec => []BufferInv` |
| | `TypeCorrect`, `MapCorrect`, `PinsCorrect`, `CleanCorrect`, `CallsCorrect` | `Spec => []TypeOK`, `[]MapExact`, `[]PinsExact`, `[]CleanIsOnDisk`, `[]CallsExact` |
| | `StoreRefinement` | `Spec => StoreSpec`: the pool implements `PageStore` |
| `TmpFilesProofs` | `TmpInvariant` | `Spec => []TmpInv` |
| | `NoOrphans`, `NewFileEmpty` | `Spec => []NoOrphanPages`, `Spec => NewFileIsEmpty` |
| | `WritesOnly` | `Spec /\ []OneAtATime => OnlyWritesChange` |
| `ServerProofs` | `ServerInvariant` | `Spec => []ServerInv` |
| | `UpdatesAlone`, `TimeoutHonest` | `Spec => []UpdatesRunAlone`, `[]TimeoutIsHonest` |
| | `SlotsOwned`, `SlotsCorrect` | `Spec /\ []SlotsSuffice => []SlotsExact`; `Spec /\ []FewAtOnce => []SlotsExact` |
| `TcpBufferProofs` | `TcpInvariant` | `Spec => []TcpInv` |
| | `PrefixPrinted`, `AnswerWhole`, `LastBlockLeft`, `QueryArrives` | `Spec => []PrintsPrefix`, `[]CompleteOrError`, `[]LastBlockArrives`, `[]ShortQueryArrives` |
| `QuadModelProofs` | `QuadInvariant` | `Spec => []QuadInv` |
| | `IdsFresh`, `MentionedKnown` | `Spec => []EdgeIdsFresh`, `[]NodesKnown` |
| | `IndexesSame` | `Spec => []IndexesAgree` for imports in order |
| `QuadCountsProofs` | `CountsCorrect` | `Spec => []CountsExact` |
| `StringsHashProofs` | `StringsHashInvariant` | `Spec => []IntactInv`: `HashInv` as long as `HashIntact` |
| | `StringsImportExact` | `Spec => [](phase = "import" => HashIntact /\ DirectoryExact)` |
| | `StringsDirectoryExact`, `StringsFound` | `Spec => []DirectoryExact`, `[]FoundWhenReadable` |
| | `StringsNumbered` | `Spec => [][KeepsNumbers]_vars` |
| `BPlusTreeProofs` | `TreeInvariant` | `Spec => []TreeUnlessReused`: `TreeInv` as long as not `reused` |
| | `ScansExact`, `CheckFindsNothing`, `DuplicatesRefused` | `Spec => []ScanExact`, `[]CheckPasses`, `[]DuplicatesExact` |

### The shared pool

The only assumption is `BufferAssumption`: the pool, the file bound and the usage
bound are positive, handles are finitely many and owned by threads, and `None` is
none of the values it stands beside.

None of the invariants is inductive alone. That a clean frame equals its
file needs the map to be exact, or `Replace` could write an old frame of the same page
over a newer one. Exactness of the map across `Replace` needs the page of the scanning
call to be absent, from `Miss` to `Replace`, although other calls run in between:
`CallsExact` says so of the holder of the mutex, and no other action inserts in the
map without it. Pins are the number of handles on a frame; `Replace` sets the counter
to 1 and not to `pins + 1`, which is right only because a frame with `pins = 0` has no
handle, so the counting has to be part of the invariant, with the finiteness of
`Handles`. `Restart` frees the pool and needs that a thread outside an operation holds
nothing. `BufferInv` is the conjunction, and each action has one step per conjunct that
it can disturb. The lemmas at the top of the module are about what one handle more or
less does to the number of holders.

For the refinement, a page's abstract content is that of its frame or of its file.
`Replace` keeps the content of every page: of the one that leaves because it is
written when dirty and equal to its file otherwise, of the one that comes because it
is read from where the map said it was. All other steps change one content
(`WritePage`), one reference, or nothing.

### Temporary files

`TmpInv` follows a descriptor from `tmpfile()` to `close`: while it is being opened
nobody else has it and its file is empty (`Opening`); once open, every frame with one of
its pages is in the pool of its position (`Orphans`), so the loop of `remove_tmp` over
that pool finds them all; and a thread scans for and holds pages of its own files only
(`Scans`, `Holds`), so no other thread is in the middle of bringing such a page back. This
is true even of threads that share a position, and `NoOrphans` and `NewFileEmpty` need no
condition.

That only writes change a file is not true without one. `get_private_buffer_index` reads
the front of a queue and pops it with no mutex around both; two threads that meet there
get one position and then use one pool together, again without a mutex. `OneAtATime` is
exactly that they do not meet. Under it a position has one thread (`Given`), a page that
a thread looks for stays absent until its own `Replace` (`Cached`), and a clean frame
equals its file. The code does not ensure it; `tmp_files` checks the property where only one
thread is new.

### The server

`UpdatesRunAlone` says who holds `execution_mutex` in terms of the program counters, and is
inductive. `TimeoutIsHonest` is not: a client learns of a timeout several steps after the
timeout thread asked for the interruption, and the query may end in between. `DeadlineInv`
carries the fact along: only a registered session is in the queue, an interruption is
asked for after the deadline or after the end of the query, and a session that says
"timeout" has seen the request while it was running, so that `finished` cannot have been
the reason.

`SlotsExact` depends on the code never taking the front of an empty queue of slots
(`path_manager.cc`), which nothing there checks. `SlotsOwned` has this as a condition.
`SlotsCorrect` replaces it by a bound on what goes on at one moment (`FewAtOnce`): of any
number of sessions, at most `MaxThreads` are planning a query or hold a slot. Each of them
has at most one slot and a session that is planning has none, so that a pigeonhole
argument leaves one free. `server.cc` makes a thread per connection without such a bound;
that is the hazard listed there.

### The protocol

The client sees the length of a block as two bytes, and the output as blocks that are cut
anywhere. `Streams` says that there are offsets, one for each block on its way and one
more, such that the first is what the client has printed, the last what has been sent, and
each block carries the bytes between two offsets and says how many (`Carries`). Sending
appends an offset and reading drops the first. `Buffered` says that the buffer has the
bytes from the last offset on. With `Marked` and `Ended` on the block of the destructor,
everything has been printed when that block has been read. The lemmas before
(`TwoBytes`, `DecodedLength`) are about numbers in base `Byte`: two digits hold every
position in a buffer, four digits and a sign every length below half of `Byte^4`. They need
`TcpAssumption`, that a block is shorter than two bytes can say.

### Inserts, indexes and counts

`QuadInv` says of the sixteen trees what they have to do with `from_to_type_edge`, and that
every id of an edge in any of them is at most `connections_count` (`Given`). This last part
makes the others inductive: the id of a new edge is larger, so no tree refuses any of the up to
eleven records, all of them are inserted, and the catalog is counted up (`RoundOfEdge`). A
label or a property may be refused, but then by the first of its two trees, since both
have it or neither (`Pairs`); so a refusal leaves the orders the same (`RoundOfTwo`).
`Known` is `NodesKnown` on the trees: what an INSERT mentions has been given to the tree of
nodes before, while the import also writes labels and properties of edges, whose ids are
not nodes. `Closed` is for the restart: what is read is what was in memory.

`IndexesAgree` has one condition, on the imported files only. `save_edge_type`
(`import/quad_model/import.h:185-191`) writes the records of `equal_from_type` and
`equal_to_type` in the order of the line, and these are the order of the index only when no
line has its second id, and not its first, as the type (`ImportsInOrder`). The other
theorems have no condition on the files: lines may be repeated, may give labels and
properties to edges, and may be wrong. A file is here what the parser's state
machine leaves of it, the lists of nodes, labels, properties and edges; that machine is
not modelled.

For the counts, `CountInv` adds to `QuadInv` that each number that `exec_inserts` keeps is
the cardinality of a set: the records of a tree with the copies that the import wrote of
them (`Copies`), and the same under each label, key or type (`Tallied`). A tree has at least
what was imported (`Grown`), so a record that an INSERT adds is no copy. A bump is one
record more because the record was not there, which again is `Given` for edges and `Pairs`
for the rest; `TallyIf` and `TallyByIf` are for edges two of whose columns coincide;
`NodesCounted` is for a round that adds up to three nodes of which some were known, and
`CountedNodes` counts what came after the import, whose own count of nodes has them all as
identifiable. The lemmas on cardinalities (`ImageCount`,
`CountByMore`, `OneMoreOfType`) rest on the library's theorems on finite sets, which is why
`QuadAssumption` says that files are finite.

### The strings hash

`DirectoryExact` says where the entries of the directory point and that every bucket has
exactly the keys of the stored strings whose hashes end in its bits. The code does not keep
it: a page which a split changed is not marked dirty, and a split after an import may give
a number twice. So the properties are about states before that (`HashIntact`: neither
"split" nor "number" is in `damage`), and the invariant is `IntactInv`: `damage` has only
`Causes`, the import has none, and `HashIntact` implies `HashInv`. The steps that do the
damage are steps of the model, and the proof has to show of every other one that it does
none.

`HashInv` has five parts: `TypeOK`; `Shapes` and `Exact`, which are `DirectoryExact` by
suffixes; `Counted`, that the import numbers its buckets without gaps; and `Saved`, that what
`Open` will read is what is in memory. `Counted` is why the number of a new bucket is free and
below the size of the directory: when a bucket has fewer bits than the directory, two
entries share it, so there are fewer buckets than entries. One lemma on splits serves both
versions and both kinds of split, the one that moves entries and the one that doubles the
directory. Powers of two are counted as sets of subsets (`PowSubset`), and `Least`, that a
set of naturals has a least element, is induction without a formula as a parameter.

`StringsNumbered` says where "number" comes from. A query numbers a new bucket by its suffix
(`StringsHash::get_or_create_str_id`), the import by how many there are. While every bucket
has the suffix of its hashes as its number (`Numbered`), no split takes a wrong number and the
buckets stay numbered so. Only a database whose import numbered a bucket otherwise can go
wrong.

`StringsFound` is the part of `AllFound` that the hash is responsible for: a stored string
that `str_eq` tells from the others at its id (`Readable`) is found under that id as long as
`HashIntact`. That the
bytes at an id are those of its string stays with the run, which checks `AllFound` and
`PrintsBack`.

### The B+ tree

The theorems are about leaves and directories of any size above 1 (`TreeAssumption`), any
set of imported records and trees of any height. They have no hypothesis: inserts, splits,
splits of the root and write-backs come in any order. The properties, and the invariant
`TreeUnlessReused`, speak of states before an insert got a page that is in use (`reused`).
From then on the code goes wrong, see above; the steps that lead there are in the model.

`ScanExact`, `CheckPasses` and `DuplicatesExact` are far from inductive: none says which
records a directory leads to. `TreeInv` says that there is a `t` that gives every page, leaf or
directory, an interval (`t.lo`, `t.hi`) and every directory a level, such that

* the keys of a directory ascend inside its interval, child i has the interval between the
  keys to its left and right and is of a smaller level, and no page has two parents (`Whole`);
* a leaf has exactly the records of its interval, in order, and its slots past
  `value_count` have nothing or a record at or above the interval's end (`Content`); this is why
  `equal_record` is not misled there: such a slot never equals a record that belongs to
  the leaf;
* the next leaf starts where this one ends, and the last one points to page 0 (`Linked`);
* the pages in use are those on disk and the one in the buffer (`InUsePages`).

A split is followed from the leaf upwards. Between the moment a page n is split off a page b
and the moment its parent gets the key, the parent takes b for both: `Tree(ds, t, b, n)` is
the tree in this state. `LeafAdded` enters it, `KidInserted` leaves it in a directory with
room, `DirSplit` passes it on to the next level, and `RootPushed` with `DirSplit` is the
root split of the import. Online splits (`DirStep`, in the middle) and the import
(`BulkStep`, at the end) are two uses of these lemmas: both come out as halves of the
directory with the new key in it (`IsHalves`). `BuiltFirst` and `BuiltNext` go through the
leaves of an import one by one.

The searches, the descent, the way up, the scan, `check()` and the import are recursive
functions. That each one is defined is a lemma of its own (`SearchDefined`, `LeafForDefined`,
...): its right-hand side looks only at arguments of a smaller rank (the length of an
interval, the level of a directory, the number of leaves ahead), and `RecursionExists` says,
for functions given as sets, that then there is a solution. What it computes is shown by
taking the least rank at which it would be wrong (`Least`). Both are ordinary lemmas over
sets, and so need no formula as a parameter.

### Only model-checked

* Liveness (`GetPageReturns`, `QueriesEnd`, `ReadersGetIn`, `InsertEnds`, `SearchEnds`), which
  the proof system does not do.
* The automata, searches, parsers and iterators of `PathSearch` and `QueryEngine`. Their
  definitions are RECURSIVE operators over trees and expressions, which the provers
  cannot unfold.
* The bytes of strings, in `AllFound` and `PrintsBack`: blocks are the result of folds.
* `EdgeRowsFound` and the sentence on `append_page` do not hold, see above.

## 6. Not modelled

* *Edge table blocks*: the block that concurrent readers share and the loop of
  `append_record`. The rows and both lookups are modelled.
* *Temporary hashes, sorting, hash joins, aggregates*: DISTINCT and the answers of a query
  are bags here; the planner's hash joins are commented out in the code.
* *SPARQL beyond its grammar and its path iterator*: its visitor and plans. The sessions of
  its server are those of `bin/server.cc` again, over a model that is not updated.
* *Lexers*: generated code over characters, with no shared state. Visits of
  DESCRIBE, GROUP BY and ORDER BY; the costs of plans, as a wrong estimate costs time only.
* *Materialised paths* (never asked for), the DFS, A*, Dijkstra and data path iterators
  (no plan makes them).
* *Values*: arithmetic and order of 64-bit encodings.
* *Shutdown* of a server with sessions under way, and a process that is killed: the code
  has no recovery to state anything about.

## 7. Plan

Modelled and checked, in this order: the pool and its promise; temporary files; the
server; the protocol; the B+ tree; the strings hash; inserts over all the indexes; paths;
queries; the string manager; the slots of the path manager. Proved: the pool;
the sessions; temporary files; the protocol; the indexes and counts of the quad model; the
strings hash; the B+ tree.

Next, modules: `EdgeTable` (blocks, the shared `current_block`, `append_record` over
`append_page`); the merge sort of ORDER BY against a sorted reference; a composition of
sessions with the pool for shutdown.

Abstract specifications worth stating: a set of records with range scans, which
`BPlusTree` implements; a read-write lock, for the sessions.

Next, theorems:

1. A read-write lock as an abstract specification, which the sessions of `Server` implement.
2. A set of records with range scans, which `BPlusTree` implements, from `TreeInv`.
3. Lemmas on the clock (`NextPos` visits every frame) as the safety part of
   `GetPageReturns`.

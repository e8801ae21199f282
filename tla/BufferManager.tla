---------------------------- MODULE BufferManager ----------------------------
(***************************************************************************)
(* The shared buffer pool of MillenniumDB (storage/buffer_manager.cc) on   *)
(* top of the page I/O of the file manager (storage/file_manager.cc).      *)
(*                                                                         *)
(* A thread obtains a page with get_page, append_page or get_last_page,    *)
(* which pin it; it may pin it again (BPlusTreeLeaf::duplicate), change    *)
(* its bytes and mark it dirty, and must unpin every reference it got.     *)
(* Only get_page takes shared_buffer_mutex: pin, unpin, the bytes and      *)
(* count_pages are accessed without it, so they interleave with the clock  *)
(* scan of a get_page that is looking for a frame to replace.              *)
(*                                                                         *)
(* The users are queries and updates: server.cc runs a query under a       *)
(* shared lock of execution_mutex and an update, the only one that writes  *)
(* pages or asks for the size of a file, under an exclusive lock.          *)
(***************************************************************************)
EXTENDS Naturals, FiniteSets

CONSTANTS
  Threads,    \* the threads that use the shared buffer
  Handles,    \* the page references (Page&) these threads can hold
  Owner,      \* Owner[h]: the thread whose reference h is
  Files,      \* FileIds given by FileManager::get_file_id
  MaxPages,   \* bound: pages 0 .. MaxPages-1 of each file are used
  PoolSize,   \* shared_buffer_pool_size
  Values,     \* contents of a page, told apart only by equality
  Zero,       \* the content of a page of zeros
  MaxUsage,   \* bound on a frame's usage counter
  None        \* "no page", "no frame", "nobody"

PageNumbers == 0 .. MaxPages - 1
PageIds     == Files \X PageNumbers
Frames      == 0 .. PoolSize - 1
\* A pending call: the page asked for, and the method that asked for it.
Requests    == [op : {"get", "append"}, page : PageIds]

ASSUME BufferAssumption ==
  /\ PoolSize \in Nat \ {0}
  /\ MaxPages \in Nat \ {0}
  /\ MaxUsage \in Nat \ {0}
  /\ IsFiniteSet(Handles)
  /\ Owner \in [Handles -> Threads]
  /\ Zero \in Values
  /\ None \notin Frames \cup PageIds \cup Handles \cup Requests

VARIABLES
  \* buffer_pool[f]: the fields of each Page
  page_id, bytes, pins, usage, dirty,
  pages,      \* the map PageId -> frame, None when absent
  clock_pos,  \* the hand of the clock
  mutex,      \* the call that holds shared_buffer_mutex
  want,       \* want[h]: the pending call that will fill reference h
  held,       \* held[h]: the frame that reference h points to
  phase,      \* phase[t]: how thread t holds execution_mutex
  disk,       \* disk[p]: what a read of page p from its file returns
  size        \* size[f]: whole pages in file f, as lseek and fstat see it

poolVars == <<page_id, bytes, pins, usage, dirty, pages, clock_pos>>
fileVars == <<disk, size>>
vars == <<poolVars, mutex, want, held, phase, fileVars>>

\* The files as an import or an earlier run left them, the pool as the
\* constructor builds it.
Init ==
  /\ page_id = [f \in Frames |-> None]
  /\ bytes = [f \in Frames |-> Zero]
  /\ pins = [f \in Frames |-> 0]
  /\ usage = [f \in Frames |-> 0]
  /\ dirty = [f \in Frames |-> FALSE]
  /\ pages = [p \in PageIds |-> None]
  /\ clock_pos = 0
  /\ mutex = None
  /\ want = [h \in Handles |-> None]
  /\ held = [h \in Handles |-> None]
  /\ phase = [t \in Threads |-> "idle"]
  /\ size \in [Files -> 0 .. MaxPages]
  /\ disk \in [PageIds -> Values]
  /\ \A p \in PageIds : p[2] >= size[p[1]] => disk[p] = Zero

-----------------------------------------------------------------------------
(* The operations of the threads, as execution_mutex orders them.           *)

BeginRead(t) ==
  /\ phase[t] = "idle"
  /\ \A u \in Threads : phase[u] # "write"
  /\ phase' = [phase EXCEPT ![t] = "read"]
  /\ UNCHANGED <<poolVars, mutex, want, held, fileVars>>

\* Mutant: the update takes the lock in shared mode.
BeginWriteShared(t) ==
  /\ \A u \in Threads : phase[u] # "write"
  /\ phase[t] = "idle"
  /\ phase' = [phase EXCEPT ![t] = "write"]
  /\ UNCHANGED <<poolVars, mutex, want, held, fileVars>>

BeginWrite(t) ==
  /\ \A u \in Threads : phase[u] = "idle"
  /\ phase' = [phase EXCEPT ![t] = "write"]
  /\ UNCHANGED <<poolVars, mutex, want, held, fileVars>>

\* The lock is released after the iterators and records of the operation are
\* destroyed, and they unpin their pages.
Finish(t) ==
  /\ phase[t] # "idle"
  /\ \A h \in Handles : Owner[h] = t => held[h] = None /\ want[h] = None
  /\ phase' = [phase EXCEPT ![t] = "idle"]
  /\ UNCHANGED <<poolVars, mutex, want, held, fileVars>>

\* A thread runs inside an operation and executes one call at a time.
Running(t) ==
  /\ phase[t] # "idle"
  /\ \A h \in Handles : Owner[h] = t => want[h] = None

Updating(t) == Running(t) /\ phase[t] = "write"

-----------------------------------------------------------------------------
(* The calls that ask for a page.  append_page and get_last_page fix the    *)
(* page number from the size of the file, before the mutex is taken.        *)

Ask(h, op, p) ==
  /\ held[h] = None /\ Running(Owner[h])
  /\ want' = [want EXCEPT ![h] = [op |-> op, page |-> p]]
  /\ UNCHANGED <<poolVars, mutex, held, phase, fileVars>>

GetPage(h, p) == Ask(h, "get", p)

CountPages(f) == size[f]

GetLastPage(h, f) ==
  /\ Updating(Owner[h])
  /\ Ask(h, "get", <<f, IF CountPages(f) = 0 THEN 0 ELSE CountPages(f) - 1>>)

AppendPage(h, f) ==
  /\ Updating(Owner[h])
  /\ CountPages(f) < MaxPages
  /\ Ask(h, "append", <<f, CountPages(f)>>)

-----------------------------------------------------------------------------
(* get_page, from the acquisition of the mutex to its release.              *)

\* Mutant: the increment of the atomic counter is lost.
PinnedLost(f) == pins
Pinned(f) == [pins EXCEPT ![f] = @ + 1]

\* The page is in the buffer: it is pinned under the mutex and returned.
Hit(h) ==
  /\ want[h] # None /\ mutex = None
  /\ LET f == pages[want[h].page] IN
       /\ f # None
       /\ pins' = Pinned(f)
       /\ held' = [held EXCEPT ![h] = f]
  /\ want' = [want EXCEPT ![h] = None]
  /\ UNCHANGED <<page_id, bytes, usage, dirty, pages, clock_pos, mutex, phase, fileVars>>

\* The page is not in the buffer: the clock scan starts, mutex held.
Miss(h) ==
  /\ want[h] # None /\ mutex = None
  /\ pages[want[h].page] = None
  /\ mutex' = h
  /\ UNCHANGED <<poolVars, want, held, phase, fileVars>>

\* Mutant: the bound is tested before the increment.
NextPosLate(c) == IF c < PoolSize THEN c + 1 ELSE 0
NextPos(c) == IF c + 1 < PoolSize THEN c + 1 ELSE 0

\* Mutant: a frame is never aged.
AgedNever(f) == usage
Aged(f) == IF pins[f] = 0 THEN [usage EXCEPT ![f] = @ - 1] ELSE usage

\* One turn of the loop of get_buffer_available that does not break.
ClockStep(h) ==
  /\ mutex = h
  /\ pins[clock_pos] # 0 \/ usage[clock_pos] # 0
  /\ usage' = Aged(clock_pos)
  /\ clock_pos' = NextPos(clock_pos)
  /\ UNCHANGED <<page_id, bytes, pins, dirty, pages, mutex, want, held, phase, fileVars>>

\* FileManager::flush: the page is written at its place and the file grows
\* to hold it; a hole left behind reads as zeros, which disk already says.
\* Mutant: the page is dropped without being written.
FlushedDiskNot(f) == disk
FlushedDisk(f) == IF dirty[f] THEN [disk EXCEPT ![page_id[f]] = bytes[f]] ELSE disk
FlushedSize(f) ==
  IF dirty[f] /\ size[page_id[f][1]] <= page_id[f][2]
    THEN [size EXCEPT ![page_id[f][1]] = page_id[f][2] + 1] ELSE size

\* FileManager::read_page: past the end of the file the content is zeros and
\* the file is truncated to page_number pages, so that the page itself is
\* still past its end; otherwise the bytes are read.
\* Mutant: the frame is not cleared, and keeps the bytes of the page before.
ReadBytesStale(p, d, s) == IF s[p[1]] <= p[2] THEN bytes[clock_pos] ELSE d[p]
ReadBytes(p, d, s) == IF s[p[1]] <= p[2] THEN Zero ELSE d[p]
SizeAfterRead(p, s) == IF s[p[1]] <= p[2] THEN [s EXCEPT ![p[1]] = p[2]] ELSE s

\* The map after frame f is given to page p.
\* Mutant: the key of the page that leaves is not erased.
RemappedOnly(f, p) == [pages EXCEPT ![p] = f]
Remapped(f, p) == [q \in PageIds |-> IF q = p THEN f
                                     ELSE IF q = page_id[f] THEN None ELSE pages[q]]

\* The loop breaks on an unpinned frame of usage 0: its page leaves the map,
\* is written back if dirty, and the frame is reassigned and filled.
Replace(h) ==
  /\ mutex = h
  /\ pins[clock_pos] = 0 /\ usage[clock_pos] = 0
  /\ LET f == clock_pos
         p == want[h].page
     IN /\ page_id' = [page_id EXCEPT ![f] = p]
        /\ pins' = [pins EXCEPT ![f] = 1]
        /\ usage' = [usage EXCEPT ![f] = 1]
        /\ dirty' = [dirty EXCEPT ![f] = FALSE]
        /\ pages' = Remapped(f, p)
        /\ disk' = FlushedDisk(f)
        /\ size' = SizeAfterRead(p, FlushedSize(f))
        /\ bytes' = [bytes EXCEPT ![f] = ReadBytes(p, disk', FlushedSize(f))]
        /\ held' = [held EXCEPT ![h] = f]
  /\ want' = [want EXCEPT ![h] = None]
  /\ mutex' = None
  /\ UNCHANGED <<clock_pos, phase>>

-----------------------------------------------------------------------------
(* What a thread does with a page it holds, without the mutex.              *)

\* BufferManager::pin, from a reference the thread already has.
Pin(h, g) ==
  /\ held[h] = None /\ held[g] # None
  /\ Owner[h] = Owner[g] /\ Running(Owner[h])
  /\ usage[held[g]] < MaxUsage
  /\ pins' = Pinned(held[g])
  /\ usage' = [usage EXCEPT ![held[g]] = @ + 1]
  /\ held' = [held EXCEPT ![h] = held[g]]
  /\ UNCHANGED <<page_id, bytes, dirty, pages, clock_pos, mutex, want, phase, fileVars>>

Unpin(h) ==
  /\ held[h] # None /\ Running(Owner[h])
  /\ pins' = [pins EXCEPT ![held[h]] = @ - 1]
  /\ held' = [held EXCEPT ![h] = None]
  /\ UNCHANGED <<page_id, bytes, usage, dirty, pages, clock_pos, mutex, want, phase,
                 fileVars>>

\* The bytes of the page change, followed by make_dirty.
WritePage(h, v) ==
  /\ held[h] # None /\ Updating(Owner[h])
  /\ bytes' = [bytes EXCEPT ![held[h]] = v]
  /\ dirty' = [dirty EXCEPT ![held[h]] = TRUE]
  /\ UNCHANGED <<page_id, pins, usage, pages, clock_pos, mutex, want, held, phase,
                 fileVars>>

DirtyPage(p) == pages[p] # None /\ dirty[pages[p]]

\* The destructor, called when nobody uses a page any more: flush() writes
\* every dirty frame, which leaves the file as large as its last page written,
\* the pool is freed; init() builds an empty one over the
\* same files.
Restart ==
  /\ \A t \in Threads : phase[t] = "idle"
  /\ disk' = [p \in PageIds |-> IF DirtyPage(p) THEN bytes[pages[p]] ELSE disk[p]]
  /\ size' \in [Files -> 0 .. MaxPages]
  /\ \A p \in PageIds : DirtyPage(p) => size'[p[1]] > p[2]
  /\ \A x \in Files :
       /\ size'[x] >= size[x]
       /\ \/ size'[x] = size[x]
          \/ \E n \in PageNumbers : DirtyPage(<<x, n>>) /\ size'[x] = n + 1
  /\ page_id' = [f \in Frames |-> None]
  /\ bytes' = [f \in Frames |-> Zero]
  /\ pins' = [f \in Frames |-> 0]
  /\ usage' = [f \in Frames |-> 0]
  /\ dirty' = [f \in Frames |-> FALSE]
  /\ pages' = [p \in PageIds |-> None]
  /\ clock_pos' = 0
  /\ UNCHANGED <<mutex, want, held, phase>>

-----------------------------------------------------------------------------
Call(h) == Hit(h) \/ Miss(h) \/ ClockStep(h) \/ Replace(h)

Next ==
  \/ \E t \in Threads : BeginRead(t) \/ BeginWrite(t) \/ Finish(t)
  \/ \E h \in Handles :
       \/ \E p \in PageIds : GetPage(h, p)
       \/ \E f \in Files : GetLastPage(h, f) \/ AppendPage(h, f)
       \/ Call(h)
       \/ \E g \in Handles : Pin(h, g)
       \/ Unpin(h)
       \/ \E v \in Values : WritePage(h, v)
  \/ Restart

Spec == Init /\ [][Next]_vars

\* A thread inside get_page runs on: the scan is a loop with no wait in it.
Scan     == \E h \in Handles : ClockStep(h) \/ Replace(h)
FairSpec == Spec /\ WF_vars(Scan)

-----------------------------------------------------------------------------
TypeOK ==
  /\ page_id \in [Frames -> PageIds \cup {None}]
  /\ bytes \in [Frames -> Values]
  /\ pins \in [Frames -> Nat]
  /\ usage \in [Frames -> 0 .. MaxUsage]
  /\ dirty \in [Frames -> BOOLEAN]
  /\ pages \in [PageIds -> Frames \cup {None}]
  /\ clock_pos \in Frames
  /\ mutex \in Handles \cup {None}
  /\ want \in [Handles -> Requests \cup {None}]
  /\ held \in [Handles -> Frames \cup {None}]
  /\ phase \in [Threads -> {"idle", "read", "write"}]
  /\ disk \in [PageIds -> Values]
  /\ size \in [Files -> 0 .. MaxPages]

\* The map and the frames agree in both directions: a page is in the frame the
\* map gives, and in no other (get_page erases the old key before it reuses a
\* frame, and only inserts a page that the map does not have).
MapExact ==
  \A p \in PageIds, f \in Frames : pages[p] = f <=> page_id[f] = p

HoldersOf(f) == {h \in Handles : held[h] = f}

\* A frame's pin counter is the number of references that point to it, through
\* every interleaving of locked get_page with unlocked pin and unpin, and
\* every pinned frame has a page: what makes "pins == 0" a safe test for
\* replacing the page, and the assertion of Page::unpin true.
PinsExact ==
  \A f \in Frames :
    /\ pins[f] = Cardinality(HoldersOf(f))
    /\ HoldersOf(f) # {} => page_id[f] # None

\* A frame that is not dirty holds what its file holds, and a page past the
\* end of its file reads as zeros: dropping a clean page loses nothing.
CleanIsOnDisk ==
  /\ \A f \in Frames : page_id[f] # None /\ ~dirty[f] => disk[page_id[f]] = bytes[f]
  /\ \A f \in Frames : page_id[f] = None => ~dirty[f] /\ usage[f] = 0
  /\ \A p \in PageIds : p[2] >= size[p[1]] => disk[p] = Zero

\* The mutex is held by a call that is waiting for a page not in the map; a
\* reference being filled points nowhere; a thread has one call under way, and
\* a thread outside an operation has none and holds no page; an update runs
\* alone.
CallsExact ==
  /\ \A h \in Handles :
       phase[Owner[h]] = "idle" => held[h] = None /\ want[h] = None
  /\ \A t, u \in Threads : phase[t] = "write" /\ phase[u] # "idle" => t = u
  /\ mutex # None => want[mutex] # None /\ pages[want[mutex].page] = None
  /\ \A h \in Handles : want[h] # None => held[h] = None
  /\ \A h, g \in Handles :
       Owner[h] = Owner[g] /\ want[h] # None /\ want[g] # None => h = g

\* The inductive invariant behind the theorems.
BufferInv == TypeOK /\ MapExact /\ PinsExact /\ CleanIsOnDisk /\ CallsExact

\* The buffer manager implements the page store: the content of a page is
\* that of its frame or, when it has none, that of its file.
Content == [p \in PageIds |-> IF pages[p] # None THEN bytes[pages[p]] ELSE disk[p]]
View == [h \in Handles |-> IF held[h] # None THEN page_id[held[h]] ELSE None]
Store == INSTANCE PageStore WITH mem <- Content, view <- View

\* No eviction, reload or restart changes what a page contains or which page
\* a reference designates (buffer_manager.h: get_page makes "transparent if
\* the page is already in memory or needs to be read from disk").
StoreSpec == Store!StoreSpec

PoolIsFull == \A f \in Frames : pins[f] > 0

\* A get_page that started to look for a frame finds one, and releases the
\* mutex every other get_page waits for, unless the pool keeps being full: the
\* scan has no end while every frame is pinned (no exception is thrown, as
\* doc/internals/buffer_manager.md:39 has it).
GetPageReturns == []<>(mutex = None \/ PoolIsFull)

\* What buffer_manager.h promises of append_page: "The page returned has all
\* its bytes initialized to 0".
AppendReturnsZeros ==
  [][\A h \in Handles :
       want[h] # None /\ want'[h] = None /\ want[h].op = "append"
         => bytes'[held'[h]] = Zero]_vars
=============================================================================

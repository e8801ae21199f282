------------------------------ MODULE TmpFiles ------------------------------
(***************************************************************************)
(* Temporary files and the private buffer pools (storage/file_manager.cc,  *)
(* storage/buffer_manager.cc).  A query that sorts or groups opens         *)
(* temporary files.  The first file of a thread takes a private position,  *)
(* that is, a pool of its own; from then on the thread reads and writes    *)
(* the pages of its files there, without any mutex.  The FileId is the     *)
(* file descriptor, which the operating system reuses after close.         *)
(***************************************************************************)
EXTENDS Naturals, Sequences

CONSTANTS
  Threads,       \* std::thread::id of the sessions
  MaxThreads,    \* max_threads: number of private positions
  PoolSize,      \* private_buffer_pool_size
  Fds,           \* file descriptors the operating system may give
  MaxPages,      \* bound: pages 0 .. MaxPages-1 of each file are used
  Values, Zero,  \* contents of a page; a page of zeros
  None,
  Assigned,      \* Assigned[t]: the position an earlier query of thread t took
  Spent          \* how many positions threads may have taken before

Positions == 0 .. MaxThreads - 1
Frames    == 0 .. PoolSize - 1
PageIds   == Fds \X (0 .. MaxPages - 1)

ASSUME TmpAssumption ==
  /\ MaxThreads \in Nat \ {0} /\ PoolSize \in Nat \ {0} /\ MaxPages \in Nat \ {0}
  /\ Spent \subseteq 0 .. MaxThreads
  /\ \A n \in Spent : Assigned \in [Threads -> (0 .. n - 1) \cup {None}]
  /\ Zero \in Values
  /\ None \notin Positions \cup Frames \cup PageIds \cup Fds
  /\ None \notin [pos : Positions, thread : Threads] \cup [pos : Positions, frame : Frames]

VARIABLES
  pc,            \* where each thread is
  fd_of,         \* the descriptor a thread just got from tmpfile()
  front,         \* available_private_positions.front() as a thread read it
  available,     \* available_private_positions
  thread2index,  \* thread2index
  tmp,           \* tmp[fd]: the TmpFileId given for fd and its thread, None if closed
  leaked,        \* descriptors that are open and that nobody will close
  pool,          \* pool[pos][i]: the pages of private_buffer_pool
  map,           \* private_tmp_pages
  clock,         \* private_clock_pos
  want,          \* the page a get_tmp_page is looking for a frame for
  ref,           \* the page reference a thread holds: [pos, frame], or None
  disk, size     \* what the file of each descriptor holds, and its pages

threadVars == <<pc, fd_of, front, want, ref>>
indexVars  == <<available, thread2index>>
poolVars   == <<pool, map, clock>>
fileVars   == <<tmp, leaked, disk, size>>
vars == <<threadVars, indexVars, poolVars, fileVars>>

FreePage == [page |-> None, bytes |-> Zero, pins |-> 0, usage |-> 0, dirty |-> FALSE]
EmptyMap == [p \in PageIds |-> None]

\* The constructor queues every position.  Threads took the first n of them, one
\* after the other: those of Assigned and threads long gone.  Their pools are
\* empty again.
Init ==
  /\ pc = [t \in Threads |-> "off"]
  /\ fd_of = [t \in Threads |-> None]
  /\ front = [t \in Threads |-> None]
  /\ \E n \in Spent : available = [i \in 1 .. MaxThreads - n |-> n + i - 1]
  /\ thread2index = Assigned
  /\ tmp = [fd \in Fds |-> None]
  /\ leaked = {}
  /\ pool = [pos \in Positions |-> [i \in Frames |-> FreePage]]
  /\ map = [pos \in Positions |-> EmptyMap]
  /\ clock = [pos \in Positions |-> 0]
  /\ want = [t \in Threads |-> None]
  /\ ref = [t \in Threads |-> None]
  /\ disk = [p \in PageIds |-> Zero]
  /\ size = [fd \in Fds |-> 0]

Owns(t, fd) == tmp[fd] # None /\ tmp[fd].thread = t

Goto(t, label) == pc' = [pc EXCEPT ![t] = label]

-----------------------------------------------------------------------------
(* A session thread starts and ends; its id may be given to a later one.    *)

StartQuery(t) ==
  /\ pc[t] = "off"
  /\ Goto(t, "run")
  /\ UNCHANGED <<fd_of, front, want, ref, indexVars, poolVars, fileVars>>

\* The iterators are destroyed first, and each removes its files.
EndQuery(t) ==
  /\ pc[t] \in {"run", "unwind"}
  /\ ref[t] = None /\ \A fd \in Fds : ~Owns(t, fd)
  /\ Goto(t, "off")
  /\ UNCHANGED <<fd_of, front, want, ref, indexVars, poolVars, fileVars>>

-----------------------------------------------------------------------------
(* FileManager::get_tmp_file_id and BufferManager::get_private_buffer_index *)

\* tmpfile() creates an empty file on a descriptor that is not in use.
OpenTmp(t, fd) ==
  /\ pc[t] = "run" /\ ref[t] = None
  /\ tmp[fd] = None /\ fd \notin leaked
  /\ \A u \in Threads : fd_of[u] # fd
  /\ fd_of' = [fd_of EXCEPT ![t] = fd]
  /\ disk' = [p \in PageIds |-> IF p[1] = fd THEN Zero ELSE disk[p]]
  /\ size' = [size EXCEPT ![fd] = 0]
  /\ Goto(t, "find")
  /\ UNCHANGED <<front, want, ref, indexVars, poolVars, tmp, leaked>>

\* The file gets the id of the position found or taken.
GiveFile(t, pos) ==
  /\ tmp' = [tmp EXCEPT ![fd_of[t]] = [pos |-> pos, thread |-> t]]
  /\ fd_of' = [fd_of EXCEPT ![t] = None]
  /\ Goto(t, "run")

\* An old thread: its position is in the map.
OldThread(t) ==
  /\ pc[t] = "find" /\ thread2index[t] # None
  /\ GiveFile(t, thread2index[t])
  /\ UNCHANGED <<front, want, ref, indexVars, poolVars, leaked, disk, size>>

\* No position is left: QueryExecutionException.  The file stays open.
TooManyThreads(t) ==
  /\ pc[t] = "find" /\ thread2index[t] = None
  /\ available = << >>
  /\ leaked' = leaked \cup {fd_of[t]}
  /\ fd_of' = [fd_of EXCEPT ![t] = None]
  /\ Goto(t, "unwind")
  /\ UNCHANGED <<front, want, ref, indexVars, poolVars, tmp, disk, size>>

\* A new thread reads the front of the queue ...
ReadFront(t) ==
  /\ pc[t] = "find" /\ thread2index[t] = None
  /\ available # << >>
  /\ front' = [front EXCEPT ![t] = Head(available)]
  /\ Goto(t, "pop")
  /\ UNCHANGED <<fd_of, want, ref, indexVars, poolVars, fileVars>>

\* ... and pops it; no mutex protects the queue in between.
PopFront(t) ==
  /\ pc[t] = "pop"
  /\ available' = IF available = << >> THEN available ELSE Tail(available)
  /\ thread2index' = [thread2index EXCEPT ![t] = front[t]]
  /\ map' = [map EXCEPT ![front[t]] = EmptyMap]
  /\ clock' = [clock EXCEPT ![front[t]] = 0]
  /\ front' = [front EXCEPT ![t] = None]
  /\ GiveFile(t, front[t])
  /\ UNCHANGED <<want, ref, pool, leaked, disk, size>>

-----------------------------------------------------------------------------
(* BufferManager::get_tmp_page, without a mutex.                            *)

GetTmpPage(t, p) ==
  /\ pc[t] = "run" /\ ref[t] = None /\ Owns(t, p[1])
  /\ LET pos == tmp[p[1]].pos
         i == map[pos][p]
     IN IF i # None
          THEN /\ pool' = [pool EXCEPT ![pos][i].pins = @ + 1]
               /\ ref' = [ref EXCEPT ![t] = [pos |-> pos, frame |-> i]]
               /\ UNCHANGED <<pc, want>>
          ELSE /\ want' = [want EXCEPT ![t] = p]
               /\ Goto(t, "scan")
               /\ UNCHANGED <<pool, ref>>
  /\ UNCHANGED <<fd_of, front, indexVars, map, clock, fileVars>>

Hand(t) == LET pos == tmp[want[t][1]].pos IN pool[pos][clock[pos]]

NextPos(c) == IF c + 1 < PoolSize THEN c + 1 ELSE 0

\* get_private_buffer_available, one turn that does not break.
ClockStep(t) ==
  /\ pc[t] = "scan"
  /\ Hand(t).pins # 0 \/ Hand(t).usage # 0
  /\ LET pos == tmp[want[t][1]].pos IN
       /\ pool' = IF Hand(t).pins = 0
                    THEN [pool EXCEPT ![pos][clock[pos]].usage = @ - 1] ELSE pool
       /\ clock' = [clock EXCEPT ![pos] = NextPos(@)]
  /\ UNCHANGED <<threadVars, indexVars, map, fileVars>>

\* FileManager::flush of a page that is dirty.
\* Mutant: a page that is replaced is not written.
FlushedDiskNot(page) == disk
FlushedDisk(page) == IF page.dirty THEN [disk EXCEPT ![page.page] = page.bytes] ELSE disk
FlushedSize(page) ==
  IF page.dirty /\ size[page.page[1]] <= page.page[2]
    THEN [size EXCEPT ![page.page[1]] = page.page[2] + 1] ELSE size

\* The frame is written back, reassigned and filled (FileManager::read_page
\* returns zeros past the end of the file and truncates it before the page).
Replace(t) ==
  /\ pc[t] = "scan"
  /\ Hand(t).pins = 0 /\ Hand(t).usage = 0
  /\ LET p == want[t]
         pos == tmp[p[1]].pos
         old == Hand(t)
         grown == FlushedSize(old)
         past == grown[p[1]] <= p[2]
     IN /\ disk' = FlushedDisk(old)
        /\ size' = IF past THEN [grown EXCEPT ![p[1]] = p[2]] ELSE grown
        /\ pool' = [pool EXCEPT ![pos][clock[pos]] =
                      [page |-> p, bytes |-> IF past THEN Zero ELSE disk'[p],
                       pins |-> 1, usage |-> 1, dirty |-> FALSE]]
        /\ map' = [map EXCEPT ![pos] = [q \in PageIds |->
                     IF q = p THEN clock[pos] ELSE IF q = old.page THEN None ELSE @[q]]]
        /\ ref' = [ref EXCEPT ![t] = [pos |-> pos, frame |-> clock[pos]]]
  /\ want' = [want EXCEPT ![t] = None]
  /\ Goto(t, "run")
  /\ UNCHANGED <<fd_of, front, indexVars, clock, tmp, leaked>>

-----------------------------------------------------------------------------
(* What the thread does with the page and the file.                         *)

WritePage(t, v) ==
  /\ pc[t] = "run" /\ ref[t] # None
  /\ pool' = [pool EXCEPT ![ref[t].pos][ref[t].frame].bytes = v,
                          ![ref[t].pos][ref[t].frame].dirty = TRUE]
  /\ UNCHANGED <<threadVars, indexVars, map, clock, fileVars>>

Unpin(t) ==
  /\ pc[t] \in {"run", "unwind"} /\ ref[t] # None
  /\ pool' = [pool EXCEPT ![ref[t].pos][ref[t].frame].pins = @ - 1]
  /\ ref' = [ref EXCEPT ![t] = None]
  /\ UNCHANGED <<pc, fd_of, front, want, indexVars, map, clock, fileVars>>

\* BufferManager::remove_tmp: the pages of the file leave the pool unwritten.
\* Mutant: they stay, for the clock to reuse.
PurgedKept(pos, fd) == pool[pos]
Purged(pos, fd) ==
  [i \in Frames |-> IF pool[pos][i].page # None /\ pool[pos][i].page[1] = fd
                      THEN FreePage ELSE pool[pos][i]]

\* The map without the entries of the file.
Unmapped(pos, fd) ==
  [p \in PageIds |-> IF \E i \in Frames : pool[pos][i].page = p /\ p[1] = fd
                       THEN None ELSE map[pos][p]]

\* FileManager::remove_tmp: the pool first, then the descriptor is closed.
\* Mutant: the descriptor is closed and the pool keeps the pages.
RemoveTmpCloses(t, fd) ==
  /\ pc[t] \in {"run", "unwind"} /\ ref[t] = None /\ Owns(t, fd)
  /\ tmp' = [tmp EXCEPT ![fd] = None]
  /\ UNCHANGED <<threadVars, indexVars, poolVars, leaked, disk, size>>

RemoveTmp(t, fd) ==
  /\ pc[t] \in {"run", "unwind"} /\ ref[t] = None /\ Owns(t, fd)
  /\ LET pos == tmp[fd].pos IN
       /\ pool' = [pool EXCEPT ![pos] = Purged(pos, fd)]
       /\ map' = [map EXCEPT ![pos] = Unmapped(pos, fd)]
  /\ tmp' = [tmp EXCEPT ![fd] = None]
  /\ UNCHANGED <<threadVars, indexVars, clock, leaked, disk, size>>

-----------------------------------------------------------------------------
Next ==
  \E t \in Threads :
    \/ StartQuery(t) \/ EndQuery(t)
    \/ \E fd \in Fds : OpenTmp(t, fd) \/ RemoveTmp(t, fd)
    \/ OldThread(t) \/ TooManyThreads(t) \/ ReadFront(t) \/ PopFront(t)
    \/ \E p \in PageIds : GetTmpPage(t, p)
    \/ ClockStep(t) \/ Replace(t)
    \/ \E v \in Values : WritePage(t, v)
    \/ Unpin(t)

Spec == Init /\ [][Next]_vars

-----------------------------------------------------------------------------
TypeOK ==
  /\ pc \in [Threads -> {"off", "run", "find", "pop", "scan", "unwind"}]
  /\ available \in Seq(Positions)
  /\ thread2index \in [Threads -> Positions \cup {None}]
  /\ leaked \subseteq Fds
  /\ \A pos \in Positions, i \in Frames :
       /\ pool[pos][i].page \in PageIds \cup {None}
       /\ pool[pos][i].bytes \in Values
       /\ pool[pos][i].pins \in Nat
       /\ pool[pos][i].usage \in {0, 1}
  /\ clock \in [Positions -> Frames]
  /\ disk \in [PageIds -> Values]
  /\ size \in [Fds -> 0 .. MaxPages]

\* What a read of page p of an open file returns now.
Content(p) ==
  IF tmp[p[1]] # None /\ map[tmp[p[1]].pos][p] # None
    THEN pool[tmp[p[1]].pos][map[tmp[p[1]].pos][p]].bytes
    ELSE disk[p]

\* A temporary file starts as zeros, whatever an earlier file with the same
\* descriptor left in some private pool (remove_tmp clears the pool before it
\* closes the descriptor).
NewFileIsEmpty ==
  [][\A p \in PageIds : tmp[p[1]] = None /\ tmp'[p[1]] # None => Content(p)' = Zero]_vars

\* The content of an open file changes only in the page that its thread is
\* writing: no eviction, reload, opening or removal of another file changes it.
OnlyWritesChange ==
  [][\A p \in PageIds :
       tmp[p[1]] # None /\ tmp'[p[1]] # None /\ Content(p)' # Content(p) =>
         \E t \in Threads : /\ Owns(t, p[1]) /\ ref[t] # None /\ ref' = ref
                            /\ pool[ref[t].pos][ref[t].frame].page = p]_vars

\* No frame keeps a page of a descriptor that is closed, so a write-back never
\* goes to a file that does not exist or to somebody else's.
NoOrphanPages ==
  /\ TypeOK
  /\ \A pos \in Positions, i \in Frames :
       LET page == pool[pos][i].page IN
         page # None => tmp[page[1]] # None /\ tmp[page[1]].pos = pos
=============================================================================

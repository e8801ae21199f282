--------------------------- MODULE TmpFilesProofs ---------------------------
(***************************************************************************)
(* Temporary files and private pools are correct for any number of         *)
(* threads, positions, frames, descriptors and pages: no frame outlives    *)
(* its file and a new file is empty, without any condition.  That only     *)
(* writes change a file holds as long as no two threads are between        *)
(* reading the front of available_private_positions and popping it.        *)
(***************************************************************************)
EXTENDS TmpFiles, TLAPS

Pages    == [page : PageIds \cup {None}, bytes : Values, pins : Nat, usage : {0, 1},
             dirty : BOOLEAN]
TmpFile  == [pos : Positions, thread : Threads]
PageRefs == [pos : Positions, frame : Frames]

-----------------------------------------------------------------------------
(* The parts of the invariant.                                              *)

Types ==
  /\ pc \in [Threads -> {"off", "run", "find", "pop", "scan", "unwind"}]
  /\ fd_of \in [Threads -> Fds \cup {None}]
  /\ front \in [Threads -> Positions \cup {None}]
  /\ available \in Seq(Positions)
  /\ thread2index \in [Threads -> Positions \cup {None}]
  /\ tmp \in [Fds -> TmpFile \cup {None}]
  /\ leaked \subseteq Fds
  /\ pool \in [Positions -> [Frames -> Pages]]
  /\ map \in [Positions -> [PageIds -> Frames \cup {None}]]
  /\ clock \in [Positions -> Frames]
  /\ want \in [Threads -> PageIds \cup {None}]
  /\ ref \in [Threads -> PageRefs \cup {None}]
  /\ disk \in [PageIds -> Values]
  /\ size \in [Fds -> 0 .. MaxPages]

\* A descriptor on its way from tmpfile() to its TmpFileId is nobody else's, and
\* its file is empty.
Opening ==
  \A t \in Threads :
    /\ pc[t] \in {"find", "pop"} <=> fd_of[t] # None
    /\ pc[t] = "pop" => front[t] \in Positions
    /\ fd_of[t] # None =>
         /\ tmp[fd_of[t]] = None
         /\ \A u \in Threads : fd_of[u] = fd_of[t] => u = t
         /\ \A p \in PageIds : p[1] = fd_of[t] => disk[p] = Zero

\* A frame has a page of a file that is open and has the position of the pool;
\* one without a page is clean.
Orphans ==
  \A pos \in Positions, i \in Frames :
    LET page == pool[pos][i].page IN
      /\ page # None => tmp[page[1]] # None /\ tmp[page[1]].pos = pos
      /\ page = None => ~pool[pos][i].dirty

\* The map leads to a frame with the page.
MapLeads ==
  \A pos \in Positions, p \in PageIds :
    map[pos][p] # None => pool[pos][map[pos][p]].page = p

\* A thread looks for pages of its own files.
Scans ==
  \A t \in Threads :
    /\ pc[t] = "scan" <=> want[t] # None
    /\ want[t] # None => Owns(t, want[t][1])

\* The frame that a thread refers to.
Held(t) == pool[ref[t].pos][ref[t].frame]

\* A thread holds pages of its own files, pinned.
Holds ==
  \A t \in Threads :
    ref[t] # None => Held(t).page # None /\ Held(t).pins > 0 /\ Owns(t, Held(t).page[1])

\* Past its end a file has no content.
PastEnd == \A p \in PageIds : size[p[1]] <= p[2] => disk[p] = Zero

TmpInv == Types /\ Opening /\ Orphans /\ MapLeads /\ Scans /\ Holds /\ PastEnd

\* No two threads are between front() and pop() of available_private_positions.
OneAtATime == \A t, u \in Threads : pc[t] = "pop" /\ pc[u] = "pop" => t = u

\* A position is in the queue once, or belongs to threads; a file is in the pool of
\* its thread; and the front that a thread read is still the front.
Given ==
  /\ \A i, j \in DOMAIN available : available[i] = available[j] => i = j
  /\ \A i \in DOMAIN available, t \in Threads : available[i] # thread2index[t]
  /\ \A fd \in Fds : tmp[fd] # None => thread2index[tmp[fd].thread] = tmp[fd].pos
  /\ \A t \in Threads : pc[t] = "pop" =>
       thread2index[t] = None /\ available # << >> /\ front[t] = available[1]

\* A page in a pool is found there, a page that is looked for is in none, and a
\* clean page is that of the file.
Cached ==
  /\ \A pos \in Positions, i \in Frames :
       LET page == pool[pos][i] IN
         page.page # None =>
           map[pos][page.page] = i /\ (page.dirty \/ page.bytes = disk[page.page])
  /\ \A t \in Threads :
       want[t] # None => map[tmp[want[t][1]].pos][want[t]] = None

CacheInv == Given /\ Cached

-----------------------------------------------------------------------------
(* Every step keeps TmpInv.                                                 *)

\* None is none of the values that it stands beside.
LEMMA NoneApart ==
  /\ None \notin Positions /\ None \notin Frames /\ None \notin PageIds
  /\ None \notin Fds /\ None \notin TmpFile /\ None \notin PageRefs
BY TmpAssumption DEF TmpAssumption, TmpFile, PageRefs

\* The two parts of a page id.
LEMMA PageIdParts ==
  \A p \in PageIds : p[1] \in Fds /\ p[2] \in 0 .. MaxPages - 1 /\ p = <<p[1], p[2]>>
BY DEF PageIds

\* The fields of a page.
LEMMA PageFields ==
  ASSUME NEW x \in Pages
  PROVE  /\ x.page \in PageIds \cup {None} /\ x.bytes \in Values /\ x.pins \in Nat
         /\ x.usage \in {0, 1} /\ x.dirty \in BOOLEAN
BY DEF Pages

\* Pinning and unpinning change nothing but the pins.
LEMMA PinsUpdate ==
  ASSUME NEW x \in Pages, NEW n \in Nat
  PROVE  LET y == [x EXCEPT !.pins = n]
         IN  /\ y \in Pages /\ y.page = x.page /\ y.bytes = x.bytes /\ y.pins = n
             /\ y.dirty <=> x.dirty
BY DEF Pages

\* The clock changes nothing but the usage.
LEMMA UsageUpdate ==
  ASSUME NEW x \in Pages
  PROVE  LET y == [x EXCEPT !.usage = 0]
         IN  /\ y \in Pages /\ y.page = x.page /\ y.bytes = x.bytes /\ y.pins = x.pins
             /\ y.dirty <=> x.dirty
BY DEF Pages

\* A write changes the bytes and marks the page.
LEMMA BytesUpdate ==
  ASSUME NEW x \in Pages, NEW v \in Values
  PROVE  LET y == [x EXCEPT !.bytes = v, !.dirty = TRUE]
         IN  /\ y \in Pages /\ y.page = x.page /\ y.bytes = v /\ y.pins = x.pins
             /\ y.dirty = TRUE
BY DEF Pages

\* Nothing is open and every pool is empty.
LEMMA InitInv == Init => TmpInv
<1> SUFFICES ASSUME Init PROVE TmpInv
  OBVIOUS
<1> USE TmpAssumption, NoneApart DEF TmpAssumption, Init
<1>1. PICK n \in Spent : available = [i \in 1 .. MaxThreads - n |-> n + i - 1]
  OBVIOUS
<1>2. n \in 0 .. MaxThreads /\ Assigned \in [Threads -> (0 .. n - 1) \cup {None}]
  OBVIOUS
<1>3. available \in Seq(Positions)
  <2>1. MaxThreads - n \in Nat
    BY <1>2
  <2>2. \A i \in 1 .. MaxThreads - n : n + i - 1 \in Positions
    BY <1>2 DEF Positions
  <2>3. ASSUME NEW m \in Nat, \A i \in 1 .. m : n + i - 1 \in Positions
        PROVE  [i \in 1 .. m |-> n + i - 1] \in Seq(Positions)
    BY <2>3
  <2> QED
    BY <1>1, <2>1, <2>2, <2>3
<1>4. thread2index \in [Threads -> Positions \cup {None}]
  BY <1>2 DEF Positions
<1>5. FreePage \in Pages /\ 0 \in Frames
  BY DEF FreePage, Pages, Frames
<1>6. pool \in [Positions -> [Frames -> Pages]] /\ clock \in [Positions -> Frames]
  BY <1>5
<1>7. map \in [Positions -> [PageIds -> Frames \cup {None}]]
  BY DEF EmptyMap
<1>8. Types
  BY <1>3, <1>4, <1>6, <1>7 DEF Types
<1>9. Opening
  BY DEF Opening
<1>10. Orphans
  BY DEF Orphans, FreePage
<1>11. MapLeads
  BY DEF MapLeads, EmptyMap
<1>12. Scans /\ Holds
  BY DEF Scans, Holds
<1>13. PastEnd
  BY DEF PastEnd
<1> QED
  BY <1>8, <1>9, <1>10, <1>11, <1>12, <1>13 DEF TmpInv

\* A step of t that leaves files, pools, calls and references alone, and goes to
\* a place outside a scan.
LEMMA AsideCalls ==
  ASSUME Types, Scans, Holds, NEW t \in Threads, pc[t] # "scan", NEW label, label # "scan",
         Goto(t, label), UNCHANGED <<want, ref, pool, tmp>>
  PROVE  Scans' /\ Holds'
<1>1. \A u \in Threads : pc'[u] = "scan" <=> pc[u] = "scan"
  BY DEF Types, Goto
<1>2. Scans'
  BY <1>1 DEF Scans, Owns
<1>3. Holds'
  BY DEF Holds, Held, Owns
<1> QED
  BY <1>2, <1>3

\* A query starts and ends; the front is read; no position is left.
LEMMA QueryInv ==
  ASSUME TmpInv, NEW t \in Threads,
         StartQuery(t) \/ EndQuery(t) \/ TooManyThreads(t) \/ ReadFront(t)
  PROVE  TmpInv'
<1> USE NoneApart DEF TmpInv, indexVars, poolVars, fileVars
<1>0. UNCHANGED <<want, ref, available, thread2index, pool, map, clock, tmp, disk, size>>
  BY DEF StartQuery, EndQuery, TooManyThreads, ReadFront
<1>1. Types'
  <2> USE DEF Types, Goto
  <2>1. CASE StartQuery(t)
    BY <1>0, <2>1 DEF StartQuery
  <2>2. CASE EndQuery(t)
    BY <1>0, <2>2 DEF EndQuery
  <2>3. CASE TooManyThreads(t)
    <3>1. fd_of[t] \in Fds
      BY <2>3 DEF Opening, TooManyThreads
    <3> QED
      BY <1>0, <2>3, <3>1 DEF TooManyThreads
  <2>4. CASE ReadFront(t)
    BY <1>0, <2>4 DEF ReadFront
  <2> QED
    BY <2>1, <2>2, <2>3, <2>4
<1>2. Opening'
  BY <1>0 DEF Opening, Types, StartQuery, EndQuery, TooManyThreads, ReadFront, Goto
<1>3. Orphans' /\ MapLeads' /\ PastEnd'
  BY <1>0 DEF Orphans, MapLeads, PastEnd
<1>4. Scans' /\ Holds'
  BY <1>0, AsideCalls DEF StartQuery, EndQuery, TooManyThreads, ReadFront
<1> QED
  BY <1>1, <1>2, <1>3, <1>4

\* tmpfile() gives a descriptor that no frame has pages of.
LEMMA OpenInv ==
  ASSUME TmpInv, NEW t \in Threads, NEW fd \in Fds, OpenTmp(t, fd)
  PROVE  TmpInv'
<1> USE NoneApart DEF TmpInv, OpenTmp, indexVars, poolVars
<1>1. Types'
  BY TmpAssumption DEF Types, Goto, TmpAssumption
<1>2. Opening'
  BY DEF Opening, Types, Goto
<1>3. Orphans' /\ MapLeads'
  BY DEF Orphans, MapLeads
<1>4. Scans' /\ Holds'
  BY AsideCalls
<1>5. PastEnd'
  BY PageIdParts DEF PastEnd, Types
<1> QED
  BY <1>1, <1>2, <1>3, <1>4, <1>5

\* A file gets its position; no frame has a page of it, as it was closed so far.
LEMMA GiveInv ==
  ASSUME TmpInv, NEW t \in Threads, NEW pos \in Positions, pc[t] \in {"find", "pop"},
         GiveFile(t, pos), UNCHANGED <<want, ref, pool, disk, size>>
  PROVE  /\ tmp' \in [Fds -> TmpFile \cup {None}] /\ fd_of' \in [Threads -> Fds \cup {None}]
         /\ pc' \in [Threads -> {"off", "run", "find", "pop", "scan", "unwind"}]
         /\ front' = front \/ front' = [front EXCEPT ![t] = None] => Opening'
         /\ Orphans' /\ Scans' /\ Holds' /\ PastEnd'
<1> USE NoneApart DEF TmpInv, GiveFile
<1>0. fd_of[t] \in Fds /\ tmp[fd_of[t]] = None
  BY DEF Opening, Types
<1> DEFINE f == [pos |-> pos, thread |-> t]
<1>1. f \in TmpFile /\ f # None
  BY DEF TmpFile
<1>2. /\ tmp' = [tmp EXCEPT ![fd_of[t]] = f] /\ tmp' \in [Fds -> TmpFile \cup {None}]
      /\ \A fd \in Fds : tmp[fd] # None => tmp'[fd] = tmp[fd]
  BY <1>0, <1>1 DEF Types
<1>3. /\ fd_of' \in [Threads -> Fds \cup {None}]
      /\ pc' \in [Threads -> {"off", "run", "find", "pop", "scan", "unwind"}]
  BY DEF Types, Goto
<1>4. front' = front \/ front' = [front EXCEPT ![t] = None] => Opening'
  BY <1>0, <1>2 DEF Opening, Types, Goto
<1>5. Orphans'
  <2> SUFFICES ASSUME NEW q \in Positions, NEW i \in Frames, pool[q][i].page # None
               PROVE  tmp'[pool[q][i].page[1]] # None /\ tmp'[pool[q][i].page[1]].pos = q
    BY DEF Orphans
  <2>1. pool[q][i].page \in PageIds
    BY DEF Types, Pages
  <2> QED
    BY <1>2, <2>1, PageIdParts DEF Orphans
<1>6. Scans' /\ Holds'
  <2>1. \A u \in Threads : pc'[u] = "scan" <=> pc[u] = "scan"
    BY DEF Types, Goto
  <2>2. \A u \in Threads, fd \in Fds : Owns(u, fd) => Owns(u, fd)'
    BY <1>2 DEF Owns
  <2>3. \A u \in Threads :
          /\ want[u] # None => want[u][1] \in Fds
          /\ ref[u] # None /\ Held(u).page # None => Held(u).page[1] \in Fds
    BY PageIdParts DEF Types, PageRefs, Pages, Held
  <2>4. \A u \in Threads : Held(u)' = Held(u)
    BY DEF Held
  <2>5. Scans'
    BY <2>1, <2>2, <2>3 DEF Scans
  <2>6. Holds'
    BY <2>2, <2>3, <2>4 DEF Holds
  <2> QED
    BY <2>5, <2>6
<1>7. PastEnd'
  BY DEF PastEnd
<1> HIDE DEF f
<1> QED
  BY <1>2, <1>3, <1>4, <1>5, <1>6, <1>7

\* A thread that has a position, or takes the front, gives it to its file.
LEMMA PositionInv ==
  ASSUME TmpInv, NEW t \in Threads, OldThread(t) \/ PopFront(t)
  PROVE  TmpInv'
<1> USE NoneApart DEF TmpInv
<1>1. CASE OldThread(t)
  <2>1. /\ thread2index[t] \in Positions /\ pc[t] = "find" /\ GiveFile(t, thread2index[t])
        /\ UNCHANGED <<front, want, ref, available, thread2index, pool, map, clock, leaked, disk,
                       size>>
    BY <1>1 DEF OldThread, Types, indexVars, poolVars
  <2>2. MapLeads'
    BY <2>1 DEF MapLeads
  <2>3. Types'
    BY <2>1, GiveInv DEF Types
  <2> QED
    BY <2>1, <2>2, <2>3, GiveInv
<1>2. CASE PopFront(t)
  <2>1. /\ front[t] \in Positions /\ pc[t] = "pop" /\ GiveFile(t, front[t])
        /\ front' = [front EXCEPT ![t] = None]
        /\ thread2index' = [thread2index EXCEPT ![t] = front[t]]
        /\ map' = [map EXCEPT ![front[t]] = EmptyMap]
        /\ clock' = [clock EXCEPT ![front[t]] = 0]
        /\ UNCHANGED <<want, ref, pool, leaked, disk, size>>
    BY <1>2 DEF PopFront, Opening
  <2>2. available' \in Seq(Positions)
    BY <1>2 DEF PopFront, Types
  <2>3. 0 \in Frames /\ EmptyMap \in [PageIds -> Frames \cup {None}]
    BY TmpAssumption DEF Frames, TmpAssumption, EmptyMap
  <2>4. Types'
    BY <2>1, <2>2, <2>3, GiveInv DEF Types
  <2>5. MapLeads'
    BY <2>1 DEF MapLeads, Types, EmptyMap
  <2> QED
    BY <2>1, <2>4, <2>5, GiveInv
<1> QED
  BY <1>1, <1>2

\* Only one frame changes, and not its page: the fields of the frame [q, j] become
\* those of new.
OneFrame(q, j, new) ==
  /\ q \in Positions /\ j \in Frames /\ new \in Pages
  /\ pool' = [pool EXCEPT ![q][j] = new]

\* What one frame's change does to the pools.
LEMMA OneFramePool ==
  ASSUME Types, NEW q, NEW j, NEW new, OneFrame(q, j, new)
  PROVE  /\ pool' \in [Positions -> [Frames -> Pages]]
         /\ \A pos \in Positions, i \in Frames :
              pool'[pos][i] = IF pos = q /\ i = j THEN new ELSE pool[pos][i]
BY DEF Types, OneFrame

\* A frame that keeps its page leaves no orphan and the map right.
LEMMA SamePage ==
  ASSUME TmpInv, NEW q, NEW j, NEW new, OneFrame(q, j, new),
         new.page = pool[q][j].page, new.dirty => new.page # None,
         UNCHANGED <<tmp, map>>
  PROVE  Orphans' /\ MapLeads'
<1> USE DEF TmpInv
<1>1. /\ pool' \in [Positions -> [Frames -> Pages]]
      /\ \A pos \in Positions, i \in Frames :
           pool'[pos][i] = IF pos = q /\ i = j THEN new ELSE pool[pos][i]
  BY OneFramePool
<1>2. Orphans'
  BY <1>1 DEF Orphans
<1>3. MapLeads'
  <2>1. \A pos \in Positions, p \in PageIds : map[pos][p] # None => map[pos][p] \in Frames
    BY DEF Types
  <2> QED
    BY <1>1, <2>1 DEF MapLeads
<1> QED
  BY <1>2, <1>3

\* The frames that threads refer to, and whose they are.
LEMMA HeldFrames ==
  ASSUME TmpInv, NEW u \in Threads, ref[u] # None
  PROVE  /\ ref[u].pos \in Positions /\ ref[u].frame \in Frames
         /\ ref[u] = [pos |-> ref[u].pos, frame |-> ref[u].frame]
         /\ Held(u) \in Pages /\ Held(u).page \in PageIds /\ Held(u).page[1] \in Fds
         /\ Held(u).pins \in Nat /\ Held(u).pins > 0 /\ Owns(u, Held(u).page[1])
<1>1. ref[u] \in PageRefs
  BY DEF TmpInv, Types
<1>2. ref[u].pos \in Positions /\ ref[u].frame \in Frames
  BY <1>1 DEF PageRefs
<1>3. ref[u] = [pos |-> ref[u].pos, frame |-> ref[u].frame]
  BY <1>1 DEF PageRefs
<1>4. Held(u) \in Pages
  BY <1>2 DEF Held, TmpInv, Types
<1>5. Held(u).page # None /\ Held(u).pins > 0 /\ Owns(u, Held(u).page[1])
  BY DEF TmpInv, Holds
<1>6. Held(u).page \in PageIds /\ Held(u).pins \in Nat
  BY <1>4, <1>5 DEF Pages
<1> QED
  BY <1>2, <1>3, <1>4, <1>5, <1>6, PageIdParts

\* Two threads never refer to one frame, since its page is of one file.
LEMMA HeldApart ==
  ASSUME TmpInv, NEW t \in Threads, NEW u \in Threads, ref[t] # None, ref[t] = ref[u]
  PROVE  t = u
<1>1. Held(t) = Held(u)
  BY DEF Held
<1>2. Owns(t, Held(t).page[1]) /\ Owns(u, Held(t).page[1])
  BY <1>1, HeldFrames
<1> QED
  BY <1>2 DEF Owns

\* A change of one frame that is not held, or keeps its page and a pin, and a new
\* reference of t to such a frame, if any.
LEMMA HoldsStep ==
  ASSUME TmpInv, NEW q, NEW j, NEW new, OneFrame(q, j, new), UNCHANGED tmp,
         NEW t \in Threads, ref' \in [Threads -> PageRefs \cup {None}],
         \A u \in Threads \ {t} : ref'[u] = ref[u],
         \A u \in Threads \ {t} : ref[u] # [pos |-> q, frame |-> j],
         ref'[t] \in {None, [pos |-> q, frame |-> j]},
         ref'[t] # None => new.page # None /\ new.pins > 0 /\ Owns(t, new.page[1])
  PROVE  Holds'
<1>0. /\ q \in Positions /\ j \in Frames
      /\ \A pos \in Positions, i \in Frames :
           pool'[pos][i] = IF pos = q /\ i = j THEN new ELSE pool[pos][i]
  BY OneFramePool DEF TmpInv, OneFrame
<1> SUFFICES ASSUME NEW u \in Threads, ref'[u] # None
             PROVE  (Held(u).page # None /\ Held(u).pins > 0 /\ Owns(u, Held(u).page[1]))'
  BY DEF Holds
<1>2. CASE u = t
  <2>1. ref'[u] = [pos |-> q, frame |-> j]
    BY <1>2
  <2>2. Held(u)' = pool'[q][j]
    BY <2>1 DEF Held
  <2> QED
    BY <1>0, <1>2, <2>2 DEF Owns
<1>3. CASE u # t
  <2>1. ref'[u] = ref[u] /\ ref[u] # None /\ ref[u] # [pos |-> q, frame |-> j]
    BY <1>3
  <2>2. ref[u].pos # q \/ ref[u].frame # j
    BY <2>1, HeldFrames
  <2>3. ref[u].pos \in Positions /\ ref[u].frame \in Frames
    BY <2>1, HeldFrames
  <2>4. Held(u)' = Held(u)
    BY <1>0, <2>1, <2>2, <2>3 DEF Held
  <2>5. Held(u).page # None /\ Held(u).pins > 0 /\ Owns(u, Held(u).page[1])
    BY <2>1 DEF TmpInv, Holds
  <2> QED
    BY <2>4, <2>5 DEF Owns
<1> QED
  BY <1>2, <1>3

\* Frames that are not held may change.
LEMMA UnheldHolds ==
  ASSUME TmpInv, UNCHANGED <<ref, tmp>>,
         \A u \in Threads : ref[u] # None => Held(u)' = Held(u)
  PROVE  Holds'
BY DEF TmpInv, Holds, Owns

\* A hit pins the frame, a miss starts a scan.
LEMMA GetInv ==
  ASSUME TmpInv, NEW t \in Threads, NEW p \in PageIds, GetTmpPage(t, p)
  PROVE  TmpInv'
<1> USE NoneApart DEF TmpInv
<1> DEFINE q == tmp[p[1]].pos
           j == map[q][p]
<1>0. /\ pc[t] = "run" /\ ref[t] = None /\ Owns(t, p[1]) /\ want[t] = None
      /\ UNCHANGED <<fd_of, front, available, thread2index, map, clock, tmp, leaked, disk, size>>
  BY DEF GetTmpPage, Scans, indexVars, fileVars
<1>1. p[1] \in Fds /\ tmp[p[1]] \in TmpFile
  BY <1>0, PageIdParts DEF Owns, Types
<1>2. q \in Positions /\ j \in Frames \cup {None}
  BY <1>1 DEF Types, TmpFile
<1>3. CASE j # None
  <2> DEFINE n == pool[q][j].pins + 1
             new == [pool[q][j] EXCEPT !.pins = n]
             r == [pos |-> q, frame |-> j]
  <2>1. j \in Frames /\ pool[q][j] \in Pages /\ pool[q][j].page = p
    BY <1>2, <1>3 DEF Types, MapLeads
  <2>2. new \in Pages /\ new.page = p /\ new.pins > 0
    <3>0. pool[q][j].pins \in Nat
      BY <2>1, PageFields
    <3>1. n \in Nat /\ n > 0
      <4> HIDE DEF q, j
      <4> QED
        BY <3>0
    <3> HIDE DEF n
    <3> QED
      BY <2>1, <3>1, PinsUpdate
  <2>3. OneFrame(q, j, new) /\ ref' = [ref EXCEPT ![t] = r] /\ UNCHANGED <<pc, want>>
    <3>1. pool' = [pool EXCEPT ![q][j].pins = @ + 1]
      BY <1>3 DEF GetTmpPage
    <3>2. pool' = [pool EXCEPT ![q][j] = new]
      BY <1>2, <2>1, <3>1 DEF Types
    <3>3. ref' = [ref EXCEPT ![t] = r] /\ UNCHANGED <<pc, want>>
      BY <1>3 DEF GetTmpPage
    <3> QED
      BY <1>2, <2>1, <2>2, <3>2, <3>3 DEF OneFrame
  <2>4. r \in PageRefs
    BY <1>2, <2>1 DEF PageRefs
  <2>5. \A u \in Threads \ {t} : ref[u] # r
    <3> SUFFICES ASSUME NEW u \in Threads \ {t}, ref[u] = r PROVE FALSE
      OBVIOUS
    <3>1. Held(u) = pool[q][j] /\ ref[u] # None
      BY <2>4 DEF Held
    <3>2. Owns(u, p[1])
      BY <2>1, <3>1, HeldFrames
    <3> QED
      BY <1>0, <3>2 DEF Owns
  <2> HIDE DEF new, r
  <2>6. pool' \in [Positions -> [Frames -> Pages]]
    BY <2>3, OneFramePool
  <2>7. ref' \in [Threads -> PageRefs \cup {None}] /\ ref'[t] = r
        /\ \A u \in Threads \ {t} : ref'[u] = ref[u]
    BY <2>3, <2>4 DEF Types
  <2>8. Types'
    BY <1>0, <2>3, <2>6, <2>7 DEF Types
  <2>9. Opening' /\ PastEnd' /\ Scans'
    BY <1>0, <2>3 DEF Opening, PastEnd, Scans, Owns
  <2>10. Orphans' /\ MapLeads'
    BY <1>0, <2>1, <2>2, <2>3, SamePage
  <2>11. Holds'
    <3>1. r = [pos |-> q, frame |-> j]
      BY DEF r
    <3>2. ref'[t] # None => new.page # None /\ new.pins > 0 /\ Owns(t, new.page[1])
      BY <1>0, <2>2
    <3> HIDE DEF q, j, TmpInv
    <3> QED
      BY <1>0, <2>3, <2>5, <2>7, <3>1, <3>2, HoldsStep
  <2> QED
    BY <2>8, <2>9, <2>10, <2>11
<1>4. CASE j = None
  <2>1. want' = [want EXCEPT ![t] = p] /\ pc' = [pc EXCEPT ![t] = "scan"] /\ UNCHANGED <<pool, ref>>
    BY <1>4 DEF GetTmpPage, Goto
  <2>2. Types'
    BY <1>0, <2>1 DEF Types
  <2>3. Opening' /\ PastEnd'
    BY <1>0, <2>1 DEF Opening, PastEnd, Types
  <2>4. Orphans' /\ MapLeads'
    BY <1>0, <2>1 DEF Orphans, MapLeads
  <2>5. Scans'
    BY <1>0, <2>1 DEF Scans, Types, Owns
  <2>6. Holds'
    BY <1>0, <2>1 DEF Holds, Held, Owns
  <2> QED
    BY <2>2, <2>3, <2>4, <2>5, <2>6
<1> QED
  BY <1>3, <1>4

\* The frame under the hand of a thread that scans.
LEMMA HandFrame ==
  ASSUME TmpInv, NEW t \in Threads, pc[t] = "scan"
  PROVE  /\ want[t] \in PageIds /\ want[t][1] \in Fds /\ want[t][2] \in 0 .. MaxPages - 1
         /\ Owns(t, want[t][1])
         /\ tmp[want[t][1]] \in TmpFile /\ tmp[want[t][1]].pos \in Positions
         /\ clock[tmp[want[t][1]].pos] \in Frames
         /\ Hand(t) \in Pages /\ Hand(t) = pool[tmp[want[t][1]].pos][clock[tmp[want[t][1]].pos]]
<1> USE NoneApart DEF TmpInv
<1>1. want[t] \in PageIds /\ Owns(t, want[t][1])
  BY DEF Scans, Types
<1>2. want[t][1] \in Fds /\ want[t][2] \in 0 .. MaxPages - 1
  BY <1>1, PageIdParts
<1>3. tmp[want[t][1]] \in TmpFile
  BY <1>1, <1>2 DEF Owns, Types
<1>4. tmp[want[t][1]].pos \in Positions
  BY <1>3 DEF TmpFile
<1>5. clock[tmp[want[t][1]].pos] \in Frames
  BY <1>4 DEF Types
<1> QED
  BY <1>1, <1>2, <1>3, <1>4, <1>5 DEF Types, Hand

\* An unpinned frame is held by nobody.
LEMMA UnpinnedUnheld ==
  ASSUME TmpInv, NEW q \in Positions, NEW j \in Frames, pool[q][j].pins = 0,
         NEW u \in Threads
  PROVE  ref[u] # [pos |-> q, frame |-> j]
<1> SUFFICES ASSUME ref[u] = [pos |-> q, frame |-> j] PROVE FALSE
  OBVIOUS
<1>1. ref[u] # None
  BY NoneApart DEF PageRefs
<1>2. Held(u) = pool[q][j]
  BY DEF Held
<1>3. Held(u).pins > 0
  BY <1>1, HeldFrames
<1> QED
  BY <1>2, <1>3

\* A turn of the clock ages an unpinned frame or passes by.
LEMMA ClockInv ==
  ASSUME TmpInv, NEW t \in Threads, ClockStep(t)
  PROVE  TmpInv'
<1> DEFINE q == tmp[want[t][1]].pos
           j == clock[q]
           new == [pool[q][j] EXCEPT !.usage = 0]
<1>0. /\ pc[t] = "scan" /\ (Hand(t).pins # 0 \/ Hand(t).usage # 0)
      /\ UNCHANGED <<pc, fd_of, front, want, ref, available, thread2index, map, tmp, leaked,
                     disk, size>>
  BY DEF ClockStep, threadVars, indexVars, fileVars
<1>1. q \in Positions /\ j \in Frames /\ Hand(t) \in Pages /\ Hand(t) = pool[q][j]
  BY <1>0, HandFrame
<1>2. clock' \in [Positions -> Frames]
  <2>1. NextPos(j) \in Frames
    BY <1>1, TmpAssumption DEF NextPos, Frames, TmpAssumption
  <2> QED
    BY <1>1, <2>1 DEF ClockStep, TmpInv, Types
<1>3. CASE Hand(t).pins # 0
  <2>1. UNCHANGED pool
    BY <1>3 DEF ClockStep
  <2>2. Types' /\ Opening' /\ Orphans' /\ MapLeads' /\ PastEnd'
    BY <1>0, <1>2, <2>1 DEF TmpInv, Types, Opening, Orphans, MapLeads, PastEnd
  <2>3. Scans' /\ Holds'
    BY <1>0, <2>1 DEF TmpInv, Scans, Holds, Held, Owns
  <2> QED
    BY <2>2, <2>3 DEF TmpInv
<1>4. CASE Hand(t).pins = 0
  <2>1. new \in Pages /\ new.page = pool[q][j].page /\ (new.dirty <=> pool[q][j].dirty)
    BY <1>1, UsageUpdate
  <2>2. OneFrame(q, j, new)
    <3>1. pool' = [pool EXCEPT ![q][j].usage = @ - 1]
      BY <1>4 DEF ClockStep
    <3>2. pool[q][j].usage - 1 = 0
      <4>1. Hand(t).usage \in {0, 1} /\ Hand(t).usage # 0
        BY <1>0, <1>1, <1>4, PageFields
      <4>2. pool[q][j].usage = 1
        BY <1>1, <4>1
      <4> HIDE DEF q, j
      <4> QED
        BY <4>2
    <3>3. pool' = [pool EXCEPT ![q][j] = new]
      BY <1>1, <3>1, <3>2 DEF TmpInv, Types
    <3> QED
      BY <1>1, <2>1, <3>3 DEF OneFrame
  <2>3. new.dirty => new.page # None
    <3>1. pool[q][j].page = None => ~pool[q][j].dirty
      BY <1>1 DEF TmpInv, Orphans
    <3> HIDE DEF q, j, new
    <3> QED
      BY <2>1, <3>1
  <2>4. \A u \in Threads : ref[u] # [pos |-> q, frame |-> j]
    BY <1>1, <1>4, UnpinnedUnheld
  <2> HIDE DEF q, j, new
  <2>6. Types' /\ Opening' /\ PastEnd' /\ Scans'
    BY <1>0, <1>2, <2>2, OneFramePool DEF TmpInv, Types, Opening, PastEnd, Scans, Owns
  <2>7. Orphans' /\ MapLeads'
    BY <1>0, <1>1, <2>1, <2>2, <2>3, SamePage
  <2>8. Holds'
    <3>1. \A u \in Threads : ref[u] # None => Held(u)' = Held(u)
      <4> SUFFICES ASSUME NEW u \in Threads, ref[u] # None PROVE Held(u)' = Held(u)
        OBVIOUS
      <4>1. \A pos \in Positions, i \in Frames :
              pool'[pos][i] = IF pos = q /\ i = j THEN new ELSE pool[pos][i]
        BY <2>2, OneFramePool DEF TmpInv
      <4>2. ref[u].pos \in Positions /\ ref[u].frame \in Frames
        BY HeldFrames
      <4>3. ref[u].pos # q \/ ref[u].frame # j
        BY <2>4, HeldFrames
      <4> QED
        BY <1>0, <4>1, <4>2, <4>3 DEF Held
    <3> QED
      BY <1>0, <3>1, UnheldHolds
  <2> QED
    BY <2>6, <2>7, <2>8 DEF TmpInv
<1> QED
  BY <1>3, <1>4

\* A write to the page that the thread holds.
LEMMA WriteInv ==
  ASSUME TmpInv, NEW t \in Threads, NEW v \in Values, WritePage(t, v)
  PROVE  TmpInv'
<1> DEFINE q == ref[t].pos
           j == ref[t].frame
           new == [pool[q][j] EXCEPT !.bytes = v, !.dirty = TRUE]
<1>0. /\ ref[t] # None
      /\ UNCHANGED <<pc, fd_of, front, want, ref, available, thread2index, map, clock, tmp,
                     leaked, disk, size>>
  BY DEF WritePage, threadVars, indexVars, fileVars
<1>1. /\ q \in Positions /\ j \in Frames /\ Held(t) \in Pages /\ Held(t) = pool[q][j]
      /\ Held(t).page # None /\ Held(t).pins > 0 /\ Owns(t, Held(t).page[1])
      /\ ref[t] = [pos |-> q, frame |-> j]
  BY <1>0, HeldFrames, NoneApart DEF Held
<1>2. new \in Pages /\ new.page = pool[q][j].page /\ new.pins = pool[q][j].pins
  BY <1>1, BytesUpdate
<1>3. OneFrame(q, j, new)
  <2>1. pool' = [pool EXCEPT ![q][j] = new]
    BY <1>1 DEF WritePage, TmpInv, Types
  <2> QED
    BY <1>1, <1>2, <2>1 DEF OneFrame
<1>4. \A u \in Threads \ {t} : ref[u] # [pos |-> q, frame |-> j]
  BY <1>0, <1>1, HeldApart
<1>5. new.page # None /\ new.pins > 0 /\ Owns(t, new.page[1])
  BY <1>1, <1>2
<1> HIDE DEF q, j, new
<1>6. Types' /\ Opening' /\ PastEnd' /\ Scans'
  BY <1>0, <1>3, OneFramePool DEF TmpInv, Types, Opening, PastEnd, Scans, Owns
<1>7. Orphans' /\ MapLeads'
  BY <1>0, <1>2, <1>3, <1>5, SamePage
<1>8. Holds'
  <2>1. ref' \in [Threads -> PageRefs \cup {None}]
    BY <1>0 DEF TmpInv, Types
  <2> QED
    BY <1>0, <1>1, <1>3, <1>4, <1>5, <2>1, HoldsStep
<1> QED
  BY <1>6, <1>7, <1>8 DEF TmpInv

\* The thread lets its page go.
LEMMA UnpinInv ==
  ASSUME TmpInv, NEW t \in Threads, Unpin(t)
  PROVE  TmpInv'
<1> DEFINE q == ref[t].pos
           j == ref[t].frame
           n == pool[q][j].pins - 1
           new == [pool[q][j] EXCEPT !.pins = n]
<1>0. /\ ref[t] # None /\ ref' = [ref EXCEPT ![t] = None]
      /\ UNCHANGED <<pc, fd_of, front, want, available, thread2index, map, clock, tmp, leaked,
                     disk, size>>
  BY DEF Unpin, indexVars, fileVars
<1>1. /\ q \in Positions /\ j \in Frames /\ Held(t) \in Pages /\ Held(t) = pool[q][j]
      /\ Held(t).page # None /\ Held(t).pins > 0 /\ Held(t).pins \in Nat
      /\ ref[t] = [pos |-> q, frame |-> j]
  BY <1>0, HeldFrames, NoneApart DEF Held
<1>2. n \in Nat
  <2>1. pool[q][j].pins \in Nat /\ pool[q][j].pins > 0
    BY <1>1
  <2> HIDE DEF q, j
  <2> QED
    BY <2>1
<1>3. new \in Pages /\ new.page = pool[q][j].page
  <2> HIDE DEF n
  <2> QED
    BY <1>1, <1>2, PinsUpdate
<1>4. OneFrame(q, j, new)
  <2>1. pool' = [pool EXCEPT ![q][j] = new]
    BY <1>1 DEF Unpin, TmpInv, Types
  <2> QED
    BY <1>1, <1>3, <2>1 DEF OneFrame
<1>5. \A u \in Threads \ {t} : ref[u] # [pos |-> q, frame |-> j]
  BY <1>0, <1>1, HeldApart
<1>6. new.page # None
  BY <1>1, <1>3
<1> HIDE DEF q, j, n, new
<1>7. /\ ref' \in [Threads -> PageRefs \cup {None}] /\ ref'[t] = None
      /\ \A u \in Threads \ {t} : ref'[u] = ref[u]
  BY <1>0 DEF TmpInv, Types
<1>8. Types' /\ Opening' /\ PastEnd' /\ Scans'
  BY <1>0, <1>4, <1>7, OneFramePool DEF TmpInv, Types, Opening, PastEnd, Scans, Owns
<1>9. Orphans' /\ MapLeads'
  BY <1>0, <1>3, <1>4, <1>6, SamePage
<1>10. Holds'
  BY <1>0, <1>4, <1>5, <1>7, HoldsStep
<1> QED
  BY <1>8, <1>9, <1>10 DEF TmpInv

\* The pages of the file leave the pool, which is the only one with pages of it.
LEMMA RemoveInv ==
  ASSUME TmpInv, NEW t \in Threads, NEW fd \in Fds, RemoveTmp(t, fd)
  PROVE  TmpInv'
<1> DEFINE q == tmp[fd].pos
           Gone(i) == pool[q][i].page # None /\ pool[q][i].page[1] = fd
<1>0. /\ pc[t] \in {"run", "unwind"} /\ ref[t] = None /\ Owns(t, fd)
      /\ tmp' = [tmp EXCEPT ![fd] = None]
      /\ pool' = [pool EXCEPT ![q] = Purged(q, fd)]
      /\ map' = [map EXCEPT ![q] = Unmapped(q, fd)]
      /\ UNCHANGED <<pc, fd_of, front, want, ref, available, thread2index, clock, leaked, disk,
                     size>>
  BY DEF RemoveTmp, threadVars, indexVars
<1>1. tmp[fd] \in TmpFile /\ q \in Positions
  BY <1>0 DEF Owns, TmpInv, Types, TmpFile
<1>2. /\ tmp'[fd] = None /\ tmp' \in [Fds -> TmpFile \cup {None}]
      /\ \A f \in Fds \ {fd} : tmp'[f] = tmp[f]
  BY <1>0 DEF TmpInv, Types
<1>3. FreePage \in Pages /\ FreePage.page = None /\ ~FreePage.dirty
  BY TmpAssumption DEF FreePage, Pages, TmpAssumption
<1>4. /\ pool' \in [Positions -> [Frames -> Pages]]
      /\ \A pos \in Positions \ {q} : pool'[pos] = pool[pos]
      /\ \A i \in Frames : pool'[q][i] = IF Gone(i) THEN FreePage ELSE pool[q][i]
  <2>1. Purged(q, fd) = [i \in Frames |-> IF Gone(i) THEN FreePage ELSE pool[q][i]]
    BY DEF Purged
  <2>2. Purged(q, fd) \in [Frames -> Pages]
    BY <1>1, <1>3, <2>1 DEF TmpInv, Types
  <2> HIDE DEF Gone, q
  <2> QED
    BY <1>0, <1>1, <2>1, <2>2 DEF TmpInv, Types
<1>5. /\ map' \in [Positions -> [PageIds -> Frames \cup {None}]]
      /\ \A pos \in Positions \ {q} : map'[pos] = map[pos]
      /\ \A p \in PageIds : map'[q][p] =
           IF \E i \in Frames : pool[q][i].page = p /\ p[1] = fd THEN None ELSE map[q][p]
  <2>1. Unmapped(q, fd) = [p \in PageIds |->
           IF \E i \in Frames : pool[q][i].page = p /\ p[1] = fd THEN None ELSE map[q][p]]
    BY DEF Unmapped
  <2>2. Unmapped(q, fd) \in [PageIds -> Frames \cup {None}]
    BY <1>1, <2>1 DEF TmpInv, Types
  <2> HIDE DEF q
  <2> QED
    BY <1>0, <1>1, <2>1, <2>2 DEF TmpInv, Types
<1>6. \A pos \in Positions, i \in Frames :
        /\ pool[pos][i] \in Pages
        /\ pool[pos][i].page # None =>
             /\ pool[pos][i].page \in PageIds /\ pool[pos][i].page[1] \in Fds
             /\ pool[pos][i].page[1] = fd => pos = q
  BY PageFields, PageIdParts DEF TmpInv, Orphans, Types
<1> HIDE DEF q
<1>7. Types'
  BY <1>0, <1>2, <1>4, <1>5 DEF TmpInv, Types
<1>8. Opening' /\ PastEnd'
  BY <1>0, <1>2 DEF TmpInv, Opening, PastEnd, Types
<1>9. Orphans'
  BY <1>1, <1>2, <1>3, <1>4, <1>6 DEF TmpInv, Orphans
<1>10. MapLeads'
  <2> SUFFICES ASSUME NEW pos \in Positions, NEW p \in PageIds, map'[pos][p] # None
               PROVE  pool'[pos][map'[pos][p]].page = p
    BY DEF MapLeads
  <2>0. map'[pos][p] = map[pos][p]
    BY <1>5
  <2>1. map'[pos][p] = map[pos][p] /\ map[pos][p] \in Frames /\ pool[pos][map[pos][p]].page = p
    BY <2>0 DEF TmpInv, MapLeads, Types
  <2>2. CASE pos # q
    BY <1>4, <2>1, <2>2
  <2>3. CASE pos = q
    <3>1. p[1] # fd
      BY <1>5, <2>1, <2>3
    <3>2. ~Gone(map[pos][p])
      BY <2>1, <2>3, <3>1
    <3> QED
      BY <1>4, <2>1, <2>3, <3>2
  <2> QED
    BY <2>2, <2>3
<1>11. \A u \in Threads, f \in Fds : Owns(u, f) /\ u # t => f # fd /\ tmp'[f] = tmp[f]
  BY <1>0, <1>2 DEF Owns
<1>12. Scans'
  <2> SUFFICES ASSUME NEW u \in Threads, want[u] # None
               PROVE  tmp'[want[u][1]] # None /\ tmp'[want[u][1]].thread = u
    BY <1>0 DEF TmpInv, Scans, Owns
  <2>1. pc[u] = "scan" /\ Owns(u, want[u][1]) /\ want[u][1] \in Fds
    BY PageIdParts DEF TmpInv, Scans, Types
  <2> QED
    BY <1>0, <1>11, <2>1 DEF Owns
<1>13. Holds'
  <2> SUFFICES ASSUME NEW u \in Threads, ref[u] # None
               PROVE  (Held(u).page # None /\ Held(u).pins > 0 /\ Owns(u, Held(u).page[1]))'
    BY <1>0 DEF Holds
  <2>1. u # t
    BY <1>0
  <2>2. /\ ref[u].pos \in Positions /\ ref[u].frame \in Frames /\ Held(u).page # None
        /\ Held(u).page[1] \in Fds /\ Owns(u, Held(u).page[1]) /\ Held(u).pins > 0
    BY HeldFrames, NoneApart
  <2>3. Held(u).page[1] # fd /\ tmp'[Held(u).page[1]] = tmp[Held(u).page[1]]
    BY <1>11, <2>1, <2>2
  <2>4. Held(u)' = Held(u)
    BY <1>0, <1>4, <2>2, <2>3 DEF Held
  <2> QED
    BY <2>2, <2>3, <2>4 DEF Owns
<1> QED
  BY <1>7, <1>8, <1>9, <1>10, <1>12, <1>13 DEF TmpInv

\* FileManager::flush: only the page of the frame changes in its file, which is
\* open, and no content is past its end.
LEMMA FlushFacts ==
  ASSUME TmpInv, NEW q \in Positions, NEW j \in Frames
  PROVE  LET old == pool[q][j]
             grown == FlushedSize(old)
         IN  /\ FlushedDisk(old) \in [PageIds -> Values]
             /\ \A x \in PageIds : x # old.page => FlushedDisk(old)[x] = disk[x]
             /\ old.page # None =>
                  FlushedDisk(old)[old.page] = IF old.dirty THEN old.bytes ELSE disk[old.page]
             /\ grown \in [Fds -> 0 .. MaxPages]
             /\ \A fd \in Fds : size[fd] <= grown[fd]
             /\ \A x \in PageIds : grown[x[1]] <= x[2] => FlushedDisk(old)[x] = Zero
<1> DEFINE old == pool[q][j]
           p == old.page
           grown == FlushedSize(old)
<1>1. old \in Pages /\ old.bytes \in Values /\ p \in PageIds \cup {None}
  BY PageFields DEF TmpInv, Types
<1>2. disk \in [PageIds -> Values] /\ size \in [Fds -> 0 .. MaxPages] /\ MaxPages \in Nat
  BY TmpAssumption DEF TmpInv, Types, TmpAssumption
<1>3. \A x \in PageIds : size[x[1]] <= x[2] => disk[x] = Zero
  BY DEF TmpInv, PastEnd
<1>4. CASE ~old.dirty
  <2>1. FlushedDisk(old) = disk /\ grown = size
    BY <1>4 DEF FlushedDisk, FlushedSize
  <2>2. \A fd \in Fds : size[fd] <= size[fd]
    BY <1>2
  <2> QED
    BY <1>2, <1>3, <1>4, <2>1, <2>2
<1>5. CASE old.dirty
  <2>1. p \in PageIds
    <3>1. p # None
      BY <1>5 DEF TmpInv, Orphans
    <3> QED
      BY <1>1, <3>1
  <2>2. p[1] \in Fds /\ p[2] \in 0 .. MaxPages - 1
    BY <2>1, PageIdParts
  <2>3. FlushedDisk(old) = [disk EXCEPT ![p] = old.bytes]
    BY <1>5 DEF FlushedDisk
  <2>4. grown = IF size[p[1]] <= p[2] THEN [size EXCEPT ![p[1]] = p[2] + 1] ELSE size
    BY <1>5 DEF FlushedSize
  <2>5. grown \in [Fds -> 0 .. MaxPages] /\ grown[p[1]] > p[2]
    BY <1>2, <2>2, <2>4
  <2>6. \A fd \in Fds : size[fd] <= grown[fd]
    BY <1>2, <2>2, <2>4
  <2> HIDE DEF old, grown, p
  <2>7. ASSUME NEW x \in PageIds, grown[x[1]] <= x[2]
        PROVE  FlushedDisk(old)[x] = Zero
    <3>1. x[1] \in Fds /\ x[2] \in 0 .. MaxPages - 1
      BY PageIdParts
    <3>2. x # p
      BY <1>2, <2>2, <2>5, <2>7, <3>1
    <3>3. size[x[1]] <= x[2]
      BY <1>2, <2>5, <2>6, <2>7, <3>1
    <3> QED
      BY <1>2, <1>3, <2>3, <3>2, <3>3
  <2>8. /\ FlushedDisk(old) \in [PageIds -> Values] /\ FlushedDisk(old)[p] = old.bytes
        /\ \A x \in PageIds : x # p => FlushedDisk(old)[x] = disk[x]
    BY <1>1, <1>2, <2>1, <2>3
  <2> QED
    BY <1>5, <2>5, <2>6, <2>7, <2>8 DEF old, grown, p
<1> QED
  BY <1>4, <1>5

\* What Replace does, in the terms of the lemmas above.
Replaced(t, q, j, new) ==
  /\ pc[t] = "scan" /\ pc' = [pc EXCEPT ![t] = "run"]
  /\ want' = [want EXCEPT ![t] = None]
  /\ ref' = [ref EXCEPT ![t] = [pos |-> q, frame |-> j]]
  /\ pool[q][j].pins = 0
  /\ OneFrame(q, j, new)
  /\ new.page = want[t] /\ new.pins = 1 /\ new.dirty = FALSE /\ new.bytes = disk'[want[t]]
  /\ map' = [map EXCEPT ![q] = [x \in PageIds |->
                IF x = want[t] THEN j ELSE IF x = pool[q][j].page THEN None ELSE map[q][x]]]
  /\ disk' = FlushedDisk(pool[q][j])
  /\ size' \in [Fds -> 0 .. MaxPages]
  /\ \A fd \in Fds : FlushedSize(pool[q][j])[fd] <= size'[fd]
  /\ UNCHANGED <<fd_of, front, available, thread2index, clock, tmp, leaked>>

\* The page that is read is that of the file, also when it is past its end.
LEMMA ReplaceFacts ==
  ASSUME TmpInv, NEW t \in Threads, Replace(t)
  PROVE  \E new : Replaced(t, tmp[want[t][1]].pos, clock[tmp[want[t][1]].pos], new)
<1> DEFINE p == want[t]
           q == tmp[p[1]].pos
           j == clock[q]
           old == pool[q][j]
           grown == FlushedSize(old)
           past == grown[p[1]] <= p[2]
           new == [page |-> p, bytes |-> IF past THEN Zero ELSE disk'[p], pins |-> 1,
                   usage |-> 1, dirty |-> FALSE]
<1>0. pc[t] = "scan" /\ Hand(t).pins = 0
  BY DEF Replace
<1>1. /\ p \in PageIds /\ p[1] \in Fds /\ p[2] \in 0 .. MaxPages - 1
      /\ q \in Positions /\ j \in Frames /\ Hand(t) = old /\ old \in Pages
  BY <1>0, HandFrame
<1>2. /\ disk' = FlushedDisk(old)
      /\ size' = IF past THEN [grown EXCEPT ![p[1]] = p[2]] ELSE grown
      /\ pool' = [pool EXCEPT ![q][j] = new]
      /\ map' = [map EXCEPT ![q] = [x \in PageIds |->
                   IF x = p THEN j ELSE IF x = old.page THEN None ELSE @[x]]]
      /\ ref' = [ref EXCEPT ![t] = [pos |-> q, frame |-> j]]
      /\ want' = [want EXCEPT ![t] = None] /\ pc' = [pc EXCEPT ![t] = "run"]
      /\ UNCHANGED <<fd_of, front, available, thread2index, clock, tmp, leaked>>
  BY <1>1 DEF Replace, Goto, indexVars
<1>3. /\ disk' \in [PageIds -> Values]
      /\ grown \in [Fds -> 0 .. MaxPages]
      /\ past => disk'[p] = Zero
  BY <1>1, <1>2, FlushFacts
<1>4. new.bytes = disk'[p] /\ disk'[p] \in Values
  BY <1>1, <1>3
<1>5. new \in Pages /\ new.page = p /\ new.pins = 1 /\ new.dirty = FALSE
  BY <1>1, <1>4 DEF Pages
<1>6. map' = [map EXCEPT ![q] = [x \in PageIds |->
                IF x = p THEN j ELSE IF x = old.page THEN None ELSE map[q][x]]]
  BY <1>1, <1>2 DEF TmpInv, Types
<1>7. OneFrame(q, j, new)
  BY <1>1, <1>2, <1>5 DEF OneFrame
<1>8. old.pins = 0
  BY <1>0, <1>1
<1>9. size' \in [Fds -> 0 .. MaxPages] /\ \A fd \in Fds : grown[fd] <= size'[fd]
  <2>1. MaxPages \in Nat
    BY TmpAssumption DEF TmpAssumption
  <2>2. CASE past
    <3>1. size' = [grown EXCEPT ![p[1]] = p[2]] /\ grown[p[1]] <= p[2]
      BY <1>2, <2>2
    <3>2. p[2] \in 0 .. MaxPages
      BY <1>1, <2>1
    <3> HIDE DEF grown, p
    <3> QED
      BY <1>1, <1>3, <2>1, <3>1, <3>2
  <2>3. CASE ~past
    <3>1. size' = grown
      BY <1>2, <2>3
    <3> HIDE DEF grown
    <3> QED
      BY <1>3, <2>1, <3>1
  <2> QED
    BY <2>2, <2>3
<1> HIDE DEF new
<1>10. Replaced(t, q, j, new)
  BY <1>0, <1>2, <1>4, <1>5, <1>6, <1>7, <1>8, <1>9 DEF Replaced
<1> QED
  BY <1>10

\* The frame gets another page of the same pool.
LEMMA ReplaceInv ==
  ASSUME TmpInv, NEW t \in Threads, Replace(t)
  PROVE  TmpInv'
<1> DEFINE p == want[t]
           q == tmp[p[1]].pos
           j == clock[q]
           old == pool[q][j]
<1>0. PICK new : Replaced(t, q, j, new)
  BY ReplaceFacts
<1>1. /\ p \in PageIds /\ p[1] \in Fds /\ Owns(t, p[1])
      /\ q \in Positions /\ j \in Frames /\ p # None
  <2>1. pc[t] = "scan"
    BY <1>0 DEF Replaced
  <2> QED
    BY <2>1, HandFrame, NoneApart
<1>2. /\ OneFrame(q, j, new) /\ new.page = p /\ new.pins = 1 /\ new.dirty = FALSE
      /\ disk' = FlushedDisk(old) /\ UNCHANGED <<fd_of, front, tmp>>
  BY <1>0 DEF Replaced
<1>3. /\ pool' \in [Positions -> [Frames -> Pages]]
      /\ \A pos \in Positions, i \in Frames :
           pool'[pos][i] = IF pos = q /\ i = j THEN new ELSE pool[pos][i]
  <2> HIDE DEF p, q, j
  <2> QED
    BY <1>2, OneFramePool DEF TmpInv
<1>4. /\ disk' \in [PageIds -> Values]
      /\ \A x \in PageIds : x # old.page => disk'[x] = disk[x]
      /\ \A x \in PageIds : FlushedSize(old)[x[1]] <= x[2] => disk'[x] = Zero
      /\ FlushedSize(old) \in [Fds -> 0 .. MaxPages]
  BY <1>1, <1>2, FlushFacts
<1>5. /\ map' \in [Positions -> [PageIds -> Frames \cup {None}]]
      /\ \A pos \in Positions \ {q} : map'[pos] = map[pos]
      /\ \A x \in PageIds : map'[q][x] =
           IF x = p THEN j ELSE IF x = old.page THEN None ELSE map[q][x]
  <2>1. map' = [map EXCEPT ![q] = [x \in PageIds |->
                 IF x = p THEN j ELSE IF x = old.page THEN None ELSE map[q][x]]]
    BY <1>0 DEF Replaced
  <2> HIDE DEF p, q, j, old
  <2> QED
    BY <1>1, <2>1 DEF TmpInv, Types
<1>6. old.page # None => old.page \in PageIds /\ tmp[old.page[1]] # None
  <2>1. old \in Pages
    BY <1>1 DEF TmpInv, Types
  <2>2. old.page \in PageIds \cup {None}
    BY <2>1, PageFields
  <2>3. old.page # None => tmp[old.page[1]] # None
    BY <1>1 DEF TmpInv, Orphans
  <2> QED
    BY <2>2, <2>3
<1>7. /\ ref' \in [Threads -> PageRefs \cup {None}] /\ ref'[t] = [pos |-> q, frame |-> j]
      /\ \A u \in Threads \ {t} : ref'[u] = ref[u]
  <2>1. [pos |-> q, frame |-> j] \in PageRefs
    BY <1>1 DEF PageRefs
  <2>2. ref' = [ref EXCEPT ![t] = [pos |-> q, frame |-> j]]
    BY <1>0 DEF Replaced
  <2> HIDE DEF q, j
  <2> QED
    BY <2>1, <2>2 DEF TmpInv, Types
<1>8. Types'
  <2>1. /\ pc' = [pc EXCEPT ![t] = "run"] /\ want' = [want EXCEPT ![t] = None]
        /\ size' \in [Fds -> 0 .. MaxPages]
        /\ UNCHANGED <<fd_of, front, available, thread2index, clock, tmp, leaked>>
    BY <1>0 DEF Replaced
  <2> HIDE DEF p, q, j, old
  <2> QED
    BY <1>3, <1>4, <1>5, <1>7, <2>1 DEF TmpInv, Types
<1>9. Opening'
  <2>1. \A u \in Threads : pc'[u] \in {"find", "pop"} <=> pc[u] \in {"find", "pop"}
    BY <1>0 DEF Replaced, TmpInv, Types
  <2>2. \A u \in Threads : pc'[u] = "pop" <=> pc[u] = "pop"
    BY <1>0 DEF Replaced, TmpInv, Types
  <2>3. \A u \in Threads, x \in PageIds : fd_of[u] # None /\ x[1] = fd_of[u] => disk'[x] = disk[x]
    <3> HIDE DEF old
    <3>1. \A u \in Threads : fd_of[u] # None => tmp[fd_of[u]] = None
      BY DEF TmpInv, Opening
    <3> QED
      BY <1>4, <1>6, <3>1, NoneApart
  <2> QED
    BY <1>2, <2>1, <2>2, <2>3 DEF TmpInv, Opening
<1>10. Orphans'
  <2> HIDE DEF q, j, old, p
  <2>1. tmp[p[1]] # None /\ tmp[p[1]].pos = q
    BY <1>1 DEF Owns, q
  <2> QED
    BY <1>1, <1>2, <1>3, <2>1 DEF TmpInv, Orphans
<1>11. MapLeads'
  <2> SUFFICES ASSUME NEW pos \in Positions, NEW x \in PageIds, map'[pos][x] # None
               PROVE  pool'[pos][map'[pos][x]].page = x
    BY DEF MapLeads
  <2> HIDE DEF q, j, p
  <2>1. CASE pos = q /\ x = p
    BY <1>1, <1>2, <1>3, <1>5, <2>1
  <2>2. CASE ~(pos = q /\ x = p)
    <3>1. map'[pos][x] = map[pos][x] /\ (pos = q => x # old.page)
      BY <1>5, <2>2
    <3>2. map[pos][x] \in Frames /\ pool[pos][map[pos][x]].page = x
      BY <3>1 DEF TmpInv, MapLeads, Types
    <3> QED
      BY <1>3, <3>1, <3>2
  <2> QED
    BY <2>1, <2>2
<1>12. Scans'
  <2>1. /\ pc' = [pc EXCEPT ![t] = "run"] /\ want' = [want EXCEPT ![t] = None] /\ UNCHANGED tmp
    BY <1>0 DEF Replaced
  <2> HIDE DEF p, q, j, old
  <2> QED
    BY <2>1 DEF TmpInv, Scans, Types, Owns
<1>13. Holds'
  <2>1. \A u \in Threads \ {t} : ref[u] # [pos |-> q, frame |-> j]
    BY <1>0, <1>1, UnpinnedUnheld DEF Replaced
  <2>2. new.page # None /\ new.pins > 0 /\ Owns(t, new.page[1])
    <3> HIDE DEF p
    <3> QED
      BY <1>1, <1>2
  <2> HIDE DEF p, q, j, old
  <2> QED
    BY <1>2, <1>7, <2>1, <2>2, HoldsStep
<1>14. PastEnd'
  <2>1. \A fd \in Fds : FlushedSize(old)[fd] <= size'[fd] /\ size'[fd] \in 0 .. MaxPages
    BY <1>0 DEF Replaced
  <2> SUFFICES ASSUME NEW x \in PageIds, size'[x[1]] <= x[2] PROVE disk'[x] = Zero
    BY DEF PastEnd
  <2>2. x[1] \in Fds /\ x[2] \in 0 .. MaxPages - 1 /\ MaxPages \in Nat
    BY PageIdParts, TmpAssumption DEF TmpAssumption
  <2>3. FlushedSize(old)[x[1]] <= x[2]
    <3> HIDE DEF old
    <3> QED
      BY <1>4, <2>1, <2>2
  <2> QED
    BY <1>4, <2>3
<1> QED
  BY <1>8, <1>9, <1>10, <1>11, <1>12, <1>13, <1>14 DEF TmpInv

\* Every step keeps the invariant.
LEMMA NextInv == TmpInv /\ [Next]_vars => TmpInv'
<1> SUFFICES ASSUME TmpInv, [Next]_vars PROVE TmpInv'
  OBVIOUS
<1>1. ASSUME NEW t \in Threads,
             \/ StartQuery(t) \/ EndQuery(t) \/ OldThread(t) \/ TooManyThreads(t)
             \/ ReadFront(t) \/ PopFront(t) \/ ClockStep(t) \/ Replace(t) \/ Unpin(t)
      PROVE  TmpInv'
  BY <1>1, QueryInv, PositionInv, ClockInv, ReplaceInv, UnpinInv
<1>2. ASSUME NEW t \in Threads, NEW fd \in Fds, OpenTmp(t, fd) \/ RemoveTmp(t, fd)
      PROVE  TmpInv'
  BY <1>2, OpenInv, RemoveInv
<1>3. ASSUME NEW t \in Threads, NEW p \in PageIds, GetTmpPage(t, p) PROVE TmpInv'
  BY <1>3, GetInv
<1>4. ASSUME NEW t \in Threads, NEW v \in Values, WritePage(t, v) PROVE TmpInv'
  BY <1>4, WriteInv
<1>5. CASE UNCHANGED vars
  <2> USE <1>5 DEF vars, threadVars, indexVars, poolVars, fileVars
  <2>1. Types' /\ Opening' /\ PastEnd'
    BY DEF TmpInv, Types, Opening, PastEnd
  <2>2. Orphans' /\ MapLeads'
    BY DEF TmpInv, Orphans, MapLeads
  <2>3. Scans' /\ Holds'
    BY DEF TmpInv, Scans, Holds, Held, Owns
  <2> QED
    BY <2>1, <2>2, <2>3 DEF TmpInv
<1> QED
  BY <1>1, <1>2, <1>3, <1>4, <1>5 DEF Next

\* The inductive invariant of temporary files and private pools.
THEOREM TmpInvariant == Spec => []TmpInv
  BY InitInv, NextInv, PTL DEF Spec

\* No frame keeps a page of a descriptor that is closed, however the threads
\* interleave and also when two of them share a position (remove_tmp).
THEOREM NoOrphans == Spec => []NoOrphanPages
<1>1. TmpInv => NoOrphanPages
  <2> SUFFICES ASSUME TmpInv PROVE NoOrphanPages
    OBVIOUS
  <2>1. TypeOK
    <3>1. \A pos \in Positions, i \in Frames : pool[pos][i] \in Pages
      BY DEF TmpInv, Types
    <3> QED
      BY <3>1, PageFields DEF TmpInv, Types, TypeOK
  <2> QED
    BY <2>1 DEF TmpInv, Orphans, NoOrphanPages
<1> QED
  BY <1>1, TmpInvariant, PTL

\* A step that opens a file shows zeros in each of its pages.
LEMMA OpensEmpty ==
  ASSUME TmpInv, TmpInv', [Next]_vars, NEW p \in PageIds, tmp[p[1]] = None, tmp'[p[1]] # None
  PROVE  Content(p)' = Zero
<1> DEFINE fd == p[1]
<1>0. fd \in Fds
  BY PageIdParts
<1>1. PICK t \in Threads : OldThread(t) \/ PopFront(t)
  <2>1. tmp' # tmp
    OBVIOUS
  <2>2. ASSUME NEW t \in Threads, NEW f \in Fds, RemoveTmp(t, f) PROVE FALSE
    <3>1. tmp' = [tmp EXCEPT ![f] = None]
      BY <2>2 DEF RemoveTmp
    <3> QED
      BY <1>0, <3>1 DEF TmpInv, Types
  <2> QED
    BY <2>1, <2>2 DEF Next, vars, fileVars, StartQuery, EndQuery, OpenTmp, TooManyThreads,
                      ReadFront,
       GetTmpPage, ClockStep, Replace, WritePage, Unpin
<1>2. fd_of[t] = fd /\ UNCHANGED <<pool, disk>> /\ pc[t] \in {"find", "pop"}
  <2>1. PICK pos : tmp' = [tmp EXCEPT ![fd_of[t]] = [pos |-> pos, thread |-> t]]
    BY <1>1 DEF OldThread, PopFront, GiveFile
  <2> QED
    BY <1>0, <1>1, <2>1 DEF OldThread, PopFront, poolVars, TmpInv, Types
<1>3. disk'[p] = Zero
  BY <1>0, <1>2, NoneApart DEF TmpInv, Opening
<1>4. map'[tmp'[fd].pos][p] = None
  <2> SUFFICES ASSUME map'[tmp'[fd].pos][p] # None PROVE FALSE
    OBVIOUS
  <2>1. tmp'[fd].pos \in Positions
    BY <1>0 DEF TmpInv, Types, TmpFile
  <2>2. map'[tmp'[fd].pos][p] \in Frames
    BY <2>1 DEF TmpInv, Types
  <2>3. pool'[tmp'[fd].pos][map'[tmp'[fd].pos][p]].page = p
    BY <2>1 DEF TmpInv, MapLeads
  <2> QED
    BY <1>2, <2>1, <2>2, <2>3, NoneApart DEF TmpInv, Orphans
<1> QED
  BY <1>3, <1>4 DEF Content

\* A temporary file starts as zeros, whatever an earlier file with the same
\* descriptor left behind.
THEOREM NewFileEmpty == Spec => NewFileIsEmpty
<1>1. TmpInv /\ TmpInv' /\ [Next]_vars =>
        [\A p \in PageIds : tmp[p[1]] = None /\ tmp'[p[1]] # None => Content(p)' = Zero]_vars
  BY OpensEmpty
<1> QED
  BY <1>1, TmpInvariant, PTL DEF Spec, NewFileIsEmpty

-----------------------------------------------------------------------------
(* Positions are given to one thread, when one thread at a time takes one.  *)

\* A step that gives no position keeps Given.
LEMMA GivenKept ==
  ASSUME Given, UNCHANGED <<available, thread2index, front>>,
         \A fd \in Fds : tmp'[fd] \in {None, tmp[fd]},
         \A u \in Threads : pc'[u] = "pop" => pc[u] = "pop"
  PROVE  Given'
BY DEF Given

\* A position goes from the queue to one thread only.
LEMMA GivenNext ==
  ASSUME TmpInv, Given, OneAtATime, [Next]_vars
  PROVE  Given'
<1> USE NoneApart
<1>1. ASSUME NEW t \in Threads,
             \/ StartQuery(t) \/ EndQuery(t) \/ TooManyThreads(t) \/ ClockStep(t) \/ Replace(t)
             \/ Unpin(t) \/ (\E fd \in Fds : OpenTmp(t, fd))
             \/ (\E p \in PageIds : GetTmpPage(t, p)) \/ \E v \in Values : WritePage(t, v)
      PROVE  Given'
  <2>1. UNCHANGED <<available, thread2index, front, tmp>>
    BY <1>1 DEF StartQuery, EndQuery, TooManyThreads, ClockStep, Replace, Unpin, OpenTmp,
                GetTmpPage, WritePage, indexVars, fileVars, threadVars
  <2>2. \/ pc' = pc
        \/ \E label \in {"off", "run", "find", "scan", "unwind"} : pc' = [pc EXCEPT ![t] = label]
    BY <1>1 DEF StartQuery, EndQuery, TooManyThreads, ClockStep, Replace, Unpin, OpenTmp,
                GetTmpPage, WritePage, Goto, threadVars
  <2>3. \A u \in Threads : pc'[u] = "pop" => pc[u] = "pop"
    BY <2>2 DEF TmpInv, Types
  <2> QED
    BY <2>1, <2>3, GivenKept
<1>2. ASSUME NEW t \in Threads, NEW fd \in Fds, RemoveTmp(t, fd) PROVE Given'
  <2>1. tmp' = [tmp EXCEPT ![fd] = None] /\ UNCHANGED <<available, thread2index, front, pc>>
    BY <1>2 DEF RemoveTmp, indexVars, threadVars
  <2>2. \A f \in Fds : tmp'[f] \in {None, tmp[f]}
    BY <2>1 DEF TmpInv, Types
  <2> QED
    BY <2>1, <2>2, GivenKept
<1>3. ASSUME NEW t \in Threads, ReadFront(t) PROVE Given'
  <2>1. /\ thread2index[t] = None /\ available # << >>
        /\ front' = [front EXCEPT ![t] = Head(available)] /\ pc' = [pc EXCEPT ![t] = "pop"]
        /\ UNCHANGED <<available, thread2index, tmp>>
    BY <1>3 DEF ReadFront, Goto, indexVars, fileVars
  <2>2. Head(available) = available[1]
    BY <2>1 DEF TmpInv, Types
  <2> QED
    BY <2>1, <2>2 DEF Given, TmpInv, Types
<1>4. ASSUME NEW t \in Threads, OldThread(t) PROVE Given'
  <2> DEFINE f == [pos |-> thread2index[t], thread |-> t]
  <2>1. /\ fd_of[t] \in Fds /\ tmp' = [tmp EXCEPT ![fd_of[t]] = f]
        /\ pc' = [pc EXCEPT ![t] = "run"] /\ UNCHANGED <<available, thread2index, front>>
    BY <1>4 DEF OldThread, GiveFile, Goto, indexVars, TmpInv, Opening, Types
  <2>2. \A fd \in Fds : tmp'[fd] # None => thread2index[tmp'[fd].thread] = tmp'[fd].pos
    BY <2>1 DEF Given, TmpInv, Types
  <2> HIDE DEF f
  <2>3. \A u \in Threads : pc'[u] = "pop" => pc[u] = "pop"
    BY <2>1 DEF TmpInv, Types
  <2> QED
    BY <2>1, <2>2, <2>3 DEF Given
<1>5. ASSUME NEW t \in Threads, PopFront(t) PROVE Given'
  <2> DEFINE f == [pos |-> front[t], thread |-> t]
             q == available
  <2>1. /\ pc[t] = "pop" /\ pc' = [pc EXCEPT ![t] = "run"]
        /\ fd_of[t] \in Fds /\ tmp' = [tmp EXCEPT ![fd_of[t]] = f]
        /\ thread2index' = [thread2index EXCEPT ![t] = front[t]]
    BY <1>5 DEF PopFront, GiveFile, Goto, TmpInv, Opening, Types
  <2>2. /\ thread2index[t] = None /\ q # << >> /\ front[t] = q[1]
    BY <2>1 DEF Given
  <2>3. /\ available' = Tail(q) /\ q \in Seq(Positions) /\ Len(q) \in Nat \ {0}
        /\ DOMAIN q = 1 .. Len(q)
    BY <1>5, <2>2 DEF PopFront, TmpInv, Types
  <2>4. /\ DOMAIN available' = 1 .. Len(q) - 1
        /\ \A i \in 1 .. Len(q) - 1 : available'[i] = q[i + 1] /\ i + 1 \in DOMAIN q /\ i + 1 # 1
    BY <2>3
  <2>5. 1 \in DOMAIN q
    BY <2>3
  <2>6. \A i, j \in DOMAIN available' : available'[i] = available'[j] => i = j
    BY <2>4 DEF Given
  <2>7. \A i \in DOMAIN available', u \in Threads : available'[i] # thread2index'[u]
    <3> TAKE i \in DOMAIN available', u \in Threads
    <3>1. available'[i] = q[i + 1] /\ i + 1 \in DOMAIN q /\ i + 1 # 1
      BY <2>4
    <3>2. CASE u = t
      BY <2>1, <2>2, <2>5, <3>1, <3>2 DEF Given, TmpInv, Types
    <3>3. CASE u # t
      BY <2>1, <3>1, <3>3 DEF Given, TmpInv, Types
    <3> QED
      BY <3>2, <3>3
  <2>8. \A fd \in Fds : tmp'[fd] # None => thread2index'[tmp'[fd].thread] = tmp'[fd].pos
    <3> TAKE fd \in Fds
    <3>1. CASE fd = fd_of[t]
      BY <2>1, <3>1 DEF TmpInv, Types
    <3>2. CASE fd # fd_of[t] /\ tmp[fd] # None
      <4>1. tmp'[fd] = tmp[fd] /\ tmp[fd] \in TmpFile
        BY <2>1, <3>2 DEF TmpInv, Types
      <4>2. tmp[fd].thread \in Threads /\ tmp[fd].pos \in Positions
        BY <4>1 DEF TmpFile
      <4>3. thread2index[tmp[fd].thread] = tmp[fd].pos
        BY <3>2 DEF Given
      <4>4. tmp[fd].thread # t
        BY <2>2, <4>2, <4>3
      <4> QED
        BY <2>1, <4>1, <4>2, <4>3, <4>4 DEF TmpInv, Types
    <3>3. CASE fd # fd_of[t] /\ tmp[fd] = None
      BY <2>1, <3>3 DEF TmpInv, Types
    <3> QED
      BY <3>1, <3>2, <3>3
  <2>9. \A u \in Threads : pc'[u] # "pop"
    BY <2>1 DEF OneAtATime, TmpInv, Types
  <2> QED
    BY <2>6, <2>7, <2>8, <2>9 DEF Given
<1>6. CASE UNCHANGED vars
  BY <1>6 DEF Given, vars, threadVars, indexVars, fileVars
<1> QED
  BY <1>1, <1>2, <1>3, <1>4, <1>5, <1>6 DEF Next

-----------------------------------------------------------------------------
(* Pools agree with the files.                                              *)

\* No file changes.
Kept ==
  \A p \in PageIds :
    tmp[p[1]] # None /\ tmp'[p[1]] # None => Content(p)' = Content(p)

\* Where the content of an open page is.
LEMMA WherePages ==
  ASSUME TmpInv, NEW p \in PageIds, tmp[p[1]] # None
  PROVE  /\ p[1] \in Fds /\ tmp[p[1]] \in TmpFile /\ tmp[p[1]].pos \in Positions
         /\ map[tmp[p[1]].pos][p] # None =>
              /\ map[tmp[p[1]].pos][p] \in Frames
              /\ pool[tmp[p[1]].pos][map[tmp[p[1]].pos][p]].page = p
<1>1. p[1] \in Fds
  BY PageIdParts
<1>2. tmp[p[1]] \in TmpFile
  BY <1>1 DEF TmpInv, Types
<1>3. tmp[p[1]].pos \in Positions
  BY <1>2 DEF TmpFile
<1> QED
  BY <1>1, <1>2, <1>3 DEF TmpInv, Types, MapLeads

\* Pools, maps and files are the same, and no new call looks for a page.
LEMMA CachedKept ==
  ASSUME Cached, UNCHANGED <<pool, map, disk, want, tmp>>
  PROVE  Cached' /\ Kept
BY DEF Cached, Kept, Content

\* One frame changes in its pins or its usage only.
LEMMA SameBytes ==
  ASSUME TmpInv, Cached, NEW q, NEW j, NEW new, OneFrame(q, j, new),
         new.page = pool[q][j].page, new.bytes = pool[q][j].bytes,
         new.dirty <=> pool[q][j].dirty,
         UNCHANGED <<map, disk, want, tmp>>
  PROVE  Cached' /\ Kept
<1>1. /\ q \in Positions /\ j \in Frames
      /\ \A pos \in Positions, i \in Frames :
           pool'[pos][i] = IF pos = q /\ i = j THEN new ELSE pool[pos][i]
  BY OneFramePool DEF TmpInv, OneFrame
<1>2. \A pos \in Positions, i \in Frames :
        /\ pool'[pos][i].page = pool[pos][i].page
        /\ pool'[pos][i].bytes = pool[pos][i].bytes
        /\ pool'[pos][i].dirty <=> pool[pos][i].dirty
  BY <1>1
<1>3. Cached'
  BY <1>2 DEF Cached
<1>4. Kept
  <2> SUFFICES ASSUME NEW p \in PageIds, tmp[p[1]] # None PROVE Content(p)' = Content(p)
    BY DEF Kept
  <2> QED
    BY <1>2, WherePages DEF Content
<1> QED
  BY <1>3, <1>4

\* Asking for a page: a hit pins, a miss looks for a page that no frame has.
LEMMA GetCached ==
  ASSUME TmpInv, Cached, NEW t \in Threads, NEW p \in PageIds, GetTmpPage(t, p)
  PROVE  Cached' /\ Kept
<1> DEFINE q == tmp[p[1]].pos
           j == map[q][p]
<1>0. /\ tmp[p[1]] # None /\ UNCHANGED <<map, tmp, disk>>
  BY DEF GetTmpPage, Owns, fileVars
<1>1. q \in Positions /\ (j # None => j \in Frames)
  BY <1>0, WherePages
<1>2. CASE j # None
  <2> DEFINE n == pool[q][j].pins + 1
             new == [pool[q][j] EXCEPT !.pins = n]
  <2>1. pool[q][j] \in Pages /\ pool[q][j].pins \in Nat
    BY <1>1, <1>2, PageFields DEF TmpInv, Types
  <2>2. n \in Nat
    <3> HIDE DEF q, j
    <3> QED
      BY <2>1
  <2>3. /\ new \in Pages /\ new.page = pool[q][j].page /\ new.bytes = pool[q][j].bytes
        /\ new.dirty <=> pool[q][j].dirty
    <3> HIDE DEF n
    <3> QED
      BY <2>1, <2>2, PinsUpdate
  <2>4. pool' = [pool EXCEPT ![q][j].pins = @ + 1] /\ UNCHANGED want
    BY <1>2 DEF GetTmpPage
  <2>5. pool' = [pool EXCEPT ![q][j] = new]
    BY <1>1, <1>2, <2>1, <2>4 DEF TmpInv, Types
  <2>6. OneFrame(q, j, new)
    BY <1>1, <1>2, <2>3, <2>5 DEF OneFrame
  <2> HIDE DEF q, j, new
  <2> QED
    BY <1>0, <2>3, <2>4, <2>6, SameBytes
<1>3. CASE j = None
  <2>1. want' = [want EXCEPT ![t] = p] /\ UNCHANGED pool
    BY <1>3 DEF GetTmpPage
  <2>2. \A u \in Threads : want'[u] # None => map[tmp[want'[u][1]].pos][want'[u]] = None
    BY <1>3, <2>1 DEF Cached, TmpInv, Types
  <2> QED
    BY <1>0, <2>1, <2>2 DEF Cached, Kept, Content
<1> QED
  BY <1>2, <1>3

\* The clock changes no content.
LEMMA ClockCached ==
  ASSUME TmpInv, Cached, NEW t \in Threads, ClockStep(t)
  PROVE  Cached' /\ Kept
<1> DEFINE q == tmp[want[t][1]].pos
           j == clock[q]
           new == [pool[q][j] EXCEPT !.usage = 0]
<1>0. /\ pc[t] = "scan" /\ (Hand(t).pins # 0 \/ Hand(t).usage # 0)
      /\ UNCHANGED <<want, map, tmp, disk>>
  BY DEF ClockStep, threadVars, fileVars
<1>1. q \in Positions /\ j \in Frames /\ Hand(t) \in Pages /\ Hand(t) = pool[q][j]
  BY <1>0, HandFrame
<1>2. CASE Hand(t).pins # 0
  <2>1. UNCHANGED pool
    BY <1>2 DEF ClockStep
  <2> QED
    BY <1>0, <2>1, CachedKept
<1>3. CASE Hand(t).pins = 0
  <2>1. /\ new \in Pages /\ new.page = pool[q][j].page /\ new.bytes = pool[q][j].bytes
        /\ new.dirty <=> pool[q][j].dirty
    BY <1>1, UsageUpdate
  <2>2. pool' = [pool EXCEPT ![q][j].usage = @ - 1]
    BY <1>3 DEF ClockStep
  <2>3. pool[q][j].usage - 1 = 0
    <3>1. Hand(t).usage \in {0, 1} /\ Hand(t).usage # 0
      BY <1>0, <1>1, <1>3, PageFields
    <3>2. pool[q][j].usage = 1
      BY <1>1, <3>1
    <3> HIDE DEF q, j
    <3> QED
      BY <3>2
  <2>4. pool' = [pool EXCEPT ![q][j] = new]
    BY <1>1, <2>2, <2>3 DEF TmpInv, Types
  <2>5. OneFrame(q, j, new)
    BY <1>1, <2>1, <2>4 DEF OneFrame
  <2> HIDE DEF q, j, new
  <2> QED
    BY <1>0, <2>1, <2>5, SameBytes
<1> QED
  BY <1>2, <1>3

\* Unpinning changes no content.
LEMMA UnpinCached ==
  ASSUME TmpInv, Cached, NEW t \in Threads, Unpin(t)
  PROVE  Cached' /\ Kept
<1> DEFINE q == ref[t].pos
           j == ref[t].frame
           n == pool[q][j].pins - 1
           new == [pool[q][j] EXCEPT !.pins = n]
<1>0. ref[t] # None /\ UNCHANGED <<want, map, tmp, disk>>
  BY DEF Unpin, fileVars
<1>1. /\ q \in Positions /\ j \in Frames /\ Held(t) \in Pages /\ Held(t) = pool[q][j]
      /\ Held(t).pins > 0 /\ Held(t).pins \in Nat
  BY <1>0, HeldFrames DEF Held
<1>2. n \in Nat
  <2>1. pool[q][j].pins \in Nat /\ pool[q][j].pins > 0
    BY <1>1
  <2> HIDE DEF q, j
  <2> QED
    BY <2>1
<1>3. /\ new \in Pages /\ new.page = pool[q][j].page /\ new.bytes = pool[q][j].bytes
      /\ new.dirty <=> pool[q][j].dirty
  <2> HIDE DEF n
  <2> QED
    BY <1>1, <1>2, PinsUpdate
<1>4. OneFrame(q, j, new)
  <2>1. pool' = [pool EXCEPT ![q][j] = new]
    BY <1>1 DEF Unpin, TmpInv, Types
  <2> QED
    BY <1>1, <1>3, <2>1 DEF OneFrame
<1> HIDE DEF q, j, new
<1> QED
  BY <1>0, <1>3, <1>4, SameBytes

\* The thread writes the page it holds, and no other changes.
Written ==
  \A p \in PageIds :
    tmp[p[1]] # None /\ tmp'[p[1]] # None /\ Content(p)' # Content(p) =>
      \E t \in Threads : /\ Owns(t, p[1]) /\ ref[t] # None /\ ref' = ref
                         /\ pool[ref[t].pos][ref[t].frame].page = p

\* A write reaches the page of the frame and no other page.
LEMMA WriteCached ==
  ASSUME TmpInv, Cached, NEW t \in Threads, NEW v \in Values, WritePage(t, v)
  PROVE  Cached' /\ Written
<1> DEFINE q == ref[t].pos
           j == ref[t].frame
           new == [pool[q][j] EXCEPT !.bytes = v, !.dirty = TRUE]
<1>0. ref[t] # None /\ UNCHANGED <<want, map, tmp, disk, ref>>
  BY DEF WritePage, threadVars, fileVars
<1>1. /\ q \in Positions /\ j \in Frames /\ Held(t) \in Pages /\ Held(t) = pool[q][j]
      /\ Owns(t, Held(t).page[1])
  BY <1>0, HeldFrames DEF Held
<1>2. new \in Pages /\ new.page = pool[q][j].page /\ new.dirty = TRUE
  BY <1>1, BytesUpdate
<1>3. OneFrame(q, j, new)
  <2>1. pool' = [pool EXCEPT ![q][j] = new]
    BY <1>1 DEF WritePage, TmpInv, Types
  <2> QED
    BY <1>1, <1>2, <2>1 DEF OneFrame
<1>4. pool[q][j].page = pool[ref[t].pos][ref[t].frame].page /\ Owns(t, pool[q][j].page[1])
  BY <1>1
<1> HIDE DEF q, j, new
<1>5. \A pos \in Positions, i \in Frames :
        pool'[pos][i] = IF pos = q /\ i = j THEN new ELSE pool[pos][i]
  BY <1>3, OneFramePool DEF TmpInv
<1>6. \A pos \in Positions, i \in Frames :
        /\ pool'[pos][i].page = pool[pos][i].page
        /\ pool'[pos][i].dirty \/ (pool'[pos][i] = pool[pos][i])
  BY <1>2, <1>5
<1>7. Cached'
  BY <1>0, <1>6 DEF Cached
<1>8. Written
  <2> SUFFICES ASSUME NEW p \in PageIds, tmp[p[1]] # None, Content(p)' # Content(p)
               PROVE  Owns(t, p[1]) /\ pool[q][j].page = p
    BY <1>0, <1>4 DEF Written, q, j
  <2> DEFINE pos == tmp[p[1]].pos
             i == map[pos][p]
  <2>1. i # None
    BY <1>0 DEF Content
  <2>2. pos \in Positions /\ i \in Frames /\ pool[pos][i].page = p
    BY <2>1, WherePages
  <2>3. Content(p) = pool[pos][i].bytes /\ Content(p)' = pool'[pos][i].bytes
    BY <1>0, <2>1 DEF Content
  <2>4. pos = q /\ i = j
    BY <1>5, <2>2, <2>3
  <2> HIDE DEF pos, i
  <2> QED
    BY <1>4, <2>2, <2>4
<1> QED
  BY <1>7, <1>8

\* tmpfile() empties a file that is not open.
LEMMA OpenCached ==
  ASSUME TmpInv, Cached, NEW t \in Threads, NEW fd \in Fds, OpenTmp(t, fd)
  PROVE  Cached' /\ Kept
<1>1. /\ tmp[fd] = None /\ UNCHANGED <<pool, map, want, tmp>>
      /\ \A x \in PageIds : x[1] # fd => disk'[x] = disk[x]
  BY DEF OpenTmp, poolVars
<1>2. \A pos \in Positions, i \in Frames :
        pool[pos][i].page # None =>
          pool[pos][i].page \in PageIds /\ pool[pos][i].page[1] # fd
  <2>1. \A pos \in Positions, i \in Frames :
          pool[pos][i].page \in PageIds \cup {None}
    BY PageFields DEF TmpInv, Types
  <2> QED
    BY <1>1, <2>1 DEF TmpInv, Orphans
<1>3. Cached'
  BY <1>1, <1>2 DEF Cached
<1>4. Kept
  BY <1>1 DEF Kept, Content
<1> QED
  BY <1>3, <1>4

\* A file that gets its position adds pages and changes none.
LEMMA GiveKept ==
  ASSUME TmpInv, Cached, NEW t \in Threads, NEW pos \in Positions,
         pc[t] \in {"find", "pop"}, GiveFile(t, pos), UNCHANGED <<pool, want, disk>>,
         NEW q, \A p \in PageIds, r \in Positions : r # q => map'[r][p] = map[r][p],
         \A f \in Fds : tmp[f] # None => tmp[f].pos # q,
         map' = map \/ \A p \in PageIds : map'[q][p] = None
  PROVE  Cached' /\ Kept
<1> USE NoneApart
<1>0. fd_of[t] \in Fds /\ tmp[fd_of[t]] = None
  BY DEF TmpInv, Opening, Types
<1>1. \A f \in Fds : tmp[f] # None => tmp'[f] = tmp[f]
  BY <1>0 DEF GiveFile, TmpInv, Types
<1>2. \A u \in Threads : want[u] # None =>
        /\ want[u] \in PageIds /\ want[u][1] \in Fds /\ tmp[want[u][1]] # None
        /\ tmp[want[u][1]].pos \in Positions
  BY PageIdParts, WherePages DEF TmpInv, Scans, Types, Owns
<1>3. \A r \in Positions, i \in Frames :
        pool[r][i].page # None => r # q /\ pool[r][i].page \in PageIds
  <2> SUFFICES ASSUME NEW r \in Positions, NEW i \in Frames, pool[r][i].page # None
               PROVE  r # q /\ pool[r][i].page \in PageIds
    OBVIOUS
  <2>1. pool[r][i] \in Pages
    BY DEF TmpInv, Types
  <2>2. pool[r][i].page \in PageIds
    BY <2>1, PageFields
  <2>3. tmp[pool[r][i].page[1]] # None /\ tmp[pool[r][i].page[1]].pos = r
    BY DEF TmpInv, Orphans
  <2> QED
    BY <2>2, <2>3, PageIdParts
<1>4. Cached'
  <2>1. \A r \in Positions, i \in Frames :
         pool'[r][i].page # None =>
           /\ map'[r][pool'[r][i].page] = i
           /\ pool'[r][i].dirty \/ pool'[r][i].bytes = disk'[pool'[r][i].page]
    BY <1>3 DEF Cached
  <2>2. \A u \in Threads : want'[u] # None => map'[tmp'[want'[u][1]].pos][want'[u]] = None
    BY <1>1, <1>2 DEF Cached
  <2> QED
    BY <2>1, <2>2 DEF Cached
<1>5. Kept
  <2> SUFFICES ASSUME NEW p \in PageIds, tmp[p[1]] # None PROVE Content(p)' = Content(p)
    BY DEF Kept
  <2>1. p[1] \in Fds /\ tmp[p[1]].pos \in Positions
    BY WherePages
  <2>2. tmp'[p[1]] = tmp[p[1]] /\ map'[tmp[p[1]].pos][p] = map[tmp[p[1]].pos][p]
    BY <1>1, <2>1
  <2> QED
    BY <2>2 DEF Content
<1> QED
  BY <1>4, <1>5

\* The front that is popped is the position of no open file, so clearing its map
\* loses nothing.
LEMMA PositionCached ==
  ASSUME TmpInv, CacheInv, NEW t \in Threads, OldThread(t) \/ PopFront(t)
  PROVE  Cached' /\ Kept
<1> USE NoneApart DEF CacheInv
<1>1. CASE OldThread(t)
  <2>1. /\ thread2index[t] \in Positions /\ pc[t] = "find" /\ GiveFile(t, thread2index[t])
        /\ UNCHANGED <<pool, map, want, disk>>
    BY <1>1 DEF OldThread, TmpInv, Types, poolVars
  <2>2. \A f \in Fds : tmp[f] # None => tmp[f].pos # None
    BY DEF TmpInv, Types, TmpFile
  <2> QED
    BY <2>1, <2>2, GiveKept
<1>2. CASE PopFront(t)
  <2>1. /\ front[t] \in Positions /\ pc[t] = "pop" /\ GiveFile(t, front[t])
        /\ map' = [map EXCEPT ![front[t]] = EmptyMap] /\ UNCHANGED <<pool, want, disk>>
    BY <1>2 DEF PopFront, TmpInv, Opening
  <2>2. \A f \in Fds : tmp[f] # None => tmp[f].pos # front[t]
    <3> SUFFICES ASSUME NEW f \in Fds, tmp[f] # None PROVE tmp[f].pos # front[t]
      OBVIOUS
    <3>1. tmp[f].thread \in Threads
      BY DEF TmpInv, Types, TmpFile
    <3>2. 1 \in DOMAIN available /\ front[t] = available[1]
      BY <2>1 DEF Given, TmpInv, Types
    <3> QED
      BY <3>1, <3>2 DEF Given
  <2>3. /\ \A p \in PageIds : map'[front[t]][p] = None
        /\ \A p \in PageIds, r \in Positions : r # front[t] => map'[r][p] = map[r][p]
    BY <2>1 DEF EmptyMap, TmpInv, Types
  <2> QED
    BY <2>1, <2>2, <2>3, GiveKept
<1> QED
  BY <1>1, <1>2

\* The pages of the other files stay where they are.
LEMMA RemoveCached ==
  ASSUME TmpInv, Cached, NEW t \in Threads, NEW fd \in Fds, RemoveTmp(t, fd)
  PROVE  Cached' /\ Kept
<1> DEFINE q == tmp[fd].pos
           Gone(i) == pool[q][i].page # None /\ pool[q][i].page[1] = fd
<1>0. /\ pc[t] \in {"run", "unwind"} /\ Owns(t, fd)
      /\ tmp' = [tmp EXCEPT ![fd] = None]
      /\ pool' = [pool EXCEPT ![q] = Purged(q, fd)]
      /\ map' = [map EXCEPT ![q] = Unmapped(q, fd)]
      /\ UNCHANGED <<pc, want, disk>>
  BY DEF RemoveTmp, threadVars
<1>1. q \in Positions
  BY <1>0 DEF Owns, TmpInv, Types, TmpFile
<1>2. tmp'[fd] = None /\ \A f \in Fds \ {fd} : tmp'[f] = tmp[f]
  BY <1>0 DEF TmpInv, Types
<1>3. \A pos \in Positions, i \in Frames :
        pool'[pos][i] = IF pos = q /\ Gone(i) THEN FreePage ELSE pool[pos][i]
  <2>1. Purged(q, fd) = [i \in Frames |-> IF Gone(i) THEN FreePage ELSE pool[q][i]]
    BY DEF Purged
  <2> HIDE DEF Gone, q
  <2> QED
    BY <1>0, <1>1, <2>1 DEF TmpInv, Types
<1>4. \A pos \in Positions, p \in PageIds : p[1] # fd => map'[pos][p] = map[pos][p]
  <2>1. \A p \in PageIds : p[1] # fd => Unmapped(q, fd)[p] = map[q][p]
    BY DEF Unmapped
  <2> HIDE DEF q
  <2> QED
    BY <1>0, <1>1, <2>1 DEF TmpInv, Types
<1>5. \A pos \in Positions, i \in Frames :
        pool[pos][i].page # None =>
          pool[pos][i].page \in PageIds /\ (pool[pos][i].page[1] = fd => pos = q)
  BY PageFields DEF TmpInv, Orphans, Types
<1>6. FreePage.page = None
  BY DEF FreePage
<1> HIDE DEF q
<1>7. Cached'
  <2>1. ASSUME NEW pos \in Positions, NEW i \in Frames, pool'[pos][i].page # None
        PROVE  /\ map'[pos][pool'[pos][i].page] = i
               /\ pool'[pos][i].dirty \/ pool'[pos][i].bytes = disk'[pool'[pos][i].page]
    <3>1. pool'[pos][i] = pool[pos][i] /\ ~(pos = q /\ Gone(i))
      BY <1>3, <1>6, <2>1
    <3>2. pool[pos][i].page \in PageIds /\ pool[pos][i].page[1] # fd
      BY <1>5, <2>1, <3>1
    <3> HIDE DEF Gone
    <3> QED
      BY <1>0, <1>4, <2>1, <3>1, <3>2 DEF Cached
  <2>2. ASSUME NEW u \in Threads, want[u] # None
        PROVE  map'[tmp'[want[u][1]].pos][want[u]] = None
    <3>1. want[u] \in PageIds /\ pc[u] = "scan" /\ Owns(u, want[u][1])
      BY <2>2, NoneApart DEF TmpInv, Types, Scans
    <3>2. want[u][1] # fd
      BY <1>0, <3>1 DEF Owns
    <3>3. tmp[want[u][1]].pos \in Positions /\ tmp'[want[u][1]] = tmp[want[u][1]]
      BY <1>2, <3>1, <3>2, WherePages DEF Owns
    <3> QED
      BY <1>4, <2>2, <3>1, <3>2, <3>3 DEF Cached
  <2> HIDE DEF Gone
  <2> QED
    BY <1>0, <2>1, <2>2 DEF Cached
<1>8. Kept
  <2> SUFFICES ASSUME NEW p \in PageIds, tmp[p[1]] # None, tmp'[p[1]] # None
               PROVE  Content(p)' = Content(p)
    BY DEF Kept
  <2> DEFINE r == tmp[p[1]].pos
             k == map[r][p]
  <2>1. p[1] # fd /\ tmp'[p[1]] = tmp[p[1]]
    BY <1>2, WherePages
  <2>2. r \in Positions /\ (k # None => k \in Frames /\ pool[r][k].page = p)
    BY WherePages
  <2>3. map'[r][p] = k
    BY <1>4, <2>1, <2>2
  <2>4. k # None => pool'[r][k] = pool[r][k]
    <3> SUFFICES ASSUME k # None PROVE pool'[r][k] = pool[r][k]
      OBVIOUS
    <3>1. ~(r = q /\ Gone(k))
      BY <2>1, <2>2
    <3> HIDE DEF r, k, Gone
    <3> QED
      BY <1>3, <2>2, <3>1
  <2> QED
    BY <1>0, <2>1, <2>3, <2>4 DEF Content
<1> QED
  BY <1>7, <1>8

\* The frame is written back before it is given to another page of the same pool,
\* which is read from the file.
LEMMA ReplaceCached ==
  ASSUME TmpInv, Cached, NEW t \in Threads, Replace(t)
  PROVE  Cached' /\ Kept
<1> DEFINE p == want[t]
           q == tmp[p[1]].pos
           j == clock[q]
           old == pool[q][j]
<1>0. PICK new : Replaced(t, q, j, new)
  BY ReplaceFacts
<1>1. /\ p \in PageIds /\ Owns(t, p[1]) /\ q \in Positions /\ j \in Frames /\ p # None
      /\ old \in Pages
  <2>1. pc[t] = "scan"
    BY <1>0 DEF Replaced
  <2> QED
    BY <2>1, HandFrame, NoneApart
<1>2. /\ OneFrame(q, j, new) /\ new.page = p /\ new.bytes = disk'[p]
      /\ disk' = FlushedDisk(old) /\ want' = [want EXCEPT ![t] = None] /\ UNCHANGED tmp
      /\ map' = [map EXCEPT ![q] = [x \in PageIds |->
                   IF x = p THEN j ELSE IF x = old.page THEN None ELSE map[q][x]]]
  BY <1>0 DEF Replaced
<1>3. /\ \A x \in PageIds : x # old.page => disk'[x] = disk[x]
      /\ old.page # None =>
           disk'[old.page] = IF old.dirty THEN old.bytes ELSE disk[old.page]
  BY <1>1, <1>2, FlushFacts
<1>4. map[q][p] = None
  BY <1>1 DEF Cached
<1>5. /\ old.page # None =>
           /\ old.page \in PageIds /\ map[q][old.page] = j
           /\ old.dirty \/ old.bytes = disk[old.page]
           /\ tmp[old.page[1]] # None /\ tmp[old.page[1]].pos = q
      /\ old.page # p
  <2>1. old.page \in PageIds \cup {None}
    BY <1>1, PageFields
  <2>2. old.page # None => map[q][old.page] = j /\ (old.dirty \/ old.bytes = disk[old.page])
    BY <1>1 DEF Cached
  <2>3. old.page # p
    BY <1>1, <1>4, <2>2, NoneApart
  <2>4. old.page # None => tmp[old.page[1]] # None /\ tmp[old.page[1]].pos = q
    BY <1>1 DEF TmpInv, Orphans
  <2> QED
    BY <2>1, <2>2, <2>3, <2>4
<1>6. tmp[p[1]] # None /\ tmp[p[1]].pos = q
  BY <1>1 DEF Owns
<1>7. \A u \in Threads \ {t} : want[u] # None => want[u] # p
  BY <1>1 DEF TmpInv, Scans, Owns
<1> HIDE DEF p, q, j, old
<1>8. \A pos \in Positions, i \in Frames :
        pool'[pos][i] = IF pos = q /\ i = j THEN new ELSE pool[pos][i]
  BY <1>2, OneFramePool DEF TmpInv
<1>9. /\ \A pos \in Positions, x \in PageIds : pos # q => map'[pos][x] = map[pos][x]
      /\ map'[q][p] = j
      /\ \A x \in PageIds : x # p /\ x # old.page => map'[q][x] = map[q][x]
      /\ old.page # None => map'[q][old.page] = None
  BY <1>1, <1>2, <1>5 DEF TmpInv, Types
<1>10. \A pos \in Positions, i \in Frames :
         ~(pos = q /\ i = j) /\ pool[pos][i].page # None =>
           /\ pool[pos][i].page \in PageIds /\ pool[pos][i].page # old.page
           /\ pool[pos][i].page # p
           /\ map[pos][pool[pos][i].page] = i
           /\ pool[pos][i].dirty \/ pool[pos][i].bytes = disk[pool[pos][i].page]
  <2> SUFFICES ASSUME NEW pos \in Positions, NEW i \in Frames, ~(pos = q /\ i = j),
                      pool[pos][i].page # None
               PROVE  /\ pool[pos][i].page \in PageIds /\ pool[pos][i].page # old.page
                      /\ pool[pos][i].page # p
                      /\ map[pos][pool[pos][i].page] = i
                      /\ pool[pos][i].dirty \/ pool[pos][i].bytes = disk[pool[pos][i].page]
    OBVIOUS
  <2>1. pool[pos][i].page \in PageIds
    BY PageFields DEF TmpInv, Types
  <2>2. /\ map[pos][pool[pos][i].page] = i
        /\ pool[pos][i].dirty \/ pool[pos][i].bytes = disk[pool[pos][i].page]
    BY DEF Cached
  <2>3. tmp[pool[pos][i].page[1]].pos = pos
    BY DEF TmpInv, Orphans
  <2>4. pool[pos][i].page # old.page
    BY <1>5, <2>2, <2>3
  <2>5. pool[pos][i].page # p
    BY <1>4, <1>6, <2>2, <2>3, NoneApart
  <2> QED
    BY <2>1, <2>2, <2>4, <2>5
<1>11. Cached'
  <2>1. ASSUME NEW pos \in Positions, NEW i \in Frames, pool'[pos][i].page # None
        PROVE  /\ map'[pos][pool'[pos][i].page] = i
               /\ pool'[pos][i].dirty \/ pool'[pos][i].bytes = disk'[pool'[pos][i].page]
    <3>1. CASE pos = q /\ i = j
      <4>1. pool'[pos][i] = new
        BY <1>8, <3>1
      <4> QED
        BY <1>2, <1>9, <3>1, <4>1
    <3>2. CASE ~(pos = q /\ i = j)
      <4>1. pool'[pos][i] = pool[pos][i]
        BY <1>8, <3>2
      <4>2. /\ pool[pos][i].page \in PageIds /\ pool[pos][i].page # old.page
            /\ pool[pos][i].page # p
            /\ map[pos][pool[pos][i].page] = i
            /\ pool[pos][i].dirty \/ pool[pos][i].bytes = disk[pool[pos][i].page]
        BY <1>10, <2>1, <3>2, <4>1
      <4>3. map'[pos][pool[pos][i].page] = i
        BY <1>9, <4>2
      <4>4. disk'[pool[pos][i].page] = disk[pool[pos][i].page]
        BY <1>3, <4>2
      <4> QED
        BY <4>1, <4>2, <4>3, <4>4
    <3> QED
      BY <3>1, <3>2
  <2>2. ASSUME NEW u \in Threads, want'[u] # None
        PROVE  map'[tmp'[want'[u][1]].pos][want'[u]] = None
    <3>1. u # t /\ want'[u] = want[u] /\ want[u] # None /\ want[u] # p
      BY <1>2, <1>7, <2>2 DEF TmpInv, Types
    <3>2. want[u] \in PageIds /\ map[tmp[want[u][1]].pos][want[u]] = None
      BY <3>1 DEF TmpInv, Types, Cached
    <3>3. tmp[want[u][1]] # None
      BY <3>1 DEF TmpInv, Scans, Owns
    <3>4. tmp[want[u][1]].pos \in Positions
      BY <3>2, <3>3, WherePages
    <3>5. want[u] = old.page => tmp[want[u][1]].pos = q /\ map[q][want[u]] = j
      BY <1>5, <3>1
    <3>6. want[u] # old.page
      BY <1>1, <3>2, <3>5, NoneApart
    <3>7. map'[tmp[want[u][1]].pos][want[u]] = map[tmp[want[u][1]].pos][want[u]]
      BY <1>9, <3>1, <3>2, <3>4, <3>6
    <3> QED
      BY <1>2, <3>1, <3>2, <3>7
  <2> QED
    BY <2>1, <2>2 DEF Cached
<1>12. Kept
  <2> SUFFICES ASSUME NEW x \in PageIds, tmp[x[1]] # None PROVE Content(x)' = Content(x)
    BY DEF Kept
  <2> DEFINE r == tmp[x[1]].pos
             k == map[r][x]
  <2>1. /\ Content(x) = IF k # None THEN pool[r][k].bytes ELSE disk[x]
        /\ Content(x)' = IF map'[r][x] # None THEN pool'[r][map'[r][x]].bytes ELSE disk'[x]
    BY <1>2 DEF Content
  <2>2. r \in Positions /\ (k # None => k \in Frames /\ pool[r][k].page = x)
    BY WherePages
  <2>3. CASE x = p
    <3>1. r = q
      BY <1>6, <2>3
    <3>2. Content(x) = disk[p]
      BY <1>4, <2>1, <2>3, <3>1
    <3>3. Content(x)' = new.bytes
      BY <1>1, <1>8, <1>9, <2>1, <2>3, <3>1, NoneApart
    <3> QED
      BY <1>1, <1>2, <1>3, <1>5, <3>2, <3>3
  <2>4. CASE x = old.page
    <3>1. x # None
      BY NoneApart
    <3>2. r = q /\ k = j /\ j # None
      BY <1>1, <1>5, <2>4, <3>1, NoneApart
    <3>3. Content(x) = old.bytes
      BY <2>1, <3>2 DEF old
    <3>4. Content(x)' = disk'[old.page]
      BY <1>9, <2>1, <2>4, <3>1, <3>2
    <3> QED
      BY <1>3, <1>5, <2>4, <3>1, <3>3, <3>4
  <2>5. CASE x # p /\ x # old.page
    <3>1. map'[r][x] = k
      BY <1>9, <2>2, <2>5
    <3>2. k # None => ~(r = q /\ k = j)
      BY <2>2, <2>5 DEF old
    <3>3. k # None => pool'[r][k] = pool[r][k]
      <4> HIDE DEF r, k
      <4> QED
        BY <1>8, <2>2, <3>2
    <3>4. disk'[x] = disk[x]
      BY <1>3, <2>5
    <3> HIDE DEF r, k
    <3> QED
      BY <2>1, <3>1, <3>3, <3>4
  <2> QED
    BY <2>3, <2>4, <2>5
<1> QED
  BY <1>11, <1>12

\* A step that changes no file only does what a write may do.
LEMMA KeptWritten ==
  ASSUME Kept
  PROVE  Written
BY DEF Kept, Written

\* Every step keeps the pools and the files together.
LEMMA CachedNext ==
  ASSUME TmpInv, CacheInv, [Next]_vars
  PROVE  Cached' /\ Written
<1> USE DEF CacheInv
<1>1. ASSUME NEW t \in Threads,
             StartQuery(t) \/ EndQuery(t) \/ TooManyThreads(t) \/ ReadFront(t)
      PROVE  Cached' /\ Written
  <2>1. UNCHANGED <<pool, map, disk, want, tmp>>
    BY <1>1 DEF StartQuery, EndQuery, TooManyThreads, ReadFront, poolVars, fileVars
  <2> QED
    BY <2>1, CachedKept, KeptWritten
<1>2. ASSUME NEW t \in Threads, NEW fd \in Fds, OpenTmp(t, fd) \/ RemoveTmp(t, fd)
      PROVE  Cached' /\ Written
  BY <1>2, OpenCached, RemoveCached, KeptWritten
<1>3. ASSUME NEW t \in Threads, OldThread(t) \/ PopFront(t) \/ ClockStep(t) \/ Replace(t)
                                  \/ Unpin(t)
      PROVE  Cached' /\ Written
  BY <1>3, PositionCached, ClockCached, ReplaceCached, UnpinCached, KeptWritten
<1>4. ASSUME NEW t \in Threads, NEW p \in PageIds, GetTmpPage(t, p) PROVE Cached' /\ Written
  BY <1>4, GetCached, KeptWritten
<1>5. ASSUME NEW t \in Threads, NEW v \in Values, WritePage(t, v) PROVE Cached' /\ Written
  BY <1>5, WriteCached
<1>6. CASE UNCHANGED vars
  <2>1. UNCHANGED <<pool, map, disk, want, tmp>>
    BY <1>6 DEF vars, threadVars, poolVars, fileVars
  <2> QED
    BY <2>1, CachedKept, KeptWritten
<1> QED
  BY <1>1, <1>2, <1>3, <1>4, <1>5, <1>6 DEF Next

\* The positions that are queued at the start are those after the ones given.
LEMMA InitCached == Init => CacheInv
<1> SUFFICES ASSUME Init PROVE CacheInv
  OBVIOUS
<1> USE TmpAssumption DEF TmpAssumption
<1>1. PICK n \in Spent : available = [i \in 1 .. MaxThreads - n |-> n + i - 1]
  BY DEF Init
<1>2. n \in 0 .. MaxThreads /\ Assigned \in [Threads -> (0 .. n - 1) \cup {None}]
  OBVIOUS
<1>3. \A i, j \in DOMAIN available : available[i] = available[j] => i = j
  BY <1>1, <1>2
<1>4. \A i \in DOMAIN available, t \in Threads : available[i] # thread2index[t]
  <2> TAKE i \in DOMAIN available, t \in Threads
  <2>1. available[i] \in Nat /\ available[i] >= n /\ available[i] < MaxThreads
    BY <1>1, <1>2
  <2>2. available[i] # None
    BY <2>1, NoneApart DEF Positions
  <2>3. thread2index[t] = None \/ thread2index[t] \in 0 .. n - 1
    BY <1>2 DEF Init
  <2> QED
    BY <1>2, <2>1, <2>2, <2>3
<1>5. Given
  BY <1>3, <1>4 DEF Given, Init
<1>6. Cached
  BY DEF Cached, Init, FreePage
<1> QED
  BY <1>5, <1>6 DEF CacheInv

\* The content of an open file changes only in the page that its thread is writing
\* (BufferManager::get_tmp_page, FileManager::flush and read_page), as long as no two
\* threads are inside get_private_buffer_index between front() and pop().
THEOREM WritesOnly == Spec /\ []OneAtATime => OnlyWritesChange
<1>1. TmpInv /\ CacheInv /\ OneAtATime /\ [Next]_vars => CacheInv'
  BY GivenNext, CachedNext DEF CacheInv
<1>2. TmpInv /\ CacheInv /\ [Next]_vars =>
        [\A p \in PageIds :
           tmp[p[1]] # None /\ tmp'[p[1]] # None /\ Content(p)' # Content(p) =>
             \E t \in Threads : /\ Owns(t, p[1]) /\ ref[t] # None /\ ref' = ref
                                /\ pool[ref[t].pos][ref[t].frame].page = p]_vars
  BY CachedNext DEF Written
<1> QED
  BY <1>1, <1>2, InitCached, TmpInvariant, PTL DEF Spec, OnlyWritesChange
=============================================================================

------------------------- MODULE BufferManagerProofs -------------------------
(***************************************************************************)
(* The buffer manager is correct for any number of threads, references,    *)
(* frames and pages: BufferInv is inductive, and every step of the pool is *)
(* a step of the page store or leaves it alone.                            *)
(***************************************************************************)
EXTENDS BufferManager, FiniteSetTheorems, TLAPS

-----------------------------------------------------------------------------
(* Counting references.                                                     *)

Pointing(H, f) == {h \in Handles : H[h] = f}

\* Pointing sets of a function of references are finite.
LEMMA PointingFinite ==
  ASSUME NEW H, NEW f
  PROVE  IsFiniteSet(Pointing(H, f)) /\ Cardinality(Pointing(H, f)) \in Nat
BY FS_Subset, FS_CardinalityType, BufferAssumption DEF BufferAssumption, Pointing

\* The references H become G because h, which pointed to a, now points to b.
Moves(H, G, h, a, b) ==
  /\ h \in Handles /\ a # b /\ H[h] = a /\ G[h] = b
  /\ \A x \in Handles \ {h} : G[x] = H[x]

\* When one reference h moves from a to b, the count of b grows by one, that
\* of a drops by one and was positive, and no other set changes (get_page and
\* pin move it from None to a frame, unpin back).
LEMMA PointingMove ==
  ASSUME NEW H, NEW G, NEW h, NEW a, NEW b, Moves(H, G, h, a, b)
  PROVE  /\ Cardinality(Pointing(G, b)) = Cardinality(Pointing(H, b)) + 1
         /\ Cardinality(Pointing(G, a)) = Cardinality(Pointing(H, a)) - 1
         /\ Pointing(H, a) # {} /\ Cardinality(Pointing(H, a)) > 0
         /\ \A c : c # a /\ c # b => Pointing(G, c) = Pointing(H, c)
<1>1. Pointing(G, b) = Pointing(H, b) \cup {h} /\ h \notin Pointing(H, b)
  BY DEF Moves, Pointing
<1>2. Pointing(G, a) = Pointing(H, a) \ {h} /\ h \in Pointing(H, a)
  BY DEF Moves, Pointing
<1>3. Cardinality(Pointing(H, b) \cup {h}) = Cardinality(Pointing(H, b)) + 1
  BY <1>1, PointingFinite, FS_AddElement
<1>4. Cardinality(Pointing(H, a) \ {h}) = Cardinality(Pointing(H, a)) - 1
  BY <1>2, PointingFinite, FS_RemoveElement
<1>5. Cardinality(Pointing(H, a)) > 0
  BY <1>2, PointingFinite, FS_EmptySet
<1>6. \A c : c # a /\ c # b => Pointing(G, c) = Pointing(H, c)
  BY DEF Moves, Pointing
<1> QED
  BY <1>1, <1>2, <1>3, <1>4, <1>5, <1>6

\* An unpinned frame is pointed to by nobody: the fact that makes the test
\* "pins == 0" of the clock scan a safe one.
LEMMA UnpinnedUnheld ==
  ASSUME TypeOK, PinsExact, NEW f \in Frames, pins[f] = 0, NEW h \in Handles
  PROVE  held[h] # f
<1>1. IsFiniteSet(HoldersOf(f)) /\ Cardinality(HoldersOf(f)) = 0
  BY PointingFinite DEF Pointing, HoldersOf, PinsExact
<1>2. HoldersOf(f) = {}
  BY <1>1, FS_EmptySet
<1> QED
  BY <1>2 DEF HoldersOf

\* A new reference to a frame that has a page, counted by one more pin.
LEMMA GainInv ==
  ASSUME TypeOK, PinsExact, NEW h, NEW f \in Frames, page_id[f] # None,
         Moves(held, held', h, None, f), pins' = [pins EXCEPT ![f] = @ + 1],
         page_id' = page_id
  PROVE  PinsExact'
<1> SUFFICES ASSUME NEW g \in Frames
             PROVE  /\ pins'[g] = Cardinality(HoldersOf(g)')
                    /\ HoldersOf(g)' # {} => page_id'[g] # None
  BY DEF PinsExact
<1>1. None # g
  BY BufferAssumption DEF BufferAssumption
<1>2. /\ Cardinality(Pointing(held', f)) = Cardinality(Pointing(held, f)) + 1
      /\ g # f => Pointing(held', g) = Pointing(held, g)
  BY <1>1, PointingMove
<1>3. pins'[f] = pins[f] + 1 /\ (g # f => pins'[g] = pins[g])
  BY DEF TypeOK
<1>4. /\ HoldersOf(g) = Pointing(held, g) /\ HoldersOf(g)' = Pointing(held', g)
      /\ pins[g] = Cardinality(HoldersOf(g)) /\ (HoldersOf(g) # {} => page_id[g] # None)
  BY DEF HoldersOf, Pointing, PinsExact
<1> QED
  BY <1>2, <1>3, <1>4

\* A reference is released and one pin with it.
LEMMA LossInv ==
  ASSUME TypeOK, PinsExact, NEW h, NEW f \in Frames,
         Moves(held, held', h, f, None), pins' = [pins EXCEPT ![f] = @ - 1],
         page_id' = page_id
  PROVE  PinsExact' /\ pins[f] > 0
<1>0. pins[f] > 0 /\ HoldersOf(f) # {}
  <2>1. Cardinality(Pointing(held, f)) > 0 /\ Pointing(held, f) # {}
    BY PointingMove
  <2> QED
    BY <2>1 DEF HoldersOf, Pointing, PinsExact
<1> SUFFICES ASSUME NEW g \in Frames
             PROVE  /\ pins'[g] = Cardinality(HoldersOf(g)')
                    /\ HoldersOf(g)' # {} => page_id'[g] # None
  BY <1>0 DEF PinsExact
<1>1. None # g
  BY BufferAssumption DEF BufferAssumption
<1>2. /\ Cardinality(Pointing(held', f)) = Cardinality(Pointing(held, f)) - 1
      /\ g # f => Pointing(held', g) = Pointing(held, g)
  BY <1>1, PointingMove
<1>3. pins'[f] = pins[f] - 1 /\ (g # f => pins'[g] = pins[g])
  BY DEF TypeOK
<1>4. /\ HoldersOf(g) = Pointing(held, g) /\ HoldersOf(g)' = Pointing(held', g)
      /\ pins[g] = Cardinality(HoldersOf(g)) /\ (HoldersOf(g) # {} => page_id[g] # None)
  BY DEF HoldersOf, Pointing, PinsExact
<1> QED
  BY <1>0, <1>2, <1>3, <1>4

-----------------------------------------------------------------------------
(* The invariant.                                                           *)

\* The files and the empty pool of the constructor satisfy the invariant.
LEMMA InitInv == Init => BufferInv
<1> SUFFICES ASSUME Init PROVE BufferInv
  OBVIOUS
<1> USE BufferAssumption DEF BufferAssumption, Init
<1>0. \A f \in Frames : HoldersOf(f) = {}
  BY DEF HoldersOf, Frames
<1>1. TypeOK
  BY DEF TypeOK, Frames
<1>2. MapExact
  BY DEF MapExact
<1>3. PinsExact
  BY <1>0, FS_EmptySet DEF PinsExact
<1>4. CleanIsOnDisk
  BY DEF CleanIsOnDisk
<1>5. CallsExact
  BY DEF CallsExact
<1> QED
  BY <1>1, <1>2, <1>3, <1>4, <1>5 DEF BufferInv

\* Taking and releasing execution_mutex touches no page.
LEMMA LockInv ==
  ASSUME BufferInv, NEW t \in Threads, BeginRead(t) \/ BeginWrite(t) \/ Finish(t)
  PROVE  BufferInv'
<1> USE BufferAssumption DEF BufferAssumption, BufferInv, poolVars, fileVars
<1>1. UNCHANGED <<poolVars, mutex, want, held, fileVars>>
  BY DEF BeginRead, BeginWrite, Finish
<1>2. TypeOK'
  BY <1>1 DEF TypeOK, BeginRead, BeginWrite, Finish
<1>3. MapExact' /\ PinsExact' /\ CleanIsOnDisk'
  BY <1>1 DEF MapExact, PinsExact, HoldersOf, CleanIsOnDisk
<1>4. CallsExact'
  BY <1>1 DEF CallsExact, TypeOK, BeginRead, BeginWrite, Finish
<1> QED
  BY <1>2, <1>3, <1>4

\* Asking for a page only records the call.
LEMMA AskInv ==
  ASSUME BufferInv, NEW h \in Handles, NEW op \in {"get", "append"},
         NEW p \in PageIds, Ask(h, op, p)
  PROVE  BufferInv'
<1> USE BufferAssumption DEF BufferAssumption, BufferInv, Ask, poolVars, fileVars
<1>0. [op |-> op, page |-> p] \in Requests
  BY DEF Requests
<1>1. TypeOK'
  BY <1>0 DEF TypeOK
<1>2. MapExact' /\ PinsExact' /\ CleanIsOnDisk'
  BY DEF MapExact, PinsExact, HoldersOf, CleanIsOnDisk
<1>3. CallsExact'
  BY <1>0 DEF CallsExact, TypeOK, Running
<1> QED
  BY <1>1, <1>2, <1>3

\* The three methods that ask for a page name a page of the file.
LEMMA RequestInv ==
  ASSUME BufferInv, NEW h \in Handles,
         \/ \E p \in PageIds : GetPage(h, p)
         \/ \E f \in Files : GetLastPage(h, f) \/ AppendPage(h, f)
  PROVE  BufferInv'
<1> USE BufferAssumption DEF BufferAssumption, BufferInv
<1>1. ASSUME NEW p \in PageIds, GetPage(h, p) PROVE BufferInv'
  BY <1>1, AskInv DEF GetPage
<1>2. ASSUME NEW f \in Files, GetLastPage(h, f) PROVE BufferInv'
  <2> DEFINE n == IF CountPages(f) = 0 THEN 0 ELSE CountPages(f) - 1
  <2>1. <<f, n>> \in PageIds
    BY DEF TypeOK, PageIds, PageNumbers, CountPages
  <2> QED
    BY <1>2, <2>1, AskInv DEF GetLastPage
<1>3. ASSUME NEW f \in Files, AppendPage(h, f) PROVE BufferInv'
  <2>1. <<f, CountPages(f)>> \in PageIds
    BY <1>3 DEF TypeOK, PageIds, PageNumbers, CountPages, AppendPage
  <2> QED
    BY <1>3, <2>1, AskInv DEF AppendPage
<1> QED
  BY <1>1, <1>2, <1>3

\* A hit pins the frame that the map gives.
LEMMA HitInv ==
  ASSUME BufferInv, NEW h \in Handles, Hit(h)
  PROVE  BufferInv'
<1> USE BufferAssumption DEF BufferAssumption, BufferInv, fileVars
<1> DEFINE f == pages[want[h].page]
<1>0. want[h] \in Requests /\ want[h].page \in PageIds /\ f \in Frames /\ held[h] = None
  BY DEF Hit, Pinned, TypeOK, Requests, CallsExact
<1>1. TypeOK'
  BY <1>0 DEF Hit, Pinned, TypeOK
<1>2. MapExact' /\ CleanIsOnDisk'
  BY DEF Hit, Pinned, MapExact, CleanIsOnDisk
<1>3. PinsExact'
  <2>1. Moves(held, held', h, None, f) /\ page_id[f] # None
    BY <1>0 DEF Hit, Pinned, TypeOK, Moves, MapExact
  <2> QED
    BY <1>0, <2>1, GainInv DEF Hit, Pinned
<1>4. CallsExact'
  <2>1. phase[Owner[h]] # "idle"
    BY DEF Hit, Pinned, CallsExact
  <2> QED
    BY <2>1 DEF Hit, Pinned, CallsExact, TypeOK
<1> QED
  BY <1>1, <1>2, <1>3, <1>4

\* A miss takes the mutex for a page that is not in the map.
LEMMA MissInv ==
  ASSUME BufferInv, NEW h \in Handles, Miss(h)
  PROVE  BufferInv'
<1> USE BufferAssumption DEF BufferAssumption, BufferInv, Miss, poolVars, fileVars
<1>1. TypeOK'
  BY DEF TypeOK
<1>2. MapExact' /\ PinsExact' /\ CleanIsOnDisk'
  BY DEF MapExact, PinsExact, HoldersOf, CleanIsOnDisk
<1>3. CallsExact'
  BY DEF CallsExact
<1> QED
  BY <1>1, <1>2, <1>3

\* The clock ages an unpinned frame or passes a pinned one.
LEMMA ClockInv ==
  ASSUME BufferInv, NEW h \in Handles, ClockStep(h)
  PROVE  BufferInv'
<1> USE BufferAssumption DEF BufferAssumption, BufferInv, ClockStep, Aged, fileVars
<1>1. TypeOK'
  <2>1. clock_pos \in Frames /\ clock_pos' \in Frames
    BY DEF TypeOK, NextPos, Frames
  <2>2. usage' \in [Frames -> 0 .. MaxUsage]
    BY <2>1 DEF TypeOK
  <2> QED
    BY <2>1, <2>2 DEF TypeOK
<1>2. MapExact' /\ PinsExact' /\ CallsExact'
  BY DEF MapExact, PinsExact, HoldersOf, CallsExact
<1>3. CleanIsOnDisk'
  <2>1. \A f \in Frames : page_id[f] = None => usage'[f] = 0
    <3> SUFFICES ASSUME NEW f \in Frames, page_id[f] = None PROVE usage'[f] = 0
      OBVIOUS
    <3>1. usage[f] = 0 /\ (HoldersOf(f) = {})
      BY DEF CleanIsOnDisk, PinsExact
    <3>2. pins[f] = 0
      BY <3>1, FS_EmptySet DEF PinsExact
    <3>3. clock_pos # f
      BY <3>1, <3>2
    <3> QED
      BY <3>1, <3>3 DEF TypeOK
  <2> QED
    BY <2>1 DEF CleanIsOnDisk
<1> QED
  BY <1>1, <1>2, <1>3

\* A reference is duplicated by its thread.
LEMMA PinInv ==
  ASSUME BufferInv, NEW h \in Handles, NEW g \in Handles, Pin(h, g)
  PROVE  BufferInv'
<1> USE BufferAssumption DEF BufferAssumption, BufferInv, Pin, Pinned, fileVars
<1>0. held[g] \in Frames /\ page_id[held[g]] # None
  BY DEF TypeOK, PinsExact, HoldersOf
<1>1. TypeOK'
  BY <1>0 DEF TypeOK
<1>2. MapExact'
  BY DEF MapExact
<1>3. PinsExact'
  <2>1. Moves(held, held', h, None, held[g])
    BY <1>0 DEF TypeOK, Moves
  <2> QED
    BY <1>0, <2>1, GainInv
<1>4. CleanIsOnDisk'
  BY <1>0 DEF CleanIsOnDisk, TypeOK
<1>5. CallsExact'
  BY DEF CallsExact, TypeOK, Running
<1> QED
  BY <1>1, <1>2, <1>3, <1>4, <1>5

\* A reference is released.
LEMMA UnpinInv ==
  ASSUME BufferInv, NEW h \in Handles, Unpin(h)
  PROVE  BufferInv'
<1> USE BufferAssumption DEF BufferAssumption, BufferInv, Unpin, fileVars
<1>0. held[h] \in Frames
  BY DEF TypeOK
<1>1. PinsExact' /\ pins[held[h]] > 0
  <2>1. Moves(held, held', h, held[h], None)
    BY <1>0 DEF TypeOK, Moves
  <2> QED
    BY <1>0, <2>1, LossInv
<1>2. TypeOK'
  BY <1>0, <1>1 DEF TypeOK
<1>3. MapExact' /\ CleanIsOnDisk'
  BY DEF MapExact, CleanIsOnDisk
<1>4. CallsExact'
  BY DEF CallsExact, TypeOK
<1> QED
  BY <1>1, <1>2, <1>3, <1>4

\* Writing a held page leaves it dirty.
LEMMA WriteInv ==
  ASSUME BufferInv, NEW h \in Handles, NEW v \in Values, WritePage(h, v)
  PROVE  BufferInv'
<1> USE BufferAssumption DEF BufferAssumption, BufferInv, WritePage, fileVars
<1>0. held[h] \in Frames /\ page_id[held[h]] # None
  BY DEF TypeOK, PinsExact, HoldersOf
<1>1. TypeOK'
  BY <1>0 DEF TypeOK
<1>2. MapExact' /\ PinsExact' /\ CallsExact'
  BY DEF MapExact, PinsExact, HoldersOf, CallsExact
<1>3. CleanIsOnDisk'
  BY <1>0 DEF CleanIsOnDisk, TypeOK
<1> QED
  BY <1>1, <1>2, <1>3

\* What a replacement does to the page that enters, the page that leaves and
\* all the others, in memory and on disk.
LEMMA ReplaceFacts ==
  ASSUME BufferInv, NEW h \in Handles, Replace(h)
  PROVE  /\ clock_pos \in Frames /\ want[h] \in Requests /\ want[h].page \in PageIds
         /\ pages[want[h].page] = None /\ page_id[clock_pos] # want[h].page
         /\ \A f \in Frames : page_id[f] # want[h].page
         /\ held[h] = None /\ phase[Owner[h]] # "idle"
         /\ \A g \in Handles : held[g] # clock_pos
         /\ disk'[want[h].page] = disk[want[h].page]
         /\ disk' \in [PageIds -> Values] /\ FlushedSize(clock_pos) \in [Files -> 0 .. MaxPages]
         /\ size' \in [Files -> 0 .. MaxPages]
         /\ \A p \in PageIds : p[2] >= size'[p[1]] => disk'[p] = Zero
         /\ bytes'[clock_pos] = disk[want[h].page]
         /\ page_id[clock_pos] # None => disk'[page_id[clock_pos]] = bytes[clock_pos]
         /\ \A q \in PageIds : q # page_id[clock_pos] => disk'[q] = disk[q]
<1> USE BufferAssumption DEF BufferAssumption, BufferInv
<1> DEFINE f == clock_pos
           p == want[h].page
           s == FlushedSize(f)
<1>1. f \in Frames /\ want[h] \in Requests /\ p \in PageIds /\ pages[p] = None
  BY DEF Replace, Remapped, CallsExact, TypeOK, Requests
<1>2. \A g \in Frames : page_id[g] # p
  BY <1>1 DEF MapExact
<1>3. held[h] = None /\ phase[Owner[h]] # "idle"
  BY DEF Replace, Remapped, CallsExact
<1>4. \A g \in Handles : held[g] # f
  BY <1>1, UnpinnedUnheld DEF Replace, Remapped, Remapped
<1>5. dirty[f] => page_id[f] \in PageIds
  BY <1>1 DEF CleanIsOnDisk, TypeOK
<1>6. /\ disk' \in [PageIds -> Values]
      /\ page_id[f] # None => disk'[page_id[f]] = bytes[f]
      /\ \A q \in PageIds : q # page_id[f] => disk'[q] = disk[q]
  BY <1>1, <1>5 DEF Replace, Remapped, FlushedDisk, TypeOK, CleanIsOnDisk
<1>7. \A q \in PageIds : q[1] \in Files /\ q[2] \in 0 .. MaxPages - 1 /\ q = <<q[1], q[2]>>
  BY DEF PageIds, PageNumbers
<1>8. /\ s \in [Files -> 0 .. MaxPages]
      /\ \A x \in Files : s[x] >= size[x]
      /\ dirty[f] => s[page_id[f][1]] > page_id[f][2]
  BY <1>5, <1>7 DEF FlushedSize, TypeOK
<1>9. /\ size' \in [Files -> 0 .. MaxPages]
      /\ \A x \in Files : size'[x] >= s[x]
  BY <1>1, <1>7, <1>8 DEF Replace, Remapped, SizeAfterRead
<1>10. \A q \in PageIds : q[2] >= s[q[1]] => disk'[q] = Zero
  <2> SUFFICES ASSUME NEW q \in PageIds, q[2] >= s[q[1]] PROVE disk'[q] = Zero
    OBVIOUS
  <2>1. q[2] >= size[q[1]]
    BY <1>7, <1>8 DEF TypeOK
  <2>2. disk[q] = Zero
    BY <2>1 DEF CleanIsOnDisk
  <2>3. ~(dirty[f] /\ q = page_id[f])
    BY <1>5, <1>7, <1>8
  <2> QED
    BY <2>2, <2>3, <1>1 DEF Replace, Remapped, FlushedDisk, TypeOK
<1>11. \A q \in PageIds : q[2] >= size'[q[1]] => disk'[q] = Zero
  BY <1>7, <1>8, <1>9, <1>10
<1>12. bytes'[f] = disk[p]
  <2>1. bytes'[f] = IF s[p[1]] <= p[2] THEN Zero ELSE disk'[p]
    BY <1>1 DEF Replace, Remapped, ReadBytes, TypeOK
  <2>2. disk'[p] = disk[p]
    BY <1>1, <1>2, <1>6
  <2>3. s[p[1]] <= p[2] => disk'[p] = Zero
    BY <1>1, <1>7, <1>8, <1>10
  <2> QED
    BY <2>1, <2>2, <2>3
<1> QED
  BY <1>1, <1>2, <1>3, <1>4, <1>6, <1>8, <1>9, <1>11, <1>12

\* A replacement preserves the invariant.
LEMMA ReplaceInv ==
  ASSUME BufferInv, NEW h \in Handles, Replace(h)
  PROVE  BufferInv'
<1> USE BufferAssumption DEF BufferAssumption
<1> DEFINE f == clock_pos
           p == want[h].page
<1>0. BufferInv /\ Replace(h)
  OBVIOUS
<1>1. TypeOK'
  <2>1. bytes' \in [Frames -> Values]
    <3>1. disk[p] \in Values /\ bytes'[f] = disk[p]
      BY ReplaceFacts DEF BufferInv, TypeOK
    <3> QED
      BY <3>1, ReplaceFacts DEF Replace, Remapped, BufferInv, TypeOK
  <2>2. pages' \in [PageIds -> Frames \cup {None}]
    BY ReplaceFacts DEF Replace, Remapped, BufferInv, TypeOK
  <2>3. /\ f \in Frames /\ p \in PageIds
        /\ disk' \in [PageIds -> Values] /\ size' \in [Files -> 0 .. MaxPages]
    BY ReplaceFacts
  <2>4. TypeOK
    BY DEF BufferInv
  <2>5. /\ page_id' \in [Frames -> PageIds \cup {None}]
        /\ pins' \in [Frames -> Nat] /\ usage' \in [Frames -> 0 .. MaxUsage]
        /\ dirty' \in [Frames -> BOOLEAN]
    BY <2>3, <2>4 DEF Replace, Remapped, TypeOK
  <2>6. /\ want' \in [Handles -> Requests \cup {None}]
        /\ held' \in [Handles -> Frames \cup {None}]
        /\ mutex' = None /\ clock_pos' = clock_pos /\ phase' = phase
    BY <2>3, <2>4 DEF Replace, Remapped, TypeOK
  <2> QED
    BY <2>1, <2>2, <2>3, <2>4, <2>5, <2>6 DEF TypeOK
<1>2. MapExact'
  <2> SUFFICES ASSUME NEW q \in PageIds, NEW g \in Frames
               PROVE  pages'[q] = g <=> page_id'[g] = q
    BY DEF MapExact
  <2>1. page_id'[g] = IF g = f THEN p ELSE page_id[g]
    BY ReplaceFacts DEF Replace, Remapped, BufferInv, TypeOK
  <2>2. pages'[q] = IF q = p THEN f ELSE IF q = page_id[f] THEN None ELSE pages[q]
    BY DEF Replace, Remapped, Remapped
  <2>3. pages[q] = g <=> page_id[g] = q
    BY DEF BufferInv, MapExact
  <2>4. page_id[g] # p /\ None # g
    BY ReplaceFacts
  <2>5. page_id[f] = q => pages[q] = f
    BY ReplaceFacts DEF BufferInv, MapExact
  <2> QED
    BY <2>1, <2>2, <2>3, <2>4, <2>5
<1>3. PinsExact'
  <2>1. Moves(held, held', h, None, f)
    BY ReplaceFacts DEF Replace, Remapped, Moves, BufferInv, TypeOK
  <2>2. Pointing(held, f) = {}
    BY ReplaceFacts DEF Pointing
  <2>0. Cardinality(Pointing(held', f)) = Cardinality(Pointing(held, f)) + 1
    BY <2>1, PointingMove
  <2>3. Cardinality(Pointing(held', f)) = 1
    BY <2>0, <2>2, FS_EmptySet
  <2> SUFFICES ASSUME NEW g \in Frames
               PROVE  /\ pins'[g] = Cardinality(HoldersOf(g)')
                      /\ HoldersOf(g)' # {} => page_id'[g] # None
    BY DEF PinsExact
  <2>4. HoldersOf(g) = Pointing(held, g) /\ HoldersOf(g)' = Pointing(held', g)
    BY DEF HoldersOf, Pointing
  <2>5. CASE g = f
    <3>1. pins'[f] = 1 /\ page_id'[f] = p /\ p # None
      BY ReplaceFacts DEF Replace, Remapped, BufferInv, TypeOK
    <3> QED
      BY <3>1, <2>3, <2>4, <2>5
  <2>6. CASE g # f
    <3>1. pins'[g] = pins[g] /\ page_id'[g] = page_id[g]
      BY <2>6 DEF Replace, Remapped, BufferInv, TypeOK
    <3>2. Pointing(held', g) = Pointing(held, g)
      <4>1. None # g
        OBVIOUS
      <4> QED
        BY <4>1, <2>1, <2>6, PointingMove
    <3> QED
      BY <3>1, <3>2, <2>4 DEF BufferInv, PinsExact
  <2> QED
    BY <2>5, <2>6
<1>4. CleanIsOnDisk'
  <2>1. ASSUME NEW g \in Frames, page_id'[g] # None, ~dirty'[g]
        PROVE  disk'[page_id'[g]] = bytes'[g]
    <3>1. CASE g = f
      <4>1. page_id'[f] = p
        BY ReplaceFacts DEF Replace, Remapped, BufferInv, TypeOK
      <4>2. disk'[p] = disk[p] /\ bytes'[f] = disk[p]
        BY ReplaceFacts
      <4> QED
        BY <3>1, <4>1, <4>2
    <3>2. CASE g # f
      <4>1. page_id'[g] = page_id[g] /\ dirty'[g] = dirty[g] /\ bytes'[g] = bytes[g]
        BY <3>2 DEF Replace, Remapped, BufferInv, TypeOK
      <4>2. page_id[g] \in PageIds /\ pages[page_id[g]] = g
        BY <4>1, <2>1 DEF BufferInv, TypeOK, MapExact
      <4>3. page_id[g] # page_id[f]
        BY <3>2, <4>2, ReplaceFacts DEF BufferInv, MapExact
      <4> QED
        BY <2>1, <4>1, <4>2, <4>3, ReplaceFacts DEF BufferInv, CleanIsOnDisk
    <3> QED
      BY <3>1, <3>2
  <2>2. ASSUME NEW g \in Frames, page_id'[g] = None
        PROVE  ~dirty'[g] /\ usage'[g] = 0
    <3>1. g # f
      BY <2>2, ReplaceFacts DEF Replace, Remapped, BufferInv, TypeOK
    <3> QED
      BY <2>2, <3>1 DEF Replace, Remapped, BufferInv, TypeOK, CleanIsOnDisk
  <2> QED
    BY <2>1, <2>2, ReplaceFacts DEF CleanIsOnDisk
<1>5. CallsExact'
  BY ReplaceFacts DEF Replace, Remapped, BufferInv, TypeOK, CallsExact
<1> QED
  BY <1>1, <1>2, <1>3, <1>4, <1>5 DEF BufferInv

\* The destructor writes every dirty page; the new pool is empty.
LEMMA RestartInv ==
  ASSUME BufferInv, Restart
  PROVE  BufferInv'
<1> USE BufferAssumption DEF BufferAssumption
<1>0. \A h \in Handles : held[h] = None /\ want[h] = None
  BY DEF BufferInv, Restart, CallsExact
<1>1. mutex = None
  BY <1>0 DEF BufferInv, CallsExact, TypeOK
<1>2. TypeOK'
  <2>1. disk' \in [PageIds -> Values]
    BY DEF Restart, BufferInv, TypeOK, DirtyPage
  <2>2. TypeOK
    BY DEF BufferInv
  <2>3. /\ page_id' \in [Frames -> PageIds \cup {None}] /\ bytes' \in [Frames -> Values]
        /\ pins' \in [Frames -> Nat] /\ usage' \in [Frames -> 0 .. MaxUsage]
        /\ dirty' \in [Frames -> BOOLEAN] /\ pages' \in [PageIds -> Frames \cup {None}]
    BY DEF Restart
  <2>4. clock_pos' \in Frames /\ size' \in [Files -> 0 .. MaxPages]
    BY DEF Restart, Frames
  <2>5. UNCHANGED <<mutex, want, held, phase>>
    BY DEF Restart
  <2> QED
    BY <2>1, <2>2, <2>3, <2>4, <2>5 DEF TypeOK
<1>3. MapExact'
  BY DEF Restart, MapExact
<1>4. PinsExact'
  <2>1. \A f \in Frames : HoldersOf(f)' = {}
    BY <1>0 DEF Restart, HoldersOf
  <2> QED
    BY <2>1, FS_EmptySet DEF PinsExact, Restart
<1>5. CleanIsOnDisk'
  <2>1. ASSUME NEW q \in PageIds, q[2] >= size'[q[1]] PROVE disk'[q] = Zero
    <3>0. q[1] \in Files /\ q[2] \in Nat
      BY DEF PageIds, PageNumbers
    <3>1. size'[q[1]] \in Nat /\ size[q[1]] \in Nat /\ size'[q[1]] >= size[q[1]]
      BY <3>0 DEF Restart, BufferInv, TypeOK
    <3>2. ~DirtyPage(q)
      BY <2>1, <3>0, <3>1 DEF Restart
    <3>3. q[2] >= size[q[1]]
      BY <2>1, <3>0, <3>1
    <3> QED
      BY <3>2, <3>3 DEF Restart, BufferInv, CleanIsOnDisk
  <2> QED
    BY <2>1 DEF CleanIsOnDisk, Restart
<1>6. CallsExact'
  BY <1>0, <1>1 DEF CallsExact, Restart, BufferInv
<1> QED
  BY <1>2, <1>3, <1>4, <1>5, <1>6 DEF BufferInv

\* Every step preserves the invariant.
LEMMA StepInv == BufferInv /\ [Next]_vars => BufferInv'
<1> SUFFICES ASSUME BufferInv, [Next]_vars PROVE BufferInv'
  OBVIOUS
<1>1. ASSUME NEW t \in Threads, BeginRead(t) \/ BeginWrite(t) \/ Finish(t) PROVE BufferInv'
  BY <1>1, LockInv
<1>2. ASSUME NEW h \in Handles,
             \/ \E p \in PageIds : GetPage(h, p)
             \/ \E f \in Files : GetLastPage(h, f) \/ AppendPage(h, f)
      PROVE  BufferInv'
  BY <1>2, RequestInv
<1>3. ASSUME NEW h \in Handles, Call(h) PROVE BufferInv'
  BY <1>3, HitInv, MissInv, ClockInv, ReplaceInv DEF Call
<1>4. ASSUME NEW h \in Handles, NEW g \in Handles, Pin(h, g) PROVE BufferInv'
  BY <1>4, PinInv
<1>5. ASSUME NEW h \in Handles, Unpin(h) PROVE BufferInv'
  BY <1>5, UnpinInv
<1>6. ASSUME NEW h \in Handles, NEW v \in Values, WritePage(h, v) PROVE BufferInv'
  BY <1>6, WriteInv
<1>7. CASE Restart
  BY <1>7, RestartInv
<1>8. CASE UNCHANGED vars
  <2> USE <1>8 DEF vars, poolVars, fileVars
  <2>1. TypeOK' /\ MapExact'
    BY DEF BufferInv, TypeOK, MapExact
  <2>2. PinsExact'
    BY DEF BufferInv, PinsExact, HoldersOf
  <2>3. CleanIsOnDisk' /\ CallsExact'
    BY DEF BufferInv, CleanIsOnDisk, CallsExact
  <2> QED
    BY <2>1, <2>2, <2>3 DEF BufferInv
<1> QED
  BY <1>1, <1>2, <1>3, <1>4, <1>5, <1>6, <1>7, <1>8 DEF Next

\* In every reachable state of the pool (buffer_manager.cc), with any number
\* of threads, frames and pages, the invariant holds.
THEOREM BufferInvariant == Spec => []BufferInv
<1> QED
  BY InitInv, StepInv, PTL DEF Spec

\* The variables have the types of the fields of Page and BufferManager.
THEOREM TypeCorrect == Spec => []TypeOK
<1>1. BufferInv => TypeOK
  BY DEF BufferInv
<1> QED
  BY BufferInvariant, <1>1, PTL

\* The map gives a page one frame, and the frame agrees (BufferManager::pages
\* against Page::page_id).
THEOREM MapCorrect == Spec => []MapExact
<1>1. BufferInv => MapExact
  BY DEF BufferInv
<1> QED
  BY BufferInvariant, <1>1, PTL

\* Page::pins counts the references to the page.
THEOREM PinsCorrect == Spec => []PinsExact
<1>1. BufferInv => PinsExact
  BY DEF BufferInv
<1> QED
  BY BufferInvariant, <1>1, PTL

\* A clean frame holds what its file holds (Page::dirty).
THEOREM CleanCorrect == Spec => []CleanIsOnDisk
<1>1. BufferInv => CleanIsOnDisk
  BY DEF BufferInv
<1> QED
  BY BufferInvariant, <1>1, PTL

\* A thread outside an operation holds no page, an update runs alone, and the
\* page that the holder of the mutex looks for is in no frame (get_page).
THEOREM CallsCorrect == Spec => []CallsExact
<1>1. BufferInv => CallsExact
  BY DEF BufferInv
<1> QED
  BY BufferInvariant, <1>1, PTL

-----------------------------------------------------------------------------
(* The pool implements the page store.                                      *)

\* The empty pool over the files is the store that the files hold.
LEMMA StoreInitially == Init => Store!StoreInit
<1> SUFFICES ASSUME Init PROVE Store!StoreInit
  OBVIOUS
<1>1. Content = disk /\ View = [h \in Handles |-> None]
  BY DEF Init, Content, View
<1> QED
  BY <1>1 DEF Store!StoreInit, Init

\* A step that leaves the frames' contents, the references and the files
\* alone is a stutter of the store.
LEMMA StoreStutter ==
  ASSUME UNCHANGED <<page_id, bytes, pages, held, disk>>
  PROVE  UNCHANGED Store!storeVars
BY DEF Store!storeVars, Content, View

\* Getting a page that is in the pool opens it.
LEMMA StoreHit ==
  ASSUME BufferInv, NEW h \in Handles, Hit(h)
  PROVE  Store!StoreNext
<1> DEFINE p == want[h].page
<1>1. p \in PageIds /\ pages[p] \in Frames /\ held[h] = None /\ page_id[pages[p]] = p
  BY DEF Hit, Pinned, BufferInv, TypeOK, Requests, CallsExact, MapExact
<1>2. Content' = Content
  BY DEF Hit, Pinned, Content, fileVars
<1>3. View[h] = None /\ View' = [View EXCEPT ![h] = p]
  <2>1. pages[p] # None
    BY DEF Hit, Pinned
  <2> QED
    BY <1>1, <2>1 DEF Hit, Pinned, View, BufferInv, TypeOK
<1> QED
  BY <1>1, <1>2, <1>3 DEF Store!StoreNext, Store!Open

\* Bringing a page in from its file opens it, and changes the content of no
\* page: neither of the one evicted nor of the one read.
LEMMA StoreReplace ==
  ASSUME BufferInv, NEW h \in Handles, Replace(h)
  PROVE  Store!StoreNext
<1> USE BufferAssumption DEF BufferAssumption
<1> DEFINE p == want[h].page
           f == clock_pos
<1>1. p \in PageIds /\ f \in Frames /\ held[h] = None /\ f # None /\ p # None
  BY ReplaceFacts
<1>2. Content' = Content
  <2> SUFFICES ASSUME NEW q \in PageIds PROVE Content'[q] = Content[q]
    BY DEF Content
  <2>0. /\ Content'[q] = IF pages'[q] # None THEN bytes'[pages'[q]] ELSE disk'[q]
        /\ Content[q] = IF pages[q] # None THEN bytes[pages[q]] ELSE disk[q]
    BY DEF Content
  <2>1. pages'[q] = IF q = p THEN f ELSE IF q = page_id[f] THEN None ELSE pages[q]
    BY DEF Replace, Remapped, Remapped
  <2>2. CASE q = p
    BY <1>1, <2>0, <2>1, <2>2, ReplaceFacts
  <2>3. CASE q # p /\ q = page_id[f]
    <3>1. pages[q] = f
      BY <1>1, <2>3 DEF BufferInv, MapExact
    <3>2. disk'[q] = bytes[f]
      BY <2>3, ReplaceFacts
    <3> QED
      BY <1>1, <2>0, <2>1, <2>3, <3>1, <3>2
  <2>4. CASE q # p /\ q # page_id[f]
    <3>1. disk'[q] = disk[q]
      BY <2>4, ReplaceFacts
    <3>2. pages[q] # f
      BY <1>1, <2>4 DEF BufferInv, MapExact
    <3>3. \A g \in Frames : g # f => bytes'[g] = bytes[g]
      BY <1>1 DEF Replace, Remapped, BufferInv, TypeOK
    <3>4. pages[q] \in Frames \cup {None}
      BY DEF BufferInv, TypeOK
    <3> QED
      BY <2>0, <2>1, <2>4, <3>1, <3>2, <3>3, <3>4
  <2> QED
    BY <2>2, <2>3, <2>4
<1>3. View[h] = None /\ View' = [View EXCEPT ![h] = p]
  <2>1. View[h] = None
    BY <1>1 DEF View
  <2>2. held'[h] = f /\ page_id'[f] = p
    BY <1>1 DEF Replace, Remapped, BufferInv, TypeOK
  <2>3. ASSUME NEW g \in Handles, g # h PROVE View'[g] = View[g]
    <3>1. held'[g] = held[g] /\ held[g] # f /\ held[g] \in Frames \cup {None}
      BY <2>3, ReplaceFacts DEF Replace, Remapped, BufferInv, TypeOK
    <3>2. held[g] # None => page_id'[held[g]] = page_id[held[g]]
      BY <1>1, <3>1 DEF Replace, Remapped, BufferInv, TypeOK
    <3> QED
      BY <3>1, <3>2 DEF View
  <2> QED
    BY <1>1, <2>1, <2>2, <2>3 DEF View
<1> QED
  BY <1>1, <1>2, <1>3 DEF Store!StoreNext, Store!Open

\* Duplicating a reference opens the page of the other one.
LEMMA StorePin ==
  ASSUME BufferInv, NEW h \in Handles, NEW g \in Handles, Pin(h, g)
  PROVE  Store!StoreNext
<1>1. held[g] \in Frames /\ page_id[held[g]] \in PageIds
  BY DEF Pin, Pinned, BufferInv, TypeOK, PinsExact, HoldersOf
<1>2. Content' = Content
  BY DEF Pin, Pinned, Content, fileVars
<1>3. View[h] = None /\ View' = [View EXCEPT ![h] = page_id[held[g]]]
  BY <1>1 DEF Pin, Pinned, View, BufferInv, TypeOK
<1> QED
  BY <1>1, <1>2, <1>3 DEF Store!StoreNext, Store!Open

\* Releasing a reference closes it.
LEMMA StoreUnpin ==
  ASSUME BufferInv, NEW h \in Handles, Unpin(h)
  PROVE  Store!StoreNext
<1>1. held[h] \in Frames /\ page_id[held[h]] # None
  BY DEF Unpin, BufferInv, TypeOK, PinsExact, HoldersOf
<1>2. Content' = Content
  BY DEF Unpin, Content, fileVars
<1>3. View[h] # None /\ View' = [View EXCEPT ![h] = None]
  BY <1>1 DEF Unpin, View, BufferInv, TypeOK
<1> QED
  BY <1>2, <1>3 DEF Store!StoreNext, Store!Close

\* Writing through a reference changes the page it designates and no other.
LEMMA StoreWrite ==
  ASSUME BufferInv, NEW h \in Handles, NEW v \in Values, WritePage(h, v)
  PROVE  Store!StoreNext
<1> DEFINE f == held[h]
           p == page_id[f]
<1>1. f \in Frames /\ p \in PageIds /\ p # None /\ f # None
  BY DEF WritePage, BufferInv, TypeOK, PinsExact, HoldersOf
<1>2. \A q \in PageIds : pages[q] = f <=> q = p
  BY <1>1 DEF BufferInv, MapExact
<1>3. View[h] = p /\ View' = View
  BY <1>1 DEF WritePage, View
<1>4. Content' = [Content EXCEPT ![p] = v]
  <2>1. bytes'[f] = v /\ \A g \in Frames : g # f => bytes'[g] = bytes[g]
    BY <1>1 DEF WritePage, BufferInv, TypeOK
  <2>2. pages' = pages /\ disk' = disk
    BY DEF WritePage, fileVars
  <2>3. \A q \in PageIds : pages[q] \in Frames \cup {None}
    BY DEF BufferInv, TypeOK
  <2>4. ASSUME NEW q \in PageIds PROVE Content'[q] = IF q = p THEN v ELSE Content[q]
    BY <1>1, <1>2, <2>1, <2>2, <2>3 DEF Content
  <2> QED
    BY <1>1, <2>4 DEF Content
<1> QED
  BY <1>1, <1>3, <1>4 DEF Store!StoreNext, Store!Put

\* A restart keeps every page.
LEMMA StoreRestart ==
  ASSUME BufferInv, Restart
  PROVE  UNCHANGED Store!storeVars
<1>1. \A h \in Handles : held[h] = None
  BY BufferAssumption DEF BufferAssumption, BufferInv, Restart, CallsExact
<1>2. View' = View
  BY <1>1 DEF View, Restart
<1>3. Content' = Content
  <2> SUFFICES ASSUME NEW q \in PageIds PROVE Content'[q] = Content[q]
    BY DEF Content
  <2>1. Content'[q] = IF DirtyPage(q) THEN bytes[pages[q]] ELSE disk[q]
    BY DEF Content, Restart
  <2>2. pages[q] # None => pages[q] \in Frames /\ page_id[pages[q]] = q
    BY DEF BufferInv, TypeOK, MapExact
  <2>3. pages[q] # None /\ ~dirty[pages[q]] => disk[q] = bytes[pages[q]]
    <3> SUFFICES ASSUME pages[q] # None, ~dirty[pages[q]] PROVE disk[q] = bytes[pages[q]]
      OBVIOUS
    <3>1. page_id[pages[q]] # None
      BY <2>2, BufferAssumption DEF BufferAssumption
    <3> QED
      BY <2>2, <3>1 DEF BufferInv, CleanIsOnDisk
  <2> QED
    BY <2>1, <2>3 DEF Content, DirtyPage
<1> QED
  BY <1>2, <1>3 DEF Store!storeVars

\* Every step of the pool is a step of the page store or a stutter of it.
LEMMA StoreStep == BufferInv /\ [Next]_vars => [Store!StoreNext]_(Store!storeVars)
<1> SUFFICES ASSUME BufferInv, [Next]_vars PROVE [Store!StoreNext]_(Store!storeVars)
  OBVIOUS
<1> USE DEF poolVars, fileVars
<1>1. ASSUME NEW t \in Threads, BeginRead(t) \/ BeginWrite(t) \/ Finish(t)
      PROVE  UNCHANGED Store!storeVars
  BY <1>1, StoreStutter DEF BeginRead, BeginWrite, Finish
<1>2. ASSUME NEW h \in Handles,
             \/ \E p \in PageIds : GetPage(h, p)
             \/ \E f \in Files : GetLastPage(h, f) \/ AppendPage(h, f)
      PROVE  UNCHANGED Store!storeVars
  BY <1>2, StoreStutter DEF GetPage, GetLastPage, AppendPage, Ask
<1>3. ASSUME NEW h \in Handles, Miss(h) \/ ClockStep(h)
      PROVE  UNCHANGED Store!storeVars
  BY <1>3, StoreStutter DEF Miss, ClockStep
<1>4. ASSUME NEW h \in Handles, Hit(h) \/ Replace(h) PROVE Store!StoreNext
  BY <1>4, StoreHit, StoreReplace
<1>5. ASSUME NEW h \in Handles, NEW g \in Handles, Pin(h, g) PROVE Store!StoreNext
  BY <1>5, StorePin
<1>6. ASSUME NEW h \in Handles, Unpin(h) PROVE Store!StoreNext
  BY <1>6, StoreUnpin
<1>7. ASSUME NEW h \in Handles, NEW v \in Values, WritePage(h, v) PROVE Store!StoreNext
  BY <1>7, StoreWrite
<1>8. CASE Restart
  BY <1>8, StoreRestart
<1>9. CASE UNCHANGED vars
  BY <1>9, StoreStutter DEF vars
<1>10. CASE Next
  <2>1. \/ UNCHANGED Store!storeVars
        \/ Store!StoreNext
    BY <1>10, <1>1, <1>2, <1>3, <1>4, <1>5, <1>6, <1>7, <1>8 DEF Next, Call
  <2> QED
    BY <2>1
<1> QED
  BY <1>9, <1>10

\* The buffer manager implements the page store: no interleaving of hits,
\* evictions, reloads, writes and restarts changes what a page contains or
\* which page a reference designates.
THEOREM StoreRefinement == Spec => StoreSpec
<1> QED
  BY StoreInitially, StoreStep, BufferInvariant, PTL DEF Spec, StoreSpec, Store!StoreSpec
=============================================================================

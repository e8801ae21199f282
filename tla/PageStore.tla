------------------------------ MODULE PageStore ------------------------------
(***************************************************************************)
(* What the buffer manager promises its callers, with no buffer in it: a   *)
(* set of pages, each with its current content, and page references that   *)
(* designate one page from the moment they are obtained until they are     *)
(* released.  A page read through a reference is the page that was asked   *)
(* for and shows the last content written to it, whoever wrote it and      *)
(* however often the page travelled to disk and back in between.           *)
(***************************************************************************)
CONSTANTS Handles,   \* page references (Page& held by some object)
          PageIds,   \* pairs <<file, page number>>
          Values,    \* contents of a page
          None       \* no page

VARIABLES mem,       \* mem[p]: current content of page p
          view       \* view[h]: the page that reference h designates, or None

storeVars == <<mem, view>>

StoreInit ==
  /\ mem \in [PageIds -> Values]
  /\ view = [h \in Handles |-> None]

\* A reference is obtained; obtaining one never changes what a page contains.
Open(h, p) ==
  /\ view[h] = None
  /\ view' = [view EXCEPT ![h] = p]
  /\ UNCHANGED mem

\* The holder of a reference changes the bytes of its page.
Put(h, v) ==
  /\ view[h] # None
  /\ mem' = [mem EXCEPT ![view[h]] = v]
  /\ UNCHANGED view

\* A reference is released.
Close(h) ==
  /\ view[h] # None
  /\ view' = [view EXCEPT ![h] = None]
  /\ UNCHANGED mem

StoreNext ==
  \E h \in Handles :
    \/ \E p \in PageIds : Open(h, p)
    \/ \E v \in Values : Put(h, v)
    \/ Close(h)

StoreSpec == StoreInit /\ [][StoreNext]_storeVars
=============================================================================

------------------------------- MODULE Server -------------------------------
(***************************************************************************)
(* The sessions of the MillenniumDB server and its timeout thread          *)
(* (bin/server.cc).  Each accepted connection is served by a detached      *)
(* thread that parses one query, takes execution_mutex in shared mode for  *)
(* a query and in exclusive mode for an insert, registers its ThreadInfo   *)
(* in running_threads_queue, executes, and answers through a TcpBuffer     *)
(* whose destructor sends the last block.  The timeout thread looks only   *)
(* at the front of the queue and requests interruptions.  The plan of a    *)
(* query takes one of the slots of the PathManager, where its iterators    *)
(* keep the paths they found, and the destructor of Return gives it back.  *)
(*                                                                         *)
(* Time is what is left until each deadline, so it needs no bound.         *)
(***************************************************************************)
EXTENDS Naturals, Sequences

CONSTANTS
  Sessions,  \* connections, each served by its own thread
  Lossy,     \* the sessions whose client may disconnect
  Duration,  \* timeout_duration, in ticks
  MaxThreads,\* max_threads: the slots of the PathManager
  Kinds      \* what clients send: "read", "write" or "bad" queries

ASSUME ServerAssumption ==
  /\ Lossy \subseteq Sessions
  /\ Duration \in Nat \ {0}
  /\ MaxThreads \in Nat \ {0}
  /\ Kinds \subseteq {"read", "write", "bad"}

VARIABLES
  pc,           \* where each session is
  kind,         \* what it received
  conn,         \* its connection: "up", or "lost" when writes report an error
  status,       \* the status byte of its TcpBuffer
  pending,      \* the status its error handler will set after its message
  received,     \* the status in the last block, when the client got it
  readers,      \* sessions with a shared lock of execution_mutex
  writers,      \* sessions with an exclusive lock of it
  left,         \* ThreadInfo::timeout, as ticks until it expires
  finished, interruption_requested,  \* the flags of ThreadInfo
  available_index,  \* the queue of the free slots of the PathManager
  thread_paths,     \* the slot of each session, or None
  queue,        \* running_threads_queue
  timer,        \* the timeout thread: "check" or "sleep"
  sleep_left,   \* ticks until sleep_for returns
  terminated    \* the process called std::terminate

sessionVars == <<pc, kind, conn, status, pending, received>>
lockVars    == <<readers, writers>>
infoVars    == <<left, finished, interruption_requested>>
timerVars   == <<timer, sleep_left>>
slotVars    == <<available_index, thread_paths>>
vars == <<sessionVars, lockVars, infoVars, slotVars, queue, timerVars, terminated>>

Slots == 0 .. MaxThreads - 1
None  == MaxThreads

Init ==
  /\ pc = [s \in Sessions |-> "listen"]
  /\ kind = [s \in Sessions |-> "none"]
  /\ conn = [s \in Sessions |-> "up"]
  /\ status = [s \in Sessions |-> "unexpected_error"]
  /\ pending = [s \in Sessions |-> "none"]
  /\ received = [s \in Sessions |-> "none"]
  /\ readers = {} /\ writers = {}
  /\ left = [s \in Sessions |-> 0]
  /\ finished = [s \in Sessions |-> FALSE]
  /\ interruption_requested = [s \in Sessions |-> FALSE]
  /\ available_index = [i \in 1 .. MaxThreads |-> i - 1]
  /\ thread_paths = [s \in Sessions |-> None]
  /\ queue = << >>
  /\ timer = "check" /\ sleep_left = 0
  /\ terminated = FALSE

Goto(s, label) == pc' = [pc EXCEPT ![s] = label]

\* A step of session s while it is at the given place of session().
At(s, label) == ~terminated /\ pc[s] = label

-----------------------------------------------------------------------------
(* From the connection to the lock.                                         *)

\* The query is read from the socket and the TcpBuffer is built.
Receive(s, k) ==
  /\ At(s, "listen") /\ conn[s] = "up"
  /\ kind' = [kind EXCEPT ![s] = k]
  /\ Goto(s, "parse")
  /\ UNCHANGED <<conn, status, pending, received, lockVars, infoVars, queue, timerVars,
                 terminated, slotVars>>

\* The read fails: caught by catch (...), and there is no TcpBuffer yet.
ReceiveFails(s) ==
  /\ At(s, "listen") /\ conn[s] = "lost"
  /\ Goto(s, "closed")
  /\ UNCHANGED <<kind, conn, status, pending, received, lockVars, infoVars, queue,
                 timerVars, terminated, slotVars>>

\* The locks are RAII objects: leaving the block by any way releases them.
\* Mutant: an exclusive lock is released as if it were a shared one.
UnlockShared(s) ==
  /\ readers' = readers \ {s}
  /\ UNCHANGED writers

Unlock(s) ==
  /\ readers' = readers \ {s}
  /\ writers' = writers \ {s}

\* An exception that has a handler inside the session: the handler writes its
\* message, and sets the status only after it.
Handled(s, code) ==
  /\ pending' = [pending EXCEPT ![s] = code]
  /\ Goto(s, "message")
  /\ Unlock(s)
  /\ UNCHANGED <<kind, conn, status, received>>

\* get_query_plan, outside the lock.
Parse(s) ==
  /\ At(s, "parse")
  /\ IF kind[s] = "bad"
       THEN Handled(s, "query_error")
       ELSE Goto(s, "lock") /\ UNCHANGED <<kind, conn, status, pending, received, lockVars>>
  /\ UNCHANGED <<infoVars, queue, timerVars, terminated, slotVars>>

LockShared(s) ==
  /\ At(s, "lock") /\ kind[s] = "read"
  /\ writers = {}
  /\ readers' = readers \cup {s}
  /\ Goto(s, "plan")
  /\ UNCHANGED <<kind, conn, status, pending, received, writers, infoVars, queue, timerVars,
                 terminated, slotVars>>

\* Mutant: the update waits for other updates only.
NobodyInsideForget == writers = {}
NobodyInside == writers = {} /\ readers = {}

LockUnique(s) ==
  /\ At(s, "lock") /\ kind[s] = "write"
  /\ NobodyInside
  /\ writers' = writers \cup {s}
  /\ Goto(s, "insert")
  /\ UNCHANGED <<kind, conn, status, pending, received, readers, infoVars, queue, timerVars,
                 terminated, slotVars>>

-----------------------------------------------------------------------------
(* A query.                                                                 *)

\* PathManager::begin takes the front of the queue; of an empty queue that is
\* undefined, and what the memory holds may be any slot.
Fronts == IF available_index = << >> THEN Slots ELSE {Head(available_index)}

\* Mutant: the slot that was taken stays at the front.
BeginPathsKeepsFront(s) ==
  /\ \E i \in Fronts : thread_paths' = [thread_paths EXCEPT ![s] = i]
  /\ UNCHANGED available_index

BeginPaths(s) ==
  /\ \E i \in Fronts : thread_paths' = [thread_paths EXCEPT ![s] = i]
  /\ available_index' = IF available_index = << >> THEN << >> ELSE Tail(available_index)

\* ~Return, when the plan is destroyed, at the end of execute_query or by an
\* exception that leaves it: PathManager::clear.  The plan of a DESCRIBE has
\* no Return, and no slot.
ClearPaths(s) ==
  IF thread_paths[s] = None THEN UNCHANGED slotVars
  ELSE /\ available_index' = Append(available_index, thread_paths[s])
       /\ thread_paths' = [thread_paths EXCEPT ![s] = None]

\* quad_model.exec builds the plan: of a MATCH or of a DESCRIBE.  It may throw
\* a QueryException or a LogicException before the slot is taken; or, when the
\* table of a DISTINCT gets no private buffer, a QueryExecutionException, for
\* which there is no handler.  Then the slot was taken and there is no Return
\* yet to give it back.
Plan(s) ==
  /\ At(s, "plan")
  /\ \/ /\ BeginPaths(s) \/ UNCHANGED slotVars
        /\ Goto(s, "stamp")
        /\ UNCHANGED <<kind, conn, status, pending, received, lockVars>>
     \/ /\ \E code \in {"query_error", "logic_error"} : Handled(s, code)
        /\ UNCHANGED slotVars
     \/ /\ BeginPaths(s)
        /\ Unlock(s)
        /\ Goto(s, "destroy")
        /\ UNCHANGED <<kind, conn, status, pending, received>>
  /\ UNCHANGED <<infoVars, queue, timerVars, terminated>>

TimeGiven == Duration

\* The deadline is computed before the mutex of the queue is taken ...
Stamp(s) ==
  /\ At(s, "stamp")
  /\ left' = [left EXCEPT ![s] = TimeGiven]
  /\ Goto(s, "push")
  /\ UNCHANGED <<kind, conn, status, pending, received, lockVars, finished,
                 interruption_requested, queue, timerVars, terminated, slotVars>>

\* ... and the session goes to the back of the queue.
Push(s) ==
  /\ At(s, "push")
  /\ queue' = Append(queue, s)
  /\ Goto(s, "run")
  /\ UNCHANGED <<kind, conn, status, pending, received, lockVars, infoVars, timerVars,
                 terminated, slotVars>>

\* All results were produced.
Complete(s) ==
  /\ At(s, "run")
  /\ finished' = [finished EXCEPT ![s] = TRUE]
  /\ status' = [status EXCEPT ![s] = "success"]
  /\ ClearPaths(s)
  /\ Unlock(s)
  /\ Goto(s, "destroy")
  /\ UNCHANGED <<kind, conn, pending, received, left, interruption_requested, queue,
                 timerVars, terminated>>

\* An iterator sees the flag and throws InterruptedException.
Poll(s) ==
  /\ At(s, "run") /\ interruption_requested[s]
  /\ ClearPaths(s)
  /\ Handled(s, "timeout")
  /\ UNCHANGED <<infoVars, queue, timerVars, terminated>>

\* LogicException during the execution; `finished` is not set.
LogicError(s) ==
  /\ At(s, "run")
  /\ ClearPaths(s)
  /\ Handled(s, "logic_error")
  /\ UNCHANGED <<infoVars, queue, timerVars, terminated>>

\* An exception without a handler in the session (QueryExecutionException):
\* the TcpBuffer is destroyed on the way out with its default status.
Uncaught(s) ==
  /\ At(s, "run")
  /\ ClearPaths(s)
  /\ Unlock(s)
  /\ Goto(s, "destroy")
  /\ UNCHANGED <<kind, conn, status, pending, received, infoVars, queue, timerVars,
                 terminated>>

\* A block of results cannot be sent: send() closes the socket and throws
\* ConnectionException, so the destructor has nothing to send.
SendFails(s) ==
  /\ At(s, "run") /\ conn[s] = "lost"
  /\ ClearPaths(s)
  /\ Unlock(s)
  /\ Goto(s, "closed")
  /\ UNCHANGED <<kind, conn, status, pending, received, infoVars, queue, timerVars,
                 terminated>>

\* exec_inserts: applied, or a LogicException (a duplicate, for instance).
Insert(s) ==
  /\ At(s, "insert")
  /\ \/ /\ status' = [status EXCEPT ![s] = "success"]
        /\ Unlock(s)
        /\ Goto(s, "destroy")
        /\ UNCHANGED <<kind, conn, pending, received>>
     \/ Handled(s, "logic_error")
  /\ UNCHANGED <<infoVars, queue, timerVars, terminated, slotVars>>

-----------------------------------------------------------------------------
(* The answer.                                                              *)

\* The handler's message ends with endl, which sends a block.
Message(s) ==
  /\ At(s, "message")
  /\ IF conn[s] = "up"
       THEN Goto(s, "destroy") /\ status' = [status EXCEPT ![s] = pending[s]]
       ELSE Goto(s, "closed") /\ UNCHANGED status
  /\ UNCHANGED <<kind, conn, pending, received, lockVars, infoVars, queue, timerVars,
                 terminated, slotVars>>

\* ~TcpBuffer sends the last block.  send() throws when it cannot, and a
\* destructor is noexcept: std::terminate.
Destroy(s) ==
  /\ At(s, "destroy")
  /\ Goto(s, "closed")
  /\ received' = IF conn[s] = "up" THEN [received EXCEPT ![s] = status[s]] ELSE received
  /\ terminated' = (conn[s] # "up")
  /\ UNCHANGED <<kind, conn, status, pending, lockVars, infoVars, queue, timerVars, slotVars>>

\* The client goes away; the next write or read reports it.
Disconnect(s) ==
  /\ ~terminated /\ s \in Lossy
  /\ pc[s] # "closed" /\ conn[s] = "up"
  /\ conn' = [conn EXCEPT ![s] = "lost"]
  /\ UNCHANGED <<pc, kind, status, pending, received, lockVars, infoVars, queue, timerVars,
                 terminated, slotVars>>

-----------------------------------------------------------------------------
(* execute_timeouts, one iteration under running_threads_queue_mutex.       *)

\* Mutant: a deadline still to come counts as expired.
ExpiredEarly(s) == left[s] <= 1
Expired(s) == left[s] = 0

CheckEmpty ==
  /\ ~terminated /\ timer = "check" /\ queue = << >>
  /\ timer' = "sleep" /\ sleep_left' = Duration
  /\ UNCHANGED <<sessionVars, lockVars, infoVars, queue, terminated, slotVars>>

\* Mutant: only finished queries leave the queue, and nobody is interrupted.
RequestNothing(s) == interruption_requested
Request(s) == [interruption_requested EXCEPT ![s] = TRUE]

CheckPop ==
  /\ ~terminated /\ timer = "check" /\ queue # << >>
  /\ Expired(Head(queue)) \/ finished[Head(queue)]
  /\ interruption_requested' = Request(Head(queue))
  /\ queue' = Tail(queue)
  /\ UNCHANGED <<sessionVars, lockVars, left, finished, timerVars, terminated, slotVars>>

CheckSleep ==
  /\ ~terminated /\ timer = "check" /\ queue # << >>
  /\ ~(Expired(Head(queue)) \/ finished[Head(queue)])
  /\ timer' = "sleep" /\ sleep_left' = left[Head(queue)]
  /\ UNCHANGED <<sessionVars, lockVars, infoVars, queue, terminated, slotVars>>

WakeUp ==
  /\ ~terminated /\ timer = "sleep" /\ sleep_left = 0
  /\ timer' = "check"
  /\ UNCHANGED <<sessionVars, lockVars, infoVars, queue, sleep_left, terminated, slotVars>>

Less(n) == IF n = 0 THEN 0 ELSE n - 1

Tick ==
  /\ ~terminated
  /\ left' = [s \in Sessions |-> Less(left[s])]
  /\ sleep_left' = Less(sleep_left)
  /\ UNCHANGED <<sessionVars, lockVars, finished, interruption_requested, queue, timer,
                 terminated, slotVars>>

-----------------------------------------------------------------------------
TimeoutThread == CheckEmpty \/ CheckPop \/ CheckSleep \/ WakeUp

\* The steps of a session that come without waiting for anything.
SessionStep(s) ==
  \/ Parse(s) \/ Plan(s) \/ Stamp(s) \/ Push(s) \/ Insert(s)
  \/ Poll(s) \/ SendFails(s) \/ Message(s) \/ Destroy(s)

Next ==
  \/ \E s \in Sessions :
       \/ \E k \in Kinds : Receive(s, k)
       \/ ReceiveFails(s)
       \/ LockShared(s) \/ LockUnique(s)
       \/ SessionStep(s)
       \/ Complete(s) \/ LogicError(s) \/ Uncaught(s)
       \/ Disconnect(s)
  \/ TimeoutThread
  \/ Tick

Spec == Init /\ [][Next]_vars

\* Threads are scheduled and time passes.  A query need not end by itself:
\* only its polls of the flag are assumed.  A reader that waits for the lock
\* gets it if it is free again and again: std::shared_mutex is a glibc rwlock,
\* which lets waiting readers in first when a writer leaves.
FairSpec ==
  /\ Spec
  /\ \A s \in Sessions : WF_vars(SessionStep(s)) /\ SF_vars(LockShared(s))
  /\ WF_vars(TimeoutThread)
  /\ WF_vars(Tick)

-----------------------------------------------------------------------------
Codes == {"success", "query_error", "logic_error", "timeout", "unexpected_error"}

TypeOK ==
  /\ pc \in [Sessions -> {"listen", "parse", "lock", "plan", "stamp", "push", "run",
                          "insert", "message", "destroy", "closed"}]
  /\ kind \in [Sessions -> Kinds \cup {"none"}]
  /\ conn \in [Sessions -> {"up", "lost"}]
  /\ status \in [Sessions -> Codes]
  /\ pending \in [Sessions -> Codes \cup {"none"}]
  /\ received \in [Sessions -> Codes \cup {"none"}]
  /\ readers \subseteq Sessions /\ writers \subseteq Sessions
  /\ left \in [Sessions -> 0 .. Duration]
  /\ finished \in [Sessions -> BOOLEAN]
  /\ interruption_requested \in [Sessions -> BOOLEAN]
  /\ available_index \in Seq(Slots)
  /\ thread_paths \in [Sessions -> Slots \cup {None}]
  /\ queue \in Seq(Sessions)
  /\ timer \in {"check", "sleep"} /\ sleep_left \in 0 .. Duration
  /\ terminated \in BOOLEAN

\* An insert runs alone: no query is planned or executed, and no other insert
\* applied, while a session is inside exec_inserts.  Every way out of a query
\* and of an insert (result, handled error, interruption, unhandled exception,
\* lost client) gives the lock back.
UpdatesRunAlone ==
  /\ TypeOK
  /\ \A s, u \in Sessions :
       pc[s] = "insert" /\ s # u => pc[u] \notin {"plan", "stamp", "push", "run", "insert"}
  /\ \A s \in Sessions :
       /\ s \in readers <=> pc[s] \in {"plan", "stamp", "push", "run"}
       /\ s \in writers <=> pc[s] = "insert"

\* A client is told "timeout" only when its query had used up its time
\* (server.cc interrupts it from another thread).
TimeoutIsHonest ==
  \A s \in Sessions :
    pending[s] = "timeout" \/ received[s] = "timeout" => left[s] = 0 /\ ~finished[s]

\* Each slot of the PathManager is free or belongs to one query, which alone
\* writes its paths there; and a query that finished or was interrupted has
\* given its slot back, whatever others took and gave meanwhile.
SlotsExact ==
  /\ \A s, u \in Sessions : thread_paths[s] = thread_paths[u] /\ s # u => thread_paths[s] = None
  /\ \A i, j \in DOMAIN available_index : available_index[i] = available_index[j] => i = j
  /\ \A i \in Slots : (\E j \in DOMAIN available_index : available_index[j] = i)
                       <=> \A s \in Sessions : thread_paths[s] # i
  /\ \A s \in Sessions : finished[s] \/ pending[s] = "timeout" => thread_paths[s] = None

\* A query that was registered ends, even if it would run for ever: the
\* timeout thread reaches it behind any number of other entries.
QueriesEnd == \A s \in Sessions : pc[s] = "run" ~> pc[s] = "closed" \/ terminated

\* A query that waits for execution_mutex gets through it.
ReadersGetIn ==
  \A s \in Sessions : pc[s] = "lock" /\ kind[s] = "read" ~> pc[s] = "plan" \/ terminated
=============================================================================

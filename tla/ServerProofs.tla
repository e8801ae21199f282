---------------------------- MODULE ServerProofs ----------------------------
(***************************************************************************)
(* The sessions and the timeout thread are correct for any set of          *)
(* connections, any timeout and any number of slots: an insert runs alone, *)
(* and a client is told "timeout" only when its time was used up.  That    *)
(* every slot of the PathManager has one owner holds as long as a query    *)
(* that is planned finds a free one.                                       *)
(***************************************************************************)
EXTENDS Server, FiniteSetTheorems, TLAPS

-----------------------------------------------------------------------------
(* The parts of the invariant.                                              *)

\* A session that is registered with the timeout thread has passed Push.
Registered == {"run", "message", "destroy", "closed"}

\* The flags and the status of a session follow its deadline: the timeout
\* thread knows only sessions whose deadline is set for good, and requests an
\* interruption only after the deadline or the end of the query; what a
\* session says of a timeout comes from Poll.
DeadlineInv ==
  /\ \A i \in DOMAIN queue : pc[queue[i]] \in Registered
  /\ \A s \in Sessions :
       /\ interruption_requested[s] =>
            pc[s] \in Registered /\ (left[s] = 0 \/ finished[s])
       /\ finished[s] => pc[s] \in {"destroy", "closed"}
       /\ pending[s] = "timeout" =>
            pc[s] \in {"message", "destroy", "closed"} /\ left[s] = 0 /\ ~finished[s]
       /\ pc[s] = "message" => pending[s] # "none"
       /\ status[s] = "timeout" => pending[s] = "timeout"
       /\ received[s] = "timeout" => pending[s] = "timeout"

ServerInv == UpdatesRunAlone /\ DeadlineInv

\* Each slot is free once or belongs to one session.
OneOwner ==
  /\ \A s, u \in Sessions : thread_paths[s] = thread_paths[u] /\ s # u => thread_paths[s] = None
  /\ \A i, j \in DOMAIN available_index : available_index[i] = available_index[j] => i = j
  /\ \A i \in Slots : (\E j \in DOMAIN available_index : available_index[j] = i)
                       <=> \A s \in Sessions : thread_paths[s] # i

\* The places where a session has no slot yet, or never gets one.
Early == {"listen", "parse", "lock", "plan", "insert"}

SlotsInv ==
  /\ OneOwner
  /\ \A s \in Sessions :
       pc[s] \in Early \/ finished[s] \/ pending[s] = "timeout" => thread_paths[s] = None

\* A query that is planned finds a free slot.
SlotsSuffice == \A s \in Sessions : pc[s] = "plan" => available_index # << >>

-----------------------------------------------------------------------------
(* The lock and the deadlines.                                              *)

\* Nobody is connected, and the timeout thread has nothing to look at.
LEMMA InitInv == Init => ServerInv
<1> SUFFICES ASSUME Init PROVE ServerInv
  OBVIOUS
<1> USE ServerAssumption DEF ServerAssumption, Init
<1>1. TypeOK
  <2>1. available_index \in Seq(Slots)
    BY DEF Slots
  <2>2. finished \in [Sessions -> BOOLEAN] /\ interruption_requested \in [Sessions -> BOOLEAN]
    OBVIOUS
  <2>3. left \in [Sessions -> 0 .. Duration] /\ sleep_left \in 0 .. Duration
    OBVIOUS
  <2>4. queue \in Seq(Sessions)
    OBVIOUS
  <2>5. thread_paths \in [Sessions -> Slots \cup {None}]
    OBVIOUS
  <2>6. terminated \in BOOLEAN
    OBVIOUS
  <2> QED
    BY <2>1, <2>2, <2>3, <2>4, <2>5, <2>6 DEF TypeOK, Codes
<1>2. UpdatesRunAlone
  BY <1>1 DEF UpdatesRunAlone
<1>3. DeadlineInv
  BY DEF DeadlineInv
<1> QED
  BY <1>2, <1>3 DEF ServerInv

\* A query arrives: no lock yet, and no status.
LEMMA ReceiveInv ==
  ASSUME ServerInv, NEW s \in Sessions, NEW k \in Kinds, Receive(s, k)
  PROVE  ServerInv'
<1> USE DEF ServerInv, Receive, Goto, At, lockVars, infoVars, timerVars, slotVars
<1>1. TypeOK'
  BY DEF UpdatesRunAlone, TypeOK, Codes
<1>2. UpdatesRunAlone'
  BY <1>1 DEF UpdatesRunAlone, TypeOK
<1>3. DeadlineInv'
  BY DEF DeadlineInv, UpdatesRunAlone, TypeOK, Registered
<1> QED
  BY <1>2, <1>3

\* The read fails before there is anything to give back.
LEMMA ReceiveFailsInv ==
  ASSUME ServerInv, NEW s \in Sessions, ReceiveFails(s)
  PROVE  ServerInv'
<1> USE DEF ServerInv, ReceiveFails, Goto, At, lockVars, infoVars, timerVars, slotVars
<1>1. TypeOK'
  BY DEF UpdatesRunAlone, TypeOK, Codes
<1>2. UpdatesRunAlone'
  BY <1>1 DEF UpdatesRunAlone, TypeOK
<1>3. DeadlineInv'
  BY DEF DeadlineInv, UpdatesRunAlone, TypeOK, Registered
<1> QED
  BY <1>2, <1>3

\* A slot of the PathManager is a slot, also when begin() takes the front of an
\* empty queue.
LEMMA SlotTypes ==
  ASSUME ServerInv, NEW s \in Sessions,
         BeginPaths(s) \/ ClearPaths(s) \/ UNCHANGED slotVars
  PROVE  available_index' \in Seq(Slots) /\ thread_paths' \in [Sessions -> Slots \cup {None}]
<1> USE DEF ServerInv, UpdatesRunAlone, TypeOK
<1>1. CASE BeginPaths(s)
  <2>1. Fronts \subseteq Slots
    BY DEF Fronts
  <2>2. PICK i \in Fronts : thread_paths' = [thread_paths EXCEPT ![s] = i]
    BY <1>1 DEF BeginPaths
  <2>3. available_index' = IF available_index = << >> THEN << >> ELSE Tail(available_index)
    BY <1>1 DEF BeginPaths
  <2>4. available_index' \in Seq(Slots)
    BY <2>3
  <2> QED
    BY <2>1, <2>2, <2>4
<1>2. CASE ClearPaths(s)
  <2>1. CASE thread_paths[s] = None
    BY <1>2, <2>1 DEF ClearPaths, slotVars
  <2>2. CASE thread_paths[s] # None
    <3>1. /\ available_index' = Append(available_index, thread_paths[s])
          /\ thread_paths' = [thread_paths EXCEPT ![s] = None]
      BY <1>2, <2>2 DEF ClearPaths
    <3>2. thread_paths[s] \in Slots
      BY <2>2
    <3> QED
      BY <3>1, <3>2
  <2> QED
    BY <2>1, <2>2
<1>3. CASE UNCHANGED slotVars
  BY <1>3 DEF slotVars
<1> QED
  BY <1>1, <1>2, <1>3

\* An error handler takes over: the lock is given back on the way to it.  Only an
\* interruption after the deadline ends in the status "timeout".
LEMMA HandledInv ==
  ASSUME ServerInv, NEW s \in Sessions, NEW code \in Codes, Handled(s, code),
         pc[s] \in {"parse", "plan", "run", "insert"},
         code = "timeout" => left[s] = 0 /\ ~finished[s],
         UNCHANGED <<infoVars, queue, timerVars, terminated>>,
         BeginPaths(s) \/ ClearPaths(s) \/ UNCHANGED slotVars
  PROVE  ServerInv'
<1> USE DEF ServerInv, Handled, Unlock, Goto, lockVars, infoVars, timerVars, slotVars
<1>1. TypeOK'
  BY SlotTypes DEF UpdatesRunAlone, TypeOK, Codes
<1>2. UpdatesRunAlone'
  BY <1>1 DEF UpdatesRunAlone, TypeOK
<1>3. DeadlineInv'
  BY DEF DeadlineInv, UpdatesRunAlone, TypeOK, Registered, Codes
<1> QED
  BY <1>2, <1>3

\* A session leaves the block without a handler: the lock is given back all the
\* same.
LEMMA LeaveInv ==
  ASSUME ServerInv, NEW s \in Sessions, NEW label \in {"destroy", "closed"},
         pc[s] \in {"plan", "run"}, Unlock(s), Goto(s, label),
         UNCHANGED <<kind, conn, status, pending, received, infoVars, queue, timerVars,
                     terminated>>,
         BeginPaths(s) \/ ClearPaths(s) \/ UNCHANGED slotVars
  PROVE  ServerInv'
<1> USE DEF ServerInv, Unlock, Goto, lockVars, infoVars, timerVars, slotVars
<1>1. TypeOK'
  BY SlotTypes DEF UpdatesRunAlone, TypeOK, Codes
<1>2. UpdatesRunAlone'
  BY <1>1 DEF UpdatesRunAlone, TypeOK
<1>3. DeadlineInv'
  BY DEF DeadlineInv, UpdatesRunAlone, TypeOK, Registered
<1> QED
  BY <1>2, <1>3

\* A query that does not parse is answered by the handler; any other goes for
\* the lock.
LEMMA ParseInv ==
  ASSUME ServerInv, NEW s \in Sessions, Parse(s)
  PROVE  ServerInv'
<1>1. CASE kind[s] = "bad"
  <2>1. /\ Handled(s, "query_error") /\ pc[s] = "parse" /\ "query_error" \in Codes
        /\ UNCHANGED <<infoVars, queue, timerVars, terminated>> /\ UNCHANGED slotVars
    BY <1>1 DEF Parse, At, Codes
  <2> QED
    BY <2>1, HandledInv
<1>2. CASE kind[s] # "bad"
  <2> USE DEF ServerInv
  <2>1. /\ pc[s] = "parse" /\ pc' = [pc EXCEPT ![s] = "lock"]
        /\ UNCHANGED <<kind, conn, status, pending, received, lockVars, infoVars, queue,
                       timerVars, terminated, slotVars>>
    BY <1>2 DEF Parse, At, Goto
  <2> USE DEF lockVars, infoVars, timerVars, slotVars
  <2>2. TypeOK'
    BY <2>1 DEF UpdatesRunAlone, TypeOK
  <2>3. UpdatesRunAlone'
    BY <2>1, <2>2 DEF UpdatesRunAlone, TypeOK
  <2>4. DeadlineInv'
    BY <2>1 DEF DeadlineInv, UpdatesRunAlone, TypeOK, Registered
  <2> QED
    BY <2>3, <2>4
<1> QED
  BY <1>1, <1>2

\* A query gets in when no insert is inside.
LEMMA LockSharedInv ==
  ASSUME ServerInv, NEW s \in Sessions, LockShared(s)
  PROVE  ServerInv'
<1> USE DEF ServerInv, LockShared, Goto, At, lockVars, infoVars, timerVars, slotVars
<1>1. TypeOK'
  BY DEF UpdatesRunAlone, TypeOK, Codes
<1>2. UpdatesRunAlone'
  BY <1>1 DEF UpdatesRunAlone, TypeOK
<1>3. DeadlineInv'
  BY DEF DeadlineInv, UpdatesRunAlone, TypeOK, Registered
<1> QED
  BY <1>2, <1>3

\* An insert gets in when nobody is inside.
LEMMA LockUniqueInv ==
  ASSUME ServerInv, NEW s \in Sessions, LockUnique(s)
  PROVE  ServerInv'
<1> USE DEF ServerInv, LockUnique, NobodyInside, Goto, At, lockVars, infoVars, timerVars, slotVars
<1>1. TypeOK'
  BY DEF UpdatesRunAlone, TypeOK, Codes
<1>2. UpdatesRunAlone'
  BY <1>1 DEF UpdatesRunAlone, TypeOK
<1>3. DeadlineInv'
  BY DEF DeadlineInv, UpdatesRunAlone, TypeOK, Registered
<1> QED
  BY <1>2, <1>3

\* The three ways out of quad_model.exec: a plan, an exception with a handler, and
\* one without.
LEMMA PlanInv ==
  ASSUME ServerInv, NEW s \in Sessions, Plan(s)
  PROVE  ServerInv'
<1>0. pc[s] = "plan" /\ UNCHANGED <<infoVars, queue, timerVars, terminated>>
  BY DEF Plan, At
<1>1. CASE /\ BeginPaths(s) \/ UNCHANGED slotVars
           /\ Goto(s, "stamp")
           /\ UNCHANGED <<kind, conn, status, pending, received, lockVars>>
  <2> USE <1>0, <1>1 DEF ServerInv, Goto, lockVars, infoVars, timerVars
  <2>1. TypeOK'
    BY SlotTypes DEF UpdatesRunAlone, TypeOK
  <2>2. UpdatesRunAlone'
    BY <2>1 DEF UpdatesRunAlone, TypeOK
  <2>3. DeadlineInv'
    BY DEF DeadlineInv, UpdatesRunAlone, TypeOK, Registered
  <2> QED
    BY <2>2, <2>3
<1>2. CASE /\ \E code \in {"query_error", "logic_error"} : Handled(s, code)
           /\ UNCHANGED slotVars
  BY <1>0, <1>2, HandledInv DEF Codes
<1>3. CASE /\ BeginPaths(s) /\ Unlock(s) /\ Goto(s, "destroy")
           /\ UNCHANGED <<kind, conn, status, pending, received>>
  BY <1>0, <1>3, LeaveInv
<1> QED
  BY <1>1, <1>2, <1>3 DEF Plan

\* The deadline is set while the timeout thread does not know the session.
LEMMA StampInv ==
  ASSUME ServerInv, NEW s \in Sessions, Stamp(s)
  PROVE  ServerInv'
<1> USE DEF ServerInv, Stamp, TimeGiven, Goto, At, lockVars, infoVars, timerVars, slotVars
<1>1. TypeOK'
  BY ServerAssumption DEF UpdatesRunAlone, TypeOK, Codes
<1>2. UpdatesRunAlone'
  BY <1>1 DEF UpdatesRunAlone, TypeOK
<1>3. DeadlineInv'
  BY DEF DeadlineInv, UpdatesRunAlone, TypeOK, Registered
<1> QED
  BY <1>2, <1>3

\* The session is registered.
LEMMA PushInv ==
  ASSUME ServerInv, NEW s \in Sessions, Push(s)
  PROVE  ServerInv'
<1> USE DEF ServerInv, Push, Goto, At, lockVars, infoVars, timerVars, slotVars
<1>1. TypeOK'
  BY DEF UpdatesRunAlone, TypeOK, Codes
<1>2. UpdatesRunAlone'
  BY <1>1 DEF UpdatesRunAlone, TypeOK
<1>3. DeadlineInv'
  BY DEF DeadlineInv, UpdatesRunAlone, TypeOK, Registered
<1> QED
  BY <1>2, <1>3

\* A query that ends in time was never told of a timeout.
LEMMA CompleteInv ==
  ASSUME ServerInv, NEW s \in Sessions, Complete(s)
  PROVE  ServerInv'
<1> USE DEF ServerInv, Complete, Unlock, Goto, At, lockVars, infoVars, timerVars
<1>1. TypeOK'
  BY SlotTypes DEF UpdatesRunAlone, TypeOK, Codes
<1>2. UpdatesRunAlone'
  BY <1>1 DEF UpdatesRunAlone, TypeOK
<1>3. DeadlineInv'
  BY DEF DeadlineInv, UpdatesRunAlone, TypeOK, Registered
<1> QED
  BY <1>2, <1>3

\* An interruption, an error or a lost client ends the execution.
LEMMA BrokenOffInv ==
  ASSUME ServerInv, NEW s \in Sessions,
         Poll(s) \/ LogicError(s) \/ Uncaught(s) \/ SendFails(s)
  PROVE  ServerInv'
<1>1. CASE Poll(s)
  <2>1. left[s] = 0 /\ ~finished[s]
    BY <1>1 DEF Poll, At, ServerInv, DeadlineInv
  <2> QED
    BY <1>1, <2>1, HandledInv DEF Poll, At, Codes
<1>2. CASE LogicError(s)
  BY <1>2, HandledInv DEF LogicError, At, Codes
<1>3. CASE Uncaught(s)
  BY <1>3, LeaveInv DEF Uncaught, At
<1>4. CASE SendFails(s)
  BY <1>4, LeaveInv DEF SendFails, At
<1> QED
  BY <1>1, <1>2, <1>3, <1>4

\* exec_inserts ends and gives the exclusive lock back.
LEMMA InsertInv ==
  ASSUME ServerInv, NEW s \in Sessions, Insert(s)
  PROVE  ServerInv'
<1>0. /\ pc[s] = "insert" /\ UNCHANGED <<infoVars, queue, timerVars, terminated>>
      /\ UNCHANGED slotVars
  BY DEF Insert, At
<1>1. CASE /\ status' = [status EXCEPT ![s] = "success"] /\ Unlock(s) /\ Goto(s, "destroy")
           /\ UNCHANGED <<kind, conn, pending, received>>
  <2> USE <1>0, <1>1 DEF ServerInv, Unlock, Goto, infoVars, timerVars, slotVars
  <2>1. TypeOK'
    BY DEF UpdatesRunAlone, TypeOK, Codes
  <2>2. UpdatesRunAlone'
    BY <2>1 DEF UpdatesRunAlone, TypeOK
  <2>3. DeadlineInv'
    BY DEF DeadlineInv, UpdatesRunAlone, TypeOK, Registered
  <2> QED
    BY <2>2, <2>3
<1>2. CASE Handled(s, "logic_error")
  BY <1>0, <1>2, HandledInv DEF Codes
<1> QED
  BY <1>1, <1>2 DEF Insert

\* The handler's message, and then its status, which was chosen before.
LEMMA MessageInv ==
  ASSUME ServerInv, NEW s \in Sessions, Message(s)
  PROVE  ServerInv'
<1> USE DEF ServerInv
<1>0. pc[s] = "message" /\ pending[s] \in Codes
  BY DEF Message, At, DeadlineInv, UpdatesRunAlone, TypeOK
<1>1. UNCHANGED <<kind, conn, pending, received, lockVars, infoVars, queue, timerVars,
                  terminated, slotVars>>
  BY DEF Message
<1> USE <1>0, <1>1 DEF lockVars, infoVars, timerVars, slotVars
<1>2. CASE conn[s] = "up"
  <2>1. /\ pc' = [pc EXCEPT ![s] = "destroy"]
        /\ status' = [status EXCEPT ![s] = pending[s]]
    BY <1>2 DEF Message, Goto
  <2>2. TypeOK'
    BY <2>1 DEF UpdatesRunAlone, TypeOK
  <2>3. UpdatesRunAlone'
    BY <2>1, <2>2 DEF UpdatesRunAlone, TypeOK
  <2>4. DeadlineInv'
    BY <2>1 DEF DeadlineInv, UpdatesRunAlone, TypeOK, Registered
  <2> QED
    BY <2>3, <2>4
<1>3. CASE conn[s] # "up"
  <2>1. pc' = [pc EXCEPT ![s] = "closed"] /\ UNCHANGED status
    BY <1>3 DEF Message, Goto
  <2>2. TypeOK'
    BY <2>1 DEF UpdatesRunAlone, TypeOK
  <2>3. UpdatesRunAlone'
    BY <2>1, <2>2 DEF UpdatesRunAlone, TypeOK
  <2>4. DeadlineInv'
    BY <2>1 DEF DeadlineInv, UpdatesRunAlone, TypeOK, Registered
  <2> QED
    BY <2>3, <2>4
<1> QED
  BY <1>2, <1>3

\* The last block carries the status, or the process ends.
LEMMA DestroyInv ==
  ASSUME ServerInv, NEW s \in Sessions, Destroy(s)
  PROVE  ServerInv'
<1> USE DEF ServerInv
<1>0. /\ pc[s] = "destroy" /\ pc' = [pc EXCEPT ![s] = "closed"]
      /\ UNCHANGED <<kind, conn, status, pending, lockVars, infoVars, queue, timerVars, slotVars>>
  BY DEF Destroy, At, Goto
<1>1. \A u \in Sessions : received'[u] \in {received[u], status[u]}
  BY DEF Destroy, UpdatesRunAlone, TypeOK
<1>2. received' \in [Sessions -> Codes \cup {"none"}]
  BY DEF Destroy, UpdatesRunAlone, TypeOK
<1>3. terminated' \in BOOLEAN
  BY DEF Destroy
<1> USE <1>0 DEF lockVars, infoVars, timerVars, slotVars
<1>4. TypeOK'
  BY <1>2, <1>3 DEF UpdatesRunAlone, TypeOK
<1>5. UpdatesRunAlone'
  BY <1>4 DEF UpdatesRunAlone, TypeOK
<1>6. DeadlineInv'
  BY <1>1 DEF DeadlineInv, UpdatesRunAlone, TypeOK, Registered
<1> QED
  BY <1>5, <1>6

\* A client that goes away changes nothing on the server.
LEMMA DisconnectInv ==
  ASSUME ServerInv, NEW s \in Sessions, Disconnect(s)
  PROVE  ServerInv'
<1> USE DEF ServerInv, Disconnect, lockVars, infoVars, timerVars, slotVars
<1>1. TypeOK'
  BY DEF UpdatesRunAlone, TypeOK
<1>2. UpdatesRunAlone'
  BY <1>1 DEF UpdatesRunAlone, TypeOK
<1>3. DeadlineInv'
  BY DEF DeadlineInv, UpdatesRunAlone, TypeOK, Registered
<1> QED
  BY <1>2, <1>3

\* The timeout thread goes to sleep and wakes up.
LEMMA SleepInv ==
  ASSUME ServerInv, CheckEmpty \/ CheckSleep \/ WakeUp
  PROVE  ServerInv'
<1> USE DEF ServerInv, CheckEmpty, CheckSleep, WakeUp, sessionVars, lockVars,
            infoVars, slotVars
<1>1. TypeOK'
  BY ServerAssumption DEF UpdatesRunAlone, TypeOK, ServerAssumption
<1>2. UpdatesRunAlone'
  BY <1>1 DEF UpdatesRunAlone, TypeOK
<1>3. DeadlineInv'
  BY DEF DeadlineInv, UpdatesRunAlone, TypeOK, Registered
<1> QED
  BY <1>2, <1>3

\* An interruption is requested of a registered session, after its deadline or its
\* end.
LEMMA CheckPopInv ==
  ASSUME ServerInv, CheckPop
  PROVE  ServerInv'
<1> USE DEF ServerInv, CheckPop, Request, Expired, timerVars, sessionVars, lockVars,
            infoVars, slotVars
<1>1. TypeOK'
  BY DEF UpdatesRunAlone, TypeOK
<1>2. UpdatesRunAlone'
  BY <1>1 DEF UpdatesRunAlone, TypeOK
<1>3. DeadlineInv'
  BY DEF DeadlineInv, UpdatesRunAlone, TypeOK, Registered
<1> QED
  BY <1>2, <1>3

\* A deadline that has passed stays passed.
LEMMA TickInv ==
  ASSUME ServerInv, Tick
  PROVE  ServerInv'
<1> USE DEF ServerInv, Tick, Less, sessionVars, lockVars,
            infoVars, slotVars
<1>0. left' \in [Sessions -> 0 .. Duration] /\ sleep_left' \in 0 .. Duration
  BY ServerAssumption DEF UpdatesRunAlone, TypeOK, ServerAssumption
<1>1. TypeOK'
  BY <1>0 DEF UpdatesRunAlone, TypeOK
<1>2. UpdatesRunAlone'
  BY <1>1 DEF UpdatesRunAlone, TypeOK
<1>3. DeadlineInv'
  BY DEF DeadlineInv, UpdatesRunAlone, TypeOK, Registered
<1> QED
  BY <1>2, <1>3

\* Every step keeps the invariant.
LEMMA NextInv == ServerInv /\ [Next]_vars => ServerInv'
<1> SUFFICES ASSUME ServerInv, [Next]_vars PROVE ServerInv'
  OBVIOUS
<1>1. ASSUME NEW s \in Sessions,
             \/ \E k \in Kinds : Receive(s, k)
             \/ ReceiveFails(s) \/ LockShared(s) \/ LockUnique(s)
             \/ Complete(s) \/ LogicError(s) \/ Uncaught(s) \/ Disconnect(s)
      PROVE  ServerInv'
  BY <1>1, ReceiveInv, ReceiveFailsInv, LockSharedInv, LockUniqueInv, CompleteInv,
     BrokenOffInv, DisconnectInv
<1>2. ASSUME NEW s \in Sessions, SessionStep(s) PROVE ServerInv'
  BY <1>2, ParseInv, PlanInv, StampInv, PushInv, InsertInv, BrokenOffInv, MessageInv,
     DestroyInv DEF SessionStep
<1>3. CASE TimeoutThread
  BY <1>3, SleepInv, CheckPopInv DEF TimeoutThread
<1>4. CASE Tick
  BY <1>4, TickInv
<1>5. CASE UNCHANGED vars
  BY <1>5 DEF ServerInv, UpdatesRunAlone, TypeOK, DeadlineInv, vars, sessionVars, lockVars,
              infoVars, slotVars, timerVars
<1> QED
  BY <1>1, <1>2, <1>3, <1>4, <1>5 DEF Next

\* The inductive invariant of the sessions.
THEOREM ServerInvariant == Spec => []ServerInv
  BY InitInv, NextInv, PTL DEF Spec

\* An insert runs alone, for any number of sessions, and every way out of a query
\* or an insert gives execution_mutex back (server.cc).
THEOREM UpdatesAlone == Spec => []UpdatesRunAlone
  BY ServerInvariant, PTL DEF ServerInv

\* A client is told "timeout" only when the time of its query was used up, however
\* the timeout thread and the sessions interleave.
THEOREM TimeoutHonest == Spec => []TimeoutIsHonest
<1>1. ServerInv => TimeoutIsHonest
  BY DEF ServerInv, DeadlineInv, TimeoutIsHonest
<1> QED
  BY <1>1, ServerInvariant, PTL

-----------------------------------------------------------------------------
(* The slots of the PathManager.                                            *)

\* begin() moves a slot from the front of the queue to the session.
LEMMA TakeSlot ==
  ASSUME TypeOK, OneOwner, NEW s \in Sessions, thread_paths[s] = None,
         available_index # << >>, BeginPaths(s)
  PROVE  OneOwner' /\ \A u \in Sessions \ {s} : thread_paths'[u] = thread_paths[u]
<1> DEFINE q == available_index
           h == Head(q)
<1>1. /\ q \in Seq(Slots) /\ Len(q) \in Nat \ {0} /\ h = q[1] /\ h \in Slots
      /\ DOMAIN q = 1 .. Len(q)
  BY DEF TypeOK
<1>2. thread_paths' = [thread_paths EXCEPT ![s] = h] /\ available_index' = Tail(q)
  BY DEF BeginPaths, Fronts
<1>3. /\ DOMAIN Tail(q) = 1 .. Len(q) - 1
      /\ \A j \in 1 .. Len(q) - 1 : Tail(q)[j] = q[j + 1]
  BY <1>1
<1>4. \A u \in Sessions : thread_paths[u] # h
  <2>1. \E j \in DOMAIN q : q[j] = h
    BY <1>1
  <2> QED
    BY <1>1, <2>1 DEF OneOwner
<1>5. h # None
  BY <1>1, ServerAssumption DEF Slots, None, ServerAssumption
<1>6. \A u \in Sessions \ {s} : thread_paths'[u] = thread_paths[u]
  BY <1>2 DEF TypeOK
<1>7. thread_paths'[s] = h
  BY <1>2 DEF TypeOK
<1>8. \A u, v \in Sessions :
        thread_paths'[u] = thread_paths'[v] /\ u # v => thread_paths'[u] = None
  <2> TAKE u, v \in Sessions
  <2>1. CASE u = s \/ v = s
    BY <1>4, <1>6, <1>7, <2>1
  <2>2. CASE u # s /\ v # s
    BY <1>6, <2>2 DEF OneOwner
  <2> QED
    BY <2>1, <2>2
<1>9. \A i, j \in DOMAIN available_index' :
        available_index'[i] = available_index'[j] => i = j
  <2> TAKE i, j \in DOMAIN available_index'
  <2>1. /\ i \in 1 .. Len(q) - 1 /\ j \in 1 .. Len(q) - 1
        /\ i + 1 \in DOMAIN q /\ j + 1 \in DOMAIN q
        /\ available_index'[i] = q[i + 1] /\ available_index'[j] = q[j + 1]
    BY <1>1, <1>2, <1>3
  <2>2. q[i + 1] = q[j + 1] => i + 1 = j + 1
    BY <2>1 DEF OneOwner
  <2> QED
    BY <2>1, <2>2
<1>10. ASSUME NEW i \in Slots
       PROVE  (\E j \in DOMAIN available_index' : available_index'[j] = i)
                 <=> \A u \in Sessions : thread_paths'[u] # i
  <2>1. ASSUME NEW j \in DOMAIN available_index', available_index'[j] = i
        PROVE  \A u \in Sessions : thread_paths'[u] # i
    <3>1. /\ j + 1 \in DOMAIN q /\ q[j + 1] = i /\ j + 1 # 1 /\ 1 \in DOMAIN q
      BY <1>1, <1>2, <1>3, <2>1
    <3>2. i # h
      BY <1>1, <3>1 DEF OneOwner
    <3>3. \A u \in Sessions : thread_paths[u] # i
      BY <3>1 DEF OneOwner
    <3> QED
      BY <1>6, <1>7, <3>2, <3>3
  <2>2. ASSUME \A u \in Sessions : thread_paths'[u] # i
        PROVE  \E j \in DOMAIN available_index' : available_index'[j] = i
    <3>1. i # h
      BY <1>7, <2>2
    <3>2. \A u \in Sessions : thread_paths[u] # i
      <4>1. i # None
        BY ServerAssumption DEF Slots, None, ServerAssumption
      <4> QED
        BY <1>6, <2>2, <4>1
    <3>3. PICK j \in DOMAIN q : q[j] = i
      BY <3>2 DEF OneOwner
    <3>4. j - 1 \in DOMAIN available_index' /\ available_index'[j - 1] = i
      BY <1>1, <1>2, <1>3, <3>1, <3>3
    <3> QED
      BY <3>4
  <2> QED
    BY <2>1, <2>2
<1> QED
  BY <1>6, <1>8, <1>9, <1>10 DEF OneOwner

\* ~Return moves the slot of the session, if it has one, to the back of the queue.
LEMMA GiveSlot ==
  ASSUME TypeOK, OneOwner, NEW s \in Sessions, ClearPaths(s)
  PROVE  /\ OneOwner' /\ thread_paths'[s] = None
         /\ \A u \in Sessions \ {s} : thread_paths'[u] = thread_paths[u]
<1> DEFINE q == available_index
           h == thread_paths[s]
           r == Append(q, h)
<1>1. CASE h = None
  <2>1. UNCHANGED <<available_index, thread_paths>>
    BY <1>1 DEF ClearPaths, slotVars
  <2> QED
    BY <1>1, <2>1 DEF OneOwner
<1>2. CASE h # None
  <2>1. /\ q \in Seq(Slots) /\ Len(q) \in Nat /\ DOMAIN q = 1 .. Len(q) /\ h \in Slots
    BY <1>2 DEF TypeOK
  <2>2. available_index' = r /\ thread_paths' = [thread_paths EXCEPT ![s] = None]
    BY <1>2 DEF ClearPaths
  <2>3. /\ DOMAIN r = 1 .. Len(q) + 1 /\ r[Len(q) + 1] = h
        /\ \A j \in 1 .. Len(q) : r[j] = q[j]
    BY <2>1
  <2>4. \A u \in Sessions \ {s} : thread_paths'[u] = thread_paths[u] /\ thread_paths[u] # h
    BY <1>2, <2>2 DEF OneOwner, TypeOK
  <2>5. thread_paths'[s] = None
    BY <2>2 DEF TypeOK
  <2>6. \A j \in 1 .. Len(q) : q[j] # h
    BY <2>1 DEF OneOwner
  <2>7. \A u, v \in Sessions :
          thread_paths'[u] = thread_paths'[v] /\ u # v => thread_paths'[u] = None
    <3> TAKE u, v \in Sessions
    <3>1. CASE u = s \/ v = s
      BY <2>4, <2>5, <3>1
    <3>2. CASE u # s /\ v # s
      BY <2>4, <3>2 DEF OneOwner
    <3> QED
      BY <3>1, <3>2
  <2>8. \A i, j \in DOMAIN available_index' :
          available_index'[i] = available_index'[j] => i = j
    BY <2>1, <2>2, <2>3, <2>6 DEF OneOwner
  <2>9. ASSUME NEW i \in Slots
        PROVE  (\E j \in DOMAIN available_index' : available_index'[j] = i)
                 <=> \A u \in Sessions : thread_paths'[u] # i
    <3>0. i # None
      BY ServerAssumption DEF Slots, None, ServerAssumption
    <3>1. CASE i = h
      <4>1. Len(q) + 1 \in DOMAIN available_index' /\ available_index'[Len(q) + 1] = i
        BY <2>1, <2>2, <2>3, <3>1
      <4>2. \A u \in Sessions : thread_paths'[u] # i
        BY <2>4, <2>5, <3>0, <3>1
      <4> QED
        BY <4>1, <4>2
    <3>2. CASE i # h
      <4>1. (\E j \in DOMAIN available_index' : available_index'[j] = i)
              <=> \E j \in DOMAIN q : q[j] = i
        BY <2>1, <2>2, <2>3, <3>2
      <4>2. (\A u \in Sessions : thread_paths'[u] # i) <=> \A u \in Sessions : thread_paths[u] # i
        BY <2>4, <2>5, <3>0, <3>2
      <4> QED
        BY <4>1, <4>2 DEF OneOwner
    <3> QED
      BY <3>1, <3>2
  <2> QED
    BY <2>4, <2>5, <2>7, <2>8, <2>9 DEF OneOwner
<1> QED
  BY <1>1, <1>2

\* A step that takes and gives no slot, brings no session back to before its
\* plan, finishes no query and chooses no "timeout".
Quiet ==
  /\ UNCHANGED slotVars
  /\ \A u \in Sessions :
       /\ pc'[u] \in Early => pc[u] \in Early
       /\ finished'[u] => finished[u]
       /\ pending'[u] = "timeout" => pending[u] = "timeout"

\* Such a step keeps the slots exact.
LEMMA QuietInv ==
  ASSUME SlotsInv, Quiet
  PROVE  SlotsInv'
<1>1. UNCHANGED <<available_index, thread_paths>>
  BY DEF Quiet, slotVars
<1>2. OneOwner'
  BY <1>1 DEF SlotsInv, OneOwner
<1> QED
  BY <1>1, <1>2 DEF SlotsInv, Quiet

\* The steps of a session that have nothing to do with its plan are quiet.
LEMMA SessionQuiet ==
  ASSUME TypeOK, NEW s \in Sessions,
         \/ \E k \in Kinds : Receive(s, k)
         \/ ReceiveFails(s) \/ LockShared(s) \/ LockUnique(s) \/ Parse(s) \/ Stamp(s)
         \/ Push(s) \/ Insert(s) \/ Message(s) \/ Destroy(s) \/ Disconnect(s)
  PROVE  Quiet
<1> USE DEF Quiet, TypeOK, Early, Goto, At, infoVars
<1>1. ASSUME NEW k \in Kinds, Receive(s, k) PROVE Quiet
  BY <1>1 DEF Receive
<1>2. CASE ReceiveFails(s)
  BY <1>2 DEF ReceiveFails
<1>3. CASE LockShared(s)
  BY <1>3 DEF LockShared
<1>4. CASE LockUnique(s)
  BY <1>4 DEF LockUnique
<1>5. CASE Parse(s)
  <2>1. CASE kind[s] = "bad"
    BY <1>5, <2>1 DEF Parse, Handled
  <2>2. CASE kind[s] # "bad"
    BY <1>5, <2>2 DEF Parse
  <2> QED
    BY <2>1, <2>2
<1>6. CASE Stamp(s)
  BY <1>6 DEF Stamp
<1>7. CASE Push(s)
  BY <1>7 DEF Push
<1>8. CASE Insert(s)
  <2>1. CASE Handled(s, "logic_error")
    BY <1>8, <2>1 DEF Insert, Handled
  <2>2. CASE ~Handled(s, "logic_error")
    BY <1>8, <2>2 DEF Insert
  <2> QED
    BY <2>1, <2>2
<1>9. CASE Message(s)
  <2>1. CASE conn[s] = "up"
    BY <1>9, <2>1 DEF Message
  <2>2. CASE conn[s] # "up"
    BY <1>9, <2>2 DEF Message
  <2> QED
    BY <2>1, <2>2
<1>10. CASE Destroy(s)
  BY <1>10 DEF Destroy
<1>11. CASE Disconnect(s)
  BY <1>11 DEF Disconnect
<1> QED
  BY <1>1, <1>2, <1>3, <1>4, <1>5, <1>6, <1>7, <1>8, <1>9, <1>10, <1>11

\* A query is planned: its slot comes from the queue, and if the exception that has
\* no handler leaves it taken, it is still nobody else's.
LEMMA PlanSlots ==
  ASSUME ServerInv, SlotsInv, SlotsSuffice, NEW s \in Sessions, Plan(s)
  PROVE  SlotsInv'
<1>0. /\ TypeOK /\ OneOwner /\ pc[s] = "plan" /\ thread_paths[s] = None
      /\ available_index # << >> /\ ~finished[s] /\ pending[s] # "timeout"
      /\ UNCHANGED <<infoVars, queue, timerVars, terminated>>
  BY DEF Plan, At, SlotsInv, SlotsSuffice, Early, ServerInv, UpdatesRunAlone, DeadlineInv
<1>1. ASSUME BeginPaths(s), NEW label \in {"stamp", "destroy"}, Goto(s, label),
             UNCHANGED pending
      PROVE  SlotsInv'
  <2>1. OneOwner' /\ \A u \in Sessions \ {s} : thread_paths'[u] = thread_paths[u]
    BY <1>0, <1>1, TakeSlot
  <2> QED
    BY <1>0, <1>1, <2>1 DEF SlotsInv, Early, Goto, infoVars, TypeOK
<1>2. ASSUME UNCHANGED slotVars, Goto(s, "stamp"), UNCHANGED pending
      PROVE  SlotsInv'
  <2>1. Quiet
    BY <1>0, <1>2 DEF Quiet, Early, Goto, infoVars, TypeOK
  <2> QED
    BY <2>1, QuietInv
<1>3. ASSUME NEW code \in {"query_error", "logic_error"}, Handled(s, code), UNCHANGED slotVars
      PROVE  SlotsInv'
  <2>1. Quiet
    BY <1>0, <1>3 DEF Quiet, Early, Goto, Handled, infoVars, TypeOK
  <2> QED
    BY <2>1, QuietInv
<1> QED
  BY <1>1, <1>2, <1>3 DEF Plan

\* The plan is destroyed, whatever ended the execution: the slot is back.
LEMMA EndSlots ==
  ASSUME ServerInv, SlotsInv, NEW s \in Sessions,
         Complete(s) \/ Poll(s) \/ LogicError(s) \/ Uncaught(s) \/ SendFails(s)
  PROVE  SlotsInv'
<1>0. TypeOK /\ OneOwner /\ ClearPaths(s)
  BY DEF ServerInv, UpdatesRunAlone, SlotsInv, Complete, Poll, LogicError, Uncaught, SendFails
<1>1. /\ OneOwner' /\ thread_paths'[s] = None
      /\ \A u \in Sessions \ {s} : thread_paths'[u] = thread_paths[u]
  BY <1>0, GiveSlot
<1>2. \A u \in Sessions \ {s} :
        pc'[u] = pc[u] /\ finished'[u] = finished[u] /\ pending'[u] = pending[u]
  <2> USE <1>0 DEF Goto, Handled, infoVars, TypeOK
  <2>1. CASE Complete(s)
    BY <2>1 DEF Complete
  <2>2. CASE Poll(s)
    BY <2>2 DEF Poll
  <2>3. CASE LogicError(s)
    BY <2>3 DEF LogicError
  <2>4. CASE Uncaught(s)
    BY <2>4 DEF Uncaught
  <2>5. CASE SendFails(s)
    BY <2>5 DEF SendFails
  <2> QED
    BY <2>1, <2>2, <2>3, <2>4, <2>5
<1> QED
  BY <1>1, <1>2 DEF SlotsInv

\* Every step keeps the slots exact when a query that is planned finds one free.
LEMMA SlotsNext == ServerInv /\ SlotsInv /\ SlotsSuffice /\ [Next]_vars => SlotsInv'
<1> SUFFICES ASSUME ServerInv, SlotsInv, SlotsSuffice, [Next]_vars PROVE SlotsInv'
  OBVIOUS
<1>0. TypeOK
  BY DEF ServerInv, UpdatesRunAlone
<1>1. ASSUME NEW s \in Sessions,
             \/ \E k \in Kinds : Receive(s, k)
             \/ ReceiveFails(s) \/ LockShared(s) \/ LockUnique(s)
             \/ Complete(s) \/ LogicError(s) \/ Uncaught(s) \/ Disconnect(s)
      PROVE  SlotsInv'
  BY <1>0, <1>1, SessionQuiet, QuietInv, EndSlots
<1>2. ASSUME NEW s \in Sessions, SessionStep(s) PROVE SlotsInv'
  BY <1>0, <1>2, SessionQuiet, QuietInv, EndSlots, PlanSlots DEF SessionStep
<1>3. CASE TimeoutThread \/ Tick \/ UNCHANGED vars
  <2>1. Quiet
    BY <1>3 DEF TimeoutThread, CheckEmpty, CheckPop, CheckSleep, WakeUp, Tick, vars, Quiet,
                sessionVars, infoVars, slotVars
  <2> QED
    BY <2>1, QuietInv
<1> QED
  BY <1>1, <1>2, <1>3 DEF Next

\* The queue of the constructor has every slot once.
LEMMA SlotsInit == Init => SlotsInv
<1> SUFFICES ASSUME Init PROVE SlotsInv
  OBVIOUS
<1> USE ServerAssumption DEF ServerAssumption, Init
<1>1. /\ DOMAIN available_index = 1 .. MaxThreads
      /\ \A i \in 1 .. MaxThreads : available_index[i] = i - 1
      /\ \A s \in Sessions : thread_paths[s] = None
  OBVIOUS
<1>2. \A i \in Slots : i + 1 \in 1 .. MaxThreads /\ available_index[i + 1] = i /\ i # None
  BY <1>1 DEF Slots, None
<1>3. \A i \in Slots : \E j \in DOMAIN available_index : available_index[j] = i
  BY <1>1, <1>2
<1>4. OneOwner
  <2> HIDE DEF Init
  <2>1. \A i, j \in DOMAIN available_index : available_index[i] = available_index[j] => i = j
    BY <1>1
  <2>2. \A i \in Slots : \A s \in Sessions : thread_paths[s] # i
    BY <1>1, <1>2
  <2> QED
    BY <1>1, <1>3, <2>1, <2>2 DEF OneOwner
<1> QED
  BY <1>1, <1>4 DEF SlotsInv

\* As long as a query that is planned finds a free slot, each slot is free or belongs
\* to one query, and a query that finished or was interrupted gave its slot back.
THEOREM SlotsOwned == Spec /\ []SlotsSuffice => []SlotsExact
<1>1. SlotsInv => SlotsExact
  BY DEF SlotsInv, OneOwner, SlotsExact
<1> QED
  BY <1>1, SlotsInit, SlotsNext, ServerInvariant, PTL DEF Spec

\* The sessions that plan a query or hold a slot, those that lost theirs in an
\* exception of the planner included.
Claimants == {s \in Sessions : pc[s] = "plan" \/ thread_paths[s] # None}

\* Of any number of connections, at most MaxThreads are claimants at the same time.
FewAtOnce == IsFiniteSet(Claimants) /\ Cardinality(Claimants) <= MaxThreads

\* Then a query that is planned finds a free slot: if all were taken, each by
\* another claimant than the one that is planned, there would be fewer claimants
\* than slots.
LEMMA EnoughSlots ==
  ASSUME TypeOK, SlotsInv, FewAtOnce
  PROVE  SlotsSuffice
<1> SUFFICES ASSUME NEW s \in Sessions, pc[s] = "plan", available_index = << >>
             PROVE  FALSE
  BY DEF SlotsSuffice
<1>1. thread_paths[s] = None /\ s \in Claimants
  BY DEF SlotsInv, Early, Claimants
<1>2. \A i \in Slots : \E u \in Sessions : thread_paths[u] = i
  BY DEF SlotsInv, OneOwner
<1>3. \A i \in Slots : i # None
  BY ServerAssumption DEF Slots, None, ServerAssumption
<1>4. \A i \in Slots : \E u \in Claimants : thread_paths[u] = i
  BY <1>2, <1>3 DEF Claimants
<1> DEFINE owner == [i \in Slots |-> CHOOSE u \in Claimants : thread_paths[u] = i]
           T == Claimants \ {s}
<1>5. \A i \in Slots : owner[i] \in T /\ thread_paths[owner[i]] = i
  BY <1>1, <1>3, <1>4
<1>6. owner \in [Slots -> T]
  BY <1>5
<1>7. IsFiniteSet(Slots) /\ Cardinality(Slots) = MaxThreads
  BY FS_Interval, ServerAssumption DEF Slots, ServerAssumption
<1>8. IsFiniteSet(T) /\ Cardinality(T) = Cardinality(Claimants) - 1
  BY <1>1, FS_RemoveElement DEF FewAtOnce
<1>9. Cardinality(Claimants) \in Nat
  BY FS_CardinalityType DEF FewAtOnce
<1>10. Cardinality(T) < Cardinality(Slots)
  BY <1>7, <1>8, <1>9, ServerAssumption DEF ServerAssumption, FewAtOnce
<1>11. \E i, j \in Slots : i # j /\ owner[i] = owner[j]
  <2> HIDE DEF owner, T
  <2> QED
    BY <1>6, <1>7, <1>8, <1>10, FS_PigeonHole
<1> QED
  BY <1>5, <1>11

\* With any number of sessions, over any time, the slots are exact as long as no
\* more than MaxThreads queries claim one at the same moment (PathManager::begin
\* and clear); a session that ended, and did not lose its slot, claims none.
THEOREM SlotsCorrect == Spec /\ []FewAtOnce => []SlotsExact
<1>1. ServerInv /\ SlotsInv /\ FewAtOnce => SlotsSuffice
  BY EnoughSlots DEF ServerInv, UpdatesRunAlone
<1>2. ServerInv /\ SlotsInv /\ FewAtOnce /\ [Next]_vars => SlotsInv'
  BY <1>1, SlotsNext
<1>3. SlotsInv => SlotsExact
  BY DEF SlotsInv, OneOwner, SlotsExact
<1> QED
  BY <1>2, <1>3, SlotsInit, ServerInvariant, PTL DEF Spec
=============================================================================

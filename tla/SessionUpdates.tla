--------------------------- MODULE SessionUpdates ---------------------------
(* Theorems about the coalesced updates of the session, for any callers,      *)
(* calls, keys and bounds: every update is answered by someone, one that was  *)
(* superseded is never written, an open session has a writer, and the queue   *)
(* with its writer task implements LatestWins.                                *)
EXTENDS SessionProofs

-----------------------------------------------------------------------------
(* Sequences without repetitions *)

LEMMA AppendDistinct ==
    ASSUME NEW S, NEW s \in Seq(S), NEW e \in S, IsInjective(s), e \notin Elements(s)
    PROVE  /\ IsInjective(Append(s, e))
           /\ Elements(Append(s, e)) = Elements(s) \cup {e}
<1> DEFINE t == Append(s, e)
<1>1. /\ DOMAIN t = 1 .. Len(s) + 1 /\ DOMAIN s = 1 .. Len(s) /\ Len(s) \in Nat
      /\ \A i \in 1 .. Len(s) : t[i] = s[i]
      /\ t[Len(s) + 1] = e
  OBVIOUS
<1> HIDE DEF t
<1>2. IsInjective(t)
  BY <1>1 DEF IsInjective, Elements
<1>3. Elements(t) = Elements(s) \cup {e}
  BY <1>1 DEF Elements
<1> QED
  BY <1>2, <1>3 DEF t

LEMMA TailDistinct ==
    ASSUME NEW S, NEW s \in Seq(S), IsInjective(s), s # <<>>
    PROVE  /\ IsInjective(Tail(s))
           /\ Head(s) \in Elements(s)
           /\ Elements(Tail(s)) = Elements(s) \ {Head(s)}
<1>1. /\ DOMAIN Tail(s) = 1 .. Len(s) - 1 /\ DOMAIN s = 1 .. Len(s)
      /\ Len(s) \in Nat /\ Len(s) > 0 /\ Head(s) = s[1]
      /\ \A i \in 1 .. Len(s) - 1 : Tail(s)[i] = s[i + 1]
  OBVIOUS
<1>2. \A i \in 1 .. Len(s) : i # 1 => i - 1 \in 1 .. Len(s) - 1 /\ Tail(s)[i - 1] = s[i]
  BY <1>1
<1>3. \A i \in 1 .. Len(s) - 1 : i + 1 \in 1 .. Len(s) /\ i + 1 # 1
  BY <1>1
<1>4. IsInjective(Tail(s))
  BY <1>1, <1>3 DEF IsInjective
<1>5. \A e \in Elements(Tail(s)) : e \in Elements(s) /\ e # Head(s)
  BY <1>1, <1>3 DEF IsInjective, Elements
<1>6. \A e \in Elements(s) : e # Head(s) => e \in Elements(Tail(s))
  <2> SUFFICES ASSUME NEW k \in 1 .. Len(s), s[k] # Head(s)
               PROVE  s[k] \in Elements(Tail(s))
    BY <1>1 DEF Elements
  <2>1. k - 1 \in DOMAIN Tail(s) /\ Tail(s)[k - 1] = s[k]
    BY <1>1, <1>2
  <2> QED
    BY <2>1 DEF Elements
<1>7. Head(s) \in Elements(s)
  BY <1>1 DEF Elements
<1> QED
  BY <1>4, <1>5, <1>6, <1>7

LEMMA WithoutDistinct ==
    ASSUME NEW S, NEW s \in Seq(S), NEW e, IsInjective(s)
    PROVE  /\ IsInjective(Without(s, e))
           /\ Elements(Without(s, e)) = Elements(s) \ {e}
<1>1. CASE e \notin Elements(s)
  BY <1>1 DEF Without
<1>2. CASE e \in Elements(s)
  <2> DEFINE i == CHOOSE k \in DOMAIN s : s[k] = e
             r == RemoveAt(s, i)
  <2>1. i \in 1 .. Len(s) /\ s[i] = e
    BY <1>2 DEF Elements
  <2>2. Without(s, e) = r
    BY <1>2 DEF Without
  <2> HIDE DEF i
  <2>3. /\ DOMAIN r = 1 .. Len(s) - 1 /\ DOMAIN s = 1 .. Len(s) /\ Len(s) \in Nat
        /\ \A j \in 1 .. Len(s) - 1 : r[j] = IF j < i THEN s[j] ELSE s[j + 1]
    BY <2>1, RemoveAtItems
  <2> HIDE DEF r
  <2> DEFINE from(j) == IF j < i THEN j ELSE j + 1
  <2>4. \A j \in 1 .. Len(s) - 1 : from(j) \in 1 .. Len(s) /\ from(j) # i /\ r[j] = s[from(j)]
    BY <2>1, <2>3
  <2>5. \A j, k \in 1 .. Len(s) - 1 : from(j) = from(k) => j = k
    BY <2>1
  <2>6. \A k \in 1 .. Len(s) : k # i => \E j \in 1 .. Len(s) - 1 : r[j] = s[k]
    <3> SUFFICES ASSUME NEW k \in 1 .. Len(s), k # i
                 PROVE  \E j \in 1 .. Len(s) - 1 : r[j] = s[k]
      OBVIOUS
    <3>1. CASE k < i
      BY <2>1, <2>3, <3>1
    <3>2. CASE k > i
      <4>1. k - 1 \in 1 .. Len(s) - 1 /\ r[k - 1] = s[k]
        BY <2>1, <2>3, <3>2
      <4> QED
        BY <4>1
    <3> QED
      BY <2>1, <3>1, <3>2
  <2> HIDE DEF from
  <2>7. IsInjective(r)
    BY <2>3, <2>4, <2>5 DEF IsInjective
  <2>8. \A d \in Elements(r) : d \in Elements(s) /\ d # e
    BY <2>1, <2>3, <2>4 DEF IsInjective, Elements
  <2>9. \A d \in Elements(s) : d # e => d \in Elements(r)
    <3> SUFFICES ASSUME NEW k \in 1 .. Len(s), s[k] # e PROVE s[k] \in Elements(r)
      BY <2>3 DEF Elements
    <3>1. PICK j \in 1 .. Len(s) - 1 : r[j] = s[k]
      BY <2>1, <2>6
    <3> QED
      BY <2>3, <3>1 DEF Elements
  <2> QED
    BY <2>2, <2>7, <2>8, <2>9
<1> QED
  BY <1>1, <1>2

-----------------------------------------------------------------------------
(* The writer task of an open session runs.  It ends when it is cancelled: by  *)
(* close(), or with the write of a caller that was cancelled.  The second needs *)
(* a caller that writes without the transaction lock: otherwise the one task    *)
(* that waits in _drain() is the holder of the lock.                            *)

Writing == {"stalled", "drained", "cut", "snapped", "await"}

DirectWrites == \E call \in Calls : call.kind = "write"

WriterInv ==
    /\ ConnectionOwner
    /\ lifecycle \in Closing => closed
    /\ pc[Writer] = "cut" => severed \/ lifecycle = "await_writer"
    /\ pc[Writer] = "done" => closed \/ severed
    /\ severed => DirectWrites
    /\ ~DirectWrites => \A a \in Actors : pc[a] \in Writing => lock = a

LEMMA ReturnKeepsWriter ==
    ASSUME TypeOK, WriterInv, NEW a \in Actors, NEW how, Return(a, how), UNCHANGED lock,
           a = Writer => how # "cancelled" \/ closed,
           UNCHANGED <<session, transport, lifecycle, severed>>
    PROVE  WriterInv'
BY DEF Return, WriterInv, ConnectionOwner, DirectWrites, Writing, Closing, TypeOK, TaskTypes,
       session

LEMMA FinishKeepsWriter ==
    ASSUME TypeOK, WriterInv, NEW a \in Actors, NEW how, Finish(a, how),
           pc[a] \in Writing \cup {"reading"},
           a = Writer => how # "cancelled" \/ closed \/ severed,
           UNCHANGED <<session, transport, lifecycle, severed>>
    PROVE  WriterInv'
BY DEF Finish, Return, Release, WriterInv, ConnectionOwner, DirectWrites, Writing, Closing,
       TypeOK, TaskTypes, session

\* Only close() cancels the writer task, and only a task that writes without the
\* lock cuts the write of another.
LEMMA CancelKeepsWriter ==
    ASSUME TypeOK, WriterInv, NEW a \in Actors, CancelTask(a), UNCHANGED <<session, transport>>,
           IF a = Writer
           THEN lifecycle = "cancel_writer" /\ lifecycle' = "await_writer" /\ UNCHANGED severed
           ELSE /\ UNCHANGED lifecycle
                /\ severed' = (severed \/ (pc[a] = "stalled" /\ pc[Writer] = "stalled"))
    PROVE  WriterInv'
<1> USE DEF WriterInv, ConnectionOwner, DirectWrites, Writing, Closing, TypeOK, TaskTypes, session
<1>0. Writer \in Actors
  BY DEF Actors
<1>1. CASE pc[a] = "lock" /\ Return(a, "cancelled") /\ UNCHANGED lock
  <2>1. a = Writer => closed
    OBVIOUS
  <2>2. UNCHANGED severed
    BY <1>1 DEF FlagTypes
  <2>3. pc' = [pc EXCEPT ![a] = IF a = Writer THEN "done" ELSE "idle"]
    BY <1>1 DEF Return
  <2> QED
    BY <1>0, <1>1, <2>1, <2>2, <2>3
<1>2. CASE /\ pc[a] = "stalled" /\ UNCHANGED locking
           /\ pc' = [b \in Actors |-> IF pc[b] = "stalled" THEN "cut" ELSE pc[b]]
  <2>2. a # Writer /\ pc[Writer] = "stalled" => DirectWrites
    BY <1>0, <1>2
  <2>3. ConnectionOwner' /\ (lifecycle' \in Closing => closed')
    BY <1>2
  <2>4. \A b \in Actors : pc'[b] \in Writing => pc[b] \in Writing
    BY <1>2
  <2>5. pc'[Writer] = "cut" => pc[Writer] \in {"stalled", "cut"}
    BY <1>0, <1>2
  <2>6. pc'[Writer] = "done" => pc[Writer] = "done"
    BY <1>0, <1>2
  <2> QED
    BY <1>0, <1>2, <2>2, <2>3, <2>4, <2>5, <2>6 DEF locking
<1>3. CASE pc[a] \in {"drained", "snapped", "cut", "await", "reading"} /\ Finish(a, "cancelled")
  <2>1. a = Writer => closed
    OBVIOUS
  <2>2. UNCHANGED severed
    BY <1>3 DEF FlagTypes
  <2>3. /\ pc' = [pc EXCEPT ![a] = IF a = Writer THEN "done" ELSE "idle"]
        /\ lock' = IF lock = a THEN Nobody ELSE lock
    BY <1>3 DEF Finish, Return, Release
  <2> QED
    BY <1>0, <1>3, <2>1, <2>2, <2>3
<1>4. CASE pc[a] = "queued" /\ pc' = [pc EXCEPT ![a] = "idle"] /\ UNCHANGED locking
  <2>1. a # Writer
    BY <1>4 DEF PointsOf
  <2>2. UNCHANGED <<severed, lock>>
    BY <1>4, <2>1 DEF locking, FlagTypes
  <2> QED
    BY <1>0, <1>4, <2>1, <2>2
<1> QED
  BY <1>1, <1>2, <1>3, <1>4 DEF CancelTask

\* Steps that leave the lock alone move tasks between the points of a write, or
\* between points that are not of a write.
LEMMA MovesKeepWriter ==
    ASSUME TypeOK, WriterInv, UNCHANGED lock, ConnectionOwner',
           lifecycle' \in Closing => closed',
           \A a \in Actors : pc'[a] \in Writing => pc[a] \in Writing,
           severed' => severed,
           pc'[Writer] = "cut" => severed' \/ lifecycle' = "await_writer",
           pc'[Writer] = "done" => closed' \/ severed'
    PROVE  WriterInv'
BY DEF WriterInv, DirectWrites

LEMMA WriterInvInit == Init => WriterInv
BY ActorAssumption DEF Init, WriterInv, ConnectionOwner, DirectWrites, Writing, Closing, Actors

LEMMA WriterInvNext == TypeOK /\ WriterInv /\ [Next]_vars => WriterInv'
<1> SUFFICES ASSUME TypeOK, WriterInv, [Next]_vars PROVE WriterInv'
  OBVIOUS
<1>0. Writer \in Actors /\ Callers \subseteq Actors /\ Writer \notin Callers
  BY ActorAssumption DEF Actors
<1>1. ASSUME NEW c \in Callers, Call(c) PROVE WriterInv'
  <2>1. CASE \E call \in Calls : WriteMessage(c, call)
    <3>1. DirectWrites /\ pc'[Writer] = pc[Writer]
      BY <1>0, <2>1 DEF WriteMessage, Return, DirectWrites, TypeOK, TaskTypes
    <3>2. UNCHANGED <<session, lifecycle, transport, severed>>
      BY <2>1 DEF WriteMessage
    <3> QED
      BY <3>1, <3>2 DEF WriterInv, DirectWrites, ConnectionOwner, session
  <2>2. CASE \E how : Return(c, how) /\ UNCHANGED <<session, link, locking, severed>>
    BY <1>0, <2>2, ReturnKeepsWriter DEF link, locking
  <2>3. CASE /\ \E point \in {"lock", "queued", "reading"} : pc' = [pc EXCEPT ![c] = point]
             /\ UNCHANGED <<session, link, lock, severed>>
    BY <1>0, <2>3, MovesKeepWriter
       DEF session, link, Writing, WriterInv, ConnectionOwner, TypeOK, TaskTypes
  <2> QED
    BY <1>1, <2>1, <2>2, <2>3 DEF Call, CallLocked, CoalescedUpdate, CallRead, locking
<1>2. ASSUME NEW c \in Callers, Cancel(c) PROVE WriterInv'
  BY <1>0, <1>2, CancelKeepsWriter DEF Cancel, link
<1>3. ASSUME NEW c \in Callers, CoalescedResult(c) \/ Read(c) PROVE WriterInv'
  BY <1>0, <1>3, ReturnKeepsWriter DEF CoalescedResult, Read, link, locking
<1>4. ASSUME NEW a \in Actors, AcquireFails(a) PROVE WriterInv'
  BY <1>4, ReturnKeepsWriter DEF AcquireFails, link
<1>5. ASSUME NEW a \in Actors, Acquire(a) PROVE WriterInv'
  <2>1. CASE paused' \/ AwaitsResponse(a)
    BY <1>0, <1>5, <2>1, ActorAssumption
       DEF Acquire, WriterInv, ConnectionOwner, DirectWrites, Writing, TypeOK, TaskTypes, session
  <2>2. CASE ~(paused' \/ AwaitsResponse(a))
    BY <1>5, <2>2, ReturnKeepsWriter DEF Acquire
  <2> QED
    BY <2>1, <2>2
<1>6. ASSUME NEW a \in Actors, Drained(a) PROVE WriterInv'
  <2>1. CASE AwaitsResponse(a)
    BY <1>0, <1>6, <2>1, MovesKeepWriter
       DEF Drained, session, link, Writing, WriterInv, ConnectionOwner, TypeOK, TaskTypes
  <2>2. CASE ~AwaitsResponse(a)
    BY <1>6, <2>2, FinishKeepsWriter DEF Drained, link, Writing
  <2> QED
    BY <2>1, <2>2
<1>7. ASSUME NEW a \in Actors, WriteRaises(a) PROVE WriterInv'
  BY <1>7, FinishKeepsWriter DEF WriteRaises, link, Writing, WriterInv, Closing
<1>8. ASSUME NEW a \in Actors, Resume(a) \/ Timeout(a) PROVE WriterInv'
  BY <1>8, FinishKeepsWriter DEF Resume, Timeout, link, Writing
<1>9. CASE PopUpdate \/ WriterExits
  BY <1>0, <1>9, MovesKeepWriter
     DEF PopUpdate, WriterExits, session, link, locking, Writing, WriterInv, ConnectionOwner,
         TypeOK, TaskTypes
<1>10. CASE ResumeWriting \/ ConnectionLost \/ ConnectionClosed
  BY <1>0, <1>10, MovesKeepWriter
     DEF ResumeWriting, ConnectionLost, ConnectionClosed, SnapWrites, session, locking, Writing,
         WriterInv, ConnectionOwner, Closing, TypeOK, TaskTypes
<1>11. CASE ReaderFails
  BY <1>11, MovesKeepWriter
     DEF ReaderFails, _set_reader_error, link, locking, tasks, WriterInv, ConnectionOwner
<1>12. ASSUME NEW m \in Methods \cup {Malformed, Foreign}, Receive(m) PROVE WriterInv'
  BY <1>12, MovesKeepWriter
     DEF Receive, _set_reader_error, session, link, locking, tasks, WriterInv, ConnectionOwner
<1>13. ASSUME NEW s \in Subscribers,
              \/ \E replay_backlog \in BOOLEAN : Subscribe(s, replay_backlog)
              \/ NextReport(s)
              \/ CloseSubscription(s)
       PROVE  WriterInv'
  BY <1>13, MovesKeepWriter
     DEF Subscribe, NextReport, CloseSubscription, session, link, locking, tasks,
         WriterInv, ConnectionOwner
<1>14. CASE Open \/ Close \/ Opened
  <2>1. lifecycle # "await_writer" /\ UNCHANGED lock
    BY <1>14 DEF Open, Close, Opened, locking
  <2>2. CASE SessionUp /\ lifecycle' = "idle" /\ ConnectionOwner'
    BY <1>0, <2>1, <2>2, MovesKeepWriter
       DEF SessionUp, Writing, Closing, WriterInv, TypeOK, TaskTypes
  <2>3. CASE UNCHANGED <<pc, severed>> /\ (closed => closed') /\ ConnectionOwner'
              /\ (lifecycle' \in Closing => closed')
    BY <1>0, <2>1, <2>3, MovesKeepWriter DEF WriterInv
  <2>4. CASE Close
    BY <2>3, <2>4 DEF Close, tasks, WriterInv, ConnectionOwner, Closing
  <2>5. CASE Open \/ Opened
    BY <2>2, <2>3, <2>5 DEF Open, Opened, session, WriterInv, ConnectionOwner, Closing
  <2> QED
    BY <1>14, <2>4, <2>5
<1>15. CASE CancelWriter
  <2>1. CASE CancelTask(Writer)
    BY <1>0, <1>15, <2>1, CancelKeepsWriter DEF CancelWriter
  <2>2. CASE pc' = [pc EXCEPT ![Writer] = "done"] /\ UNCHANGED locking
    BY <1>0, <1>15, <2>2, MovesKeepWriter
       DEF CancelWriter, session, locking, Writing, WriterInv, ConnectionOwner, Closing,
           TypeOK, TaskTypes
  <2> QED
    BY <1>15, <2>1, <2>2 DEF CancelWriter
<1>16. CASE CloseSession
  BY <1>16, MovesKeepWriter
     DEF CloseSession, session, locking, tasks, WriterInv, ConnectionOwner, Closing
<1>17. CASE UNCHANGED vars
  BY <1>17, MovesKeepWriter
     DEF vars, session, link, locking, tasks, WriterInv, ConnectionOwner
<1> QED
  BY <1>1, <1>2, <1>3, <1>4, <1>5, <1>6, <1>7, <1>8, <1>9, <1>10, <1>11, <1>12,
     <1>13, <1>14, <1>15, <1>16, <1>17 DEF Next, Step, LifecycleStep

\* An open session that has updates queued has a writer task, whatever was
\* cancelled, lost, closed or reopened before, unless a caller that was cancelled
\* while it waited to write has cut the writer's write since the task was started;
\* and where no caller writes without the transaction lock that never happens
\* (session.py:167-186, 188-214, 433-463, transport.py:172-178).
THEOREM QueueIsServed == Spec => [](WriterServes /\ (severed => DirectWrites))
<1>1. WriterInv => WriterServes /\ (severed => DirectWrites)
  BY DEF WriterInv, WriterServes, WriterSevered
<1> QED
  BY <1>1, WriterInvInit, WriterInvNext, TypeCorrect, PTL DEF Spec

-----------------------------------------------------------------------------
(* The tasks queued on the transaction lock are suspended there, each once: a  *)
(* task that was cancelled has left, and the one that gets the lock wants it.  *)

WaitersInv ==
    /\ IsInjective(lock_waiters)
    /\ \A a \in Elements(lock_waiters) : pc[a] = "lock"

\* A step that leaves the waiters alone does not wake them either.
LEMMA KeepsWaiters ==
    ASSUME WaitersInv, UNCHANGED lock_waiters,
           \A a \in Elements(lock_waiters) : pc[a] = "lock" => pc'[a] = "lock"
    PROVE  WaitersInv'
BY DEF WaitersInv, Elements

LEMMA WaiterTypes ==
    ASSUME TypeOK
    PROVE  lock_waiters \in Seq(Actors) /\ Elements(lock_waiters) \subseteq Actors
<1>1. lock_waiters \in Seq(Actors)
  BY DEF TypeOK, TaskTypes
<1> QED
  BY <1>1 DEF Elements

\* A task joins the end of the line.
LEMMA JoinKeepsWaiters ==
    ASSUME TypeOK, WaitersInv, NEW a \in Actors, pc[a] # "lock",
           lock_waiters' = Append(lock_waiters, a), pc' = [pc EXCEPT ![a] = "lock"]
    PROVE  WaitersInv'
<1>1. a \notin Elements(lock_waiters)
  BY DEF WaitersInv
<1>2. /\ IsInjective(Append(lock_waiters, a))
      /\ Elements(Append(lock_waiters, a)) = Elements(lock_waiters) \cup {a}
  BY <1>1, WaiterTypes, AppendDistinct DEF WaitersInv
<1>3. \A b \in Elements(lock_waiters) \cup {a} : pc'[b] = "lock"
  BY WaiterTypes DEF WaitersInv, TypeOK, TaskTypes
<1> QED
  BY <1>2, <1>3 DEF WaitersInv, Elements

\* The first task gets the lock, and is suspended there when it does.
LEMMA LeaveKeepsWaiters ==
    ASSUME TypeOK, WaitersInv, NEW a \in Actors,
           lock_waiters # <<>>, Head(lock_waiters) = a, lock_waiters' = Tail(lock_waiters),
           \A b \in Actors : b # a => pc'[b] = pc[b]
    PROVE  pc[a] = "lock" /\ WaitersInv'
<1>1. /\ IsInjective(Tail(lock_waiters)) /\ a \in Elements(lock_waiters)
      /\ Elements(Tail(lock_waiters)) = Elements(lock_waiters) \ {a}
  BY WaiterTypes, TailDistinct DEF WaitersInv
<1>2. \A b \in Elements(lock_waiters) \ {a} : pc'[b] = "lock"
  BY WaiterTypes DEF WaitersInv
<1> QED
  BY <1>1, <1>2 DEF WaitersInv, Elements

LEMMA CancelKeepsWaiters ==
    ASSUME TypeOK, WaitersInv, NEW a \in Actors, CancelTask(a)
    PROVE  WaitersInv'
<1>1. CASE lock_waiters' = Without(lock_waiters, a) /\ Return(a, "cancelled")
  <2>1. /\ IsInjective(Without(lock_waiters, a))
        /\ Elements(Without(lock_waiters, a)) = Elements(lock_waiters) \ {a}
    BY WaiterTypes, WithoutDistinct DEF WaitersInv
  <2>2. \A b \in Elements(lock_waiters) \ {a} : pc'[b] = "lock"
    BY <1>1, WaiterTypes DEF Return, WaitersInv, TypeOK, TaskTypes
  <2> QED
    BY <1>1, <2>1, <2>2 DEF WaitersInv, Elements
<1>2. CASE /\ pc' = [b \in Actors |-> IF pc[b] = "stalled" THEN "cut" ELSE pc[b]]
           /\ UNCHANGED locking
  BY <1>2, WaiterTypes, KeepsWaiters DEF locking
<1>3. CASE /\ pc[a] # "lock" /\ UNCHANGED lock_waiters
           /\ \E point : pc' = [pc EXCEPT ![a] = point]
  BY <1>3, WaiterTypes, KeepsWaiters DEF TypeOK, TaskTypes
<1> QED
  BY <1>1, <1>2, <1>3 DEF CancelTask, Finish, Return, locking

LEMMA WaitersInvInit == Init => WaitersInv
BY DEF Init, WaitersInv, IsInjective, Elements

LEMMA WaitersInvNext == TypeOK /\ WaitersInv /\ [Next]_vars => WaitersInv'
<1> SUFFICES ASSUME TypeOK, WaitersInv, [Next]_vars PROVE WaitersInv'
  OBVIOUS
<1>0. Writer \in Actors /\ Callers \subseteq Actors
  BY DEF Actors
<1> DEFINE OneMoves == \E a \in Actors : \E point :
                          pc[a] # "lock" /\ pc' = [pc EXCEPT ![a] = point]
<1>a. ASSUME OneMoves \/ UNCHANGED pc, UNCHANGED lock_waiters PROVE WaitersInv'
  BY <1>a, WaiterTypes, KeepsWaiters DEF TypeOK, TaskTypes
<1>1. ASSUME NEW c \in Callers, Call(c) PROVE WaitersInv'
  <2>1. CASE \E call \in Calls : CallLocked(c, call)
    BY <1>0, <2>1, JoinKeepsWaiters DEF CallLocked
  <2>2. CASE \E call \in Calls : WriteMessage(c, call) \/ CoalescedUpdate(c, call)
                                  \/ CallRead(c, call)
    BY <1>0, <1>a, <2>2 DEF WriteMessage, CoalescedUpdate, CallRead, Return, locking
  <2> QED
    BY <1>1, <2>1, <2>2 DEF Call
<1>2. ASSUME NEW c \in Callers, Cancel(c) PROVE WaitersInv'
  BY <1>0, <1>2, CancelKeepsWaiters DEF Cancel
<1>3. ASSUME NEW c \in Callers, CoalescedResult(c) \/ Read(c) PROVE WaitersInv'
  BY <1>0, <1>3, <1>a DEF CoalescedResult, Read, Return, locking
<1>4. ASSUME NEW a \in Actors, AcquireFails(a) \/ Acquire(a) PROVE WaitersInv'
  BY <1>4, LeaveKeepsWaiters DEF AcquireFails, Acquire, Return, TypeOK, TaskTypes
<1>5. ASSUME NEW a \in Actors, Drained(a) \/ WriteRaises(a) \/ Resume(a) \/ Timeout(a)
      PROVE  WaitersInv'
  BY <1>5, <1>a DEF Drained, WriteRaises, Resume, Timeout, Finish, Return
<1>6. CASE PopUpdate
  BY <1>0, <1>6, JoinKeepsWaiters DEF PopUpdate
<1>7. CASE WriterExits
  BY <1>0, <1>7, <1>a DEF WriterExits, locking
<1>8. CASE ResumeWriting \/ ConnectionLost \/ ConnectionClosed
  BY <1>8, WaiterTypes, KeepsWaiters
     DEF ResumeWriting, ConnectionLost, ConnectionClosed, SnapWrites, locking
<1>9. CASE ReaderFails \/ CloseSession
  BY <1>9, <1>a DEF ReaderFails, CloseSession, locking, tasks
<1>10. ASSUME NEW m \in Methods \cup {Malformed, Foreign}, Receive(m) PROVE WaitersInv'
  BY <1>10, <1>a DEF Receive, locking, tasks
<1>11. ASSUME NEW s \in Subscribers,
              \/ \E replay_backlog \in BOOLEAN : Subscribe(s, replay_backlog)
              \/ NextReport(s)
              \/ CloseSubscription(s)
       PROVE  WaitersInv'
  BY <1>11, <1>a DEF Subscribe, NextReport, CloseSubscription, locking, tasks
<1>12. CASE Open \/ Close \/ Opened
  BY <1>12, WaiterTypes, KeepsWaiters
     DEF Open, Close, Opened, SessionUp, locking, tasks, TypeOK, TaskTypes
<1>13. CASE CancelWriter
  BY <1>0, <1>13, <1>a, CancelKeepsWaiters DEF CancelWriter, locking
<1>14. CASE UNCHANGED vars
  BY <1>14, <1>a DEF vars, locking, tasks
<1> QED
  BY <1>1, <1>2, <1>3, <1>4, <1>5, <1>6, <1>7, <1>8, <1>9, <1>10, <1>11, <1>12,
     <1>13, <1>14 DEF Next, Step, LifecycleStep

-----------------------------------------------------------------------------
(* What any step does to the queue, the updates' futures and the writer task:  *)
(* one of seven things.  The invariant and the refinement are about these.     *)

\* The writer executes the update ticket[Writer].
Executing == pc[Writer] \notin {"idle", "done"}

WriterRests ==
    /\ ticket'[Writer] = ticket[Writer]
    /\ Executing' = Executing /\ (pc'[Writer] = "lock" <=> pc[Writer] = "lock")

QueueRests == WriterRests /\ UNCHANGED <<coalesced_updates, updates, sent>>

QueueSubmits(call) ==
    /\ WriterRests /\ UNCHANGED sent
    /\ coalesced_updates' =
            Enqueue(Len(updates) + 1, Previous(call.key) \cap Elements(coalesced_updates))
    /\ updates' = Append(Resolved(Previous(call.key), "superseded"),
                         [call |-> call, result |-> "waiting"])

QueueWithdraws(u) ==
    /\ WriterRests /\ UNCHANGED sent
    /\ coalesced_updates' = Without(coalesced_updates, u)
    /\ updates' = Resolved({u}, "cancelled")

QueueFails == WriterRests /\ UNCHANGED sent /\ _fail_coalesced_updates

WriterResults == {"ok", "timeout", "error", "cancelled"}

\* The writer ends an update, written or not.
WriterReturns(how) ==
    /\ Executing /\ ~Executing'
    /\ updates' = Resolved({ticket[Writer]}, how)
    /\ UNCHANGED <<coalesced_updates, sent>>

\* The writer, which has the lock now, writes the update, and may be done.
WriterSends ==
    /\ pc[Writer] = "lock" /\ pc'[Writer] # "lock"
    /\ sent' = sent \cup {ticket[Writer]} /\ UNCHANGED coalesced_updates
    /\ \/ Executing' /\ UNCHANGED updates /\ ticket'[Writer] = ticket[Writer]
       \/ ~Executing' /\ updates' = Resolved({ticket[Writer]}, "ok")

QueueStep ==
    \/ QueueRests \/ QueueFails \/ PopUpdate \/ WriterSends
    \/ \E call \in Calls : QueueSubmits(call)
    \/ \E u : QueueWithdraws(u)
    \/ \E how \in WriterResults : WriterReturns(how)

LEMMA ReturnIsQueueStep ==
    ASSUME TypeOK, NEW a \in Actors, NEW how, Return(a, how),
           a = Writer => Executing /\ how \in WriterResults,
           UNCHANGED <<coalesced_updates, sent>>
    PROVE  QueueStep
<1>1. CASE a = Writer
  <2>1. WriterReturns(how)
    BY <1>1 DEF Return, WriterReturns, Executing, TypeOK, TaskTypes
  <2> QED
    BY <1>1, <2>1 DEF QueueStep
<1>2. CASE a # Writer
  BY <1>2 DEF Return, QueueStep, QueueRests, WriterRests, Executing, TypeOK, TaskTypes,
              UpdateTypes, Actors
<1> QED
  BY <1>1, <1>2

LEMMA CancelIsQueueStep ==
    ASSUME TypeOK, NEW a \in Actors, CancelTask(a), UNCHANGED sent
    PROVE  QueueStep
<1>1. CASE /\ Return(a, "cancelled") /\ UNCHANGED coalesced_updates
           /\ pc[a] \in Writing \cup {"lock", "reading"}
  BY <1>1, ReturnIsQueueStep DEF Executing, WriterResults, Writing
<1>2. CASE /\ pc' = [b \in Actors |-> IF pc[b] = "stalled" THEN "cut" ELSE pc[b]]
           /\ UNCHANGED <<ticket, coalesced_updates, updates>>
  BY <1>2 DEF QueueStep, QueueRests, WriterRests, Executing, Actors
<1>3. CASE /\ pc[a] = "queued" /\ pc' = [pc EXCEPT ![a] = "idle"]
           /\ coalesced_updates' = Without(coalesced_updates, ticket[a])
           /\ updates' = Resolved({ticket[a]}, "cancelled")
           /\ ticket' = [ticket EXCEPT ![a] = 0]
  <2>1. a # Writer /\ Writer \in Actors
    BY <1>3 DEF TypeOK, TaskTypes, PointsOf, Actors
  <2>2. QueueWithdraws(ticket[a])
    BY <1>3, <2>1 DEF QueueWithdraws, WriterRests, Executing, TypeOK, TaskTypes, UpdateTypes
  <2> QED
    BY <2>2 DEF QueueStep
<1> QED
  BY <1>1, <1>2, <1>3 DEF CancelTask, Finish, Writing

LEMMA MoveIsQueueStep ==
    ASSUME TypeOK, UNCHANGED <<ticket, coalescing>>,
           Executing' = Executing, pc'[Writer] = "lock" <=> pc[Writer] = "lock"
    PROVE  QueueStep
BY DEF QueueStep, QueueRests, WriterRests, coalescing

LEMMA AcquireIsQueueStep ==
    ASSUME TypeOK, WaitersInv, NEW a \in Actors, Acquire(a)
    PROVE  QueueStep
<1>1. pc[a] = "lock"
  BY WaiterTypes, TailDistinct DEF Acquire, WaitersInv
<1>2. CASE a = Writer
  <2>1. WriterSends
    BY <1>1, <1>2 DEF Acquire, Return, WriterSends, Executing, TypeOK, TaskTypes
  <2> QED
    BY <2>1 DEF QueueStep
<1>3. CASE a # Writer
  BY <1>3 DEF Acquire, Return, QueueStep, QueueRests, WriterRests, Executing, TypeOK, TaskTypes,
              UpdateTypes, Actors
<1> QED
  BY <1>2, <1>3

LEMMA CallIsQueueStep ==
    ASSUME TypeOK, NEW c \in Callers, NEW call \in Calls,
           \/ CallLocked(c, call) \/ WriteMessage(c, call)
           \/ CoalescedUpdate(c, call) \/ CallRead(c, call)
    PROVE  QueueStep
<1>1. c \in Actors /\ Writer \in Actors /\ c # Writer
  BY ActorAssumption DEF Actors
<1>2. CASE \E point : pc' = [pc EXCEPT ![c] = point] /\ UNCHANGED <<ticket, coalescing>>
  BY <1>1, <1>2, MoveIsQueueStep DEF Executing, TypeOK, TaskTypes
<1>3. CASE \E how : Return(c, how) /\ UNCHANGED <<coalesced_updates, sent>>
  BY <1>1, <1>3, ReturnIsQueueStep
<1>4. CASE CoalescedUpdate(c, call) /\ ~Unavailable
  <2>1. QueueSubmits(call)
    BY <1>1, <1>4
       DEF CoalescedUpdate, QueueSubmits, WriterRests, Executing, TypeOK, TaskTypes, UpdateTypes
  <2> QED
    BY <2>1 DEF QueueStep
<1>5. CASE CoalescedUpdate(c, call) /\ Unavailable
  BY <1>3, <1>5 DEF CoalescedUpdate
<1>6. CASE WriteMessage(c, call)
  BY <1>2, <1>3, <1>6 DEF WriteMessage, coalescing
<1>7. CASE CallLocked(c, call) \/ CallRead(c, call)
  BY <1>2, <1>7 DEF CallLocked, CallRead
<1> QED
  BY <1>4, <1>5, <1>6, <1>7

LEMMA FailIsQueueStep ==
    ASSUME _fail_coalesced_updates, UNCHANGED <<tasks, sent>>
    PROVE  QueueStep
BY DEF QueueStep, QueueFails, WriterRests, Executing, tasks

LEMMA NextIsQueueStep == TypeOK /\ WaitersInv /\ [Next]_vars => QueueStep
<1> SUFFICES ASSUME TypeOK, WaitersInv, [Next]_vars PROVE QueueStep
  OBVIOUS
<1>0. Writer \in Actors /\ Callers \subseteq Actors /\ Writer \notin Callers
  BY ActorAssumption DEF Actors
<1>1. ASSUME NEW c \in Callers, Call(c) PROVE QueueStep
  BY <1>1, CallIsQueueStep DEF Call
<1>2. ASSUME NEW c \in Callers, Cancel(c) PROVE QueueStep
  BY <1>0, <1>2, CancelIsQueueStep DEF Cancel
<1>3. ASSUME NEW c \in Callers, CoalescedResult(c) \/ Read(c) PROVE QueueStep
  BY <1>0, <1>3, ReturnIsQueueStep DEF CoalescedResult, Read
<1>4. ASSUME NEW a \in Actors, AcquireFails(a) PROVE QueueStep
  <2>1. pc[a] = "lock"
    BY <1>4, WaiterTypes, TailDistinct DEF AcquireFails, WaitersInv
  <2> QED
    BY <1>4, <2>1, ReturnIsQueueStep DEF AcquireFails, Executing, WriterResults
<1>5. ASSUME NEW a \in Actors, Acquire(a) PROVE QueueStep
  BY <1>5, AcquireIsQueueStep
<1>6. ASSUME NEW a \in Actors, Drained(a) /\ AwaitsResponse(a) PROVE QueueStep
  BY <1>0, <1>6, MoveIsQueueStep DEF Drained, coalescing, Executing, TypeOK, TaskTypes
<1>7. ASSUME NEW a \in Actors,
             \/ Drained(a) /\ ~AwaitsResponse(a)
             \/ WriteRaises(a) \/ Resume(a) \/ Timeout(a)
      PROVE  QueueStep
  <2>1. /\ \E how \in WriterResults : Return(a, how)
        /\ pc[a] \notin {"idle", "done"} /\ UNCHANGED <<coalesced_updates, sent>>
    BY <1>7 DEF Drained, WriteRaises, Resume, Timeout, Finish, WriterResults
  <2> QED
    BY <2>1, ReturnIsQueueStep DEF Executing
<1>8. CASE PopUpdate
  BY <1>8 DEF QueueStep
<1>9. CASE WriterExits \/ ResumeWriting \/ ConnectionLost \/ ConnectionClosed
  BY <1>0, <1>9, MoveIsQueueStep
     DEF WriterExits, ResumeWriting, ConnectionLost, ConnectionClosed, SnapWrites, Executing,
         TypeOK, TaskTypes
<1>10. CASE ReaderFails \/ CloseSession
  BY <1>10, FailIsQueueStep DEF ReaderFails, CloseSession, _set_reader_error
<1>11. ASSUME NEW m \in Methods \cup {Malformed, Foreign}, Receive(m) PROVE QueueStep
  BY <1>11, FailIsQueueStep, MoveIsQueueStep
     DEF Receive, _set_reader_error, tasks, coalescing, Executing
<1>12. ASSUME NEW s \in Subscribers,
              \/ \E replay_backlog \in BOOLEAN : Subscribe(s, replay_backlog)
              \/ NextReport(s)
              \/ CloseSubscription(s)
       PROVE  QueueStep
  BY <1>12, MoveIsQueueStep DEF Subscribe, NextReport, CloseSubscription, tasks, Executing
<1>13. CASE Open \/ Close \/ Opened
  BY <1>0, <1>13, MoveIsQueueStep
     DEF Open, Close, Opened, SessionUp, tasks, Executing, TypeOK, TaskTypes
<1>14. CASE CancelWriter
  <2>1. CASE CancelTask(Writer)
    BY <1>0, <1>14, <2>1, CancelIsQueueStep DEF CancelWriter
  <2>2. CASE /\ pc[Writer] \in {"done", "idle"} /\ pc' = [pc EXCEPT ![Writer] = "done"]
             /\ UNCHANGED <<ticket, coalesced_updates, updates, sent>>
    BY <1>0, <2>2, MoveIsQueueStep DEF coalescing, Executing, TypeOK, TaskTypes
  <2> QED
    BY <1>14, <2>1, <2>2 DEF CancelWriter
<1>15. CASE UNCHANGED vars
  BY <1>15, MoveIsQueueStep DEF vars, tasks, Executing
<1> QED
  BY <1>1, <1>2, <1>3, <1>4, <1>5, <1>6, <1>7, <1>8, <1>9, <1>10, <1>11, <1>12,
     <1>13, <1>14, <1>15 DEF Next, Step, LifecycleStep

-----------------------------------------------------------------------------
(* The queue holds one update per key, the latest, and never the one that is   *)
(* being executed or one that was written or superseded.                       *)

KeyOf(u) == updates[u].call.key
Current(u) == updates[u].result # "superseded"
Queued == Elements(coalesced_updates)

OnePerKey ==
    /\ IsInjective(coalesced_updates)
    /\ \A u, v \in Queued : KeyOf(u) = KeyOf(v) => u = v

NothingSuperseded ==
    /\ sent \subseteq DOMAIN updates \ Queued
    /\ \A u \in sent \cup Queued : Current(u)

\* The update being executed left the queue before any that is there under its key.
ExecutedFirst ==
    /\ Executing => ticket[Writer] \in DOMAIN updates \ Queued /\ Current(ticket[Writer])
    /\ pc[Writer] = "lock" =>
        /\ ticket[Writer] \notin sent
        /\ \A u \in Queued : KeyOf(u) = KeyOf(ticket[Writer]) => ticket[Writer] < u

QueueInv == OnePerKey /\ NothingSuperseded /\ ExecutedFirst /\ NoStrandedUpdate

LEMMA QueueTypes ==
    ASSUME TypeOK
    PROVE  /\ updates \in Seq(UpdateType) /\ DOMAIN updates = 1 .. Len(updates)
           /\ Len(updates) \in Nat
           /\ coalesced_updates \in Seq(1 .. Len(updates))
           /\ Queued \subseteq DOMAIN updates
           /\ Writer \in Actors
<1>1. /\ updates \in Seq(UpdateType) /\ coalesced_updates \in Seq(1 .. Len(updates))
      /\ Writer \in Actors
  BY DEF TypeOK, UpdateTypes, UpdateType, Actors
<1> QED
  BY <1>1 DEF Queued, Elements

LEMMA ResolvedEffect ==
    ASSUME TypeOK, NEW us, NEW how
    PROVE  /\ DOMAIN Resolved(us, how) = DOMAIN updates
           /\ \A u \in DOMAIN updates :
                /\ Resolved(us, how)[u].call = updates[u].call
                /\ Resolved(us, how)[u].result =
                        IF u \in us /\ updates[u].result = "waiting" THEN how
                        ELSE updates[u].result
<1>1. \A u \in DOMAIN updates : updates[u] \in UpdateType
  BY QueueTypes
<1> QED
  BY <1>1 DEF Resolved, UpdateType

\* The new update replaces the one under its key, which is the only one.
LEMMA EnqueueEffect ==
    ASSUME TypeOK, OnePerKey, NEW k
    PROVE  LET u == Len(updates) + 1
               previous == Previous(k)
               queue == Enqueue(u, previous \cap Elements(coalesced_updates))
           IN  IsInjective(queue) /\ Elements(queue) = (Queued \ previous) \cup {u}
<1> DEFINE u == Len(updates) + 1
           previous == Previous(k)
           queue == Enqueue(u, previous \cap Elements(coalesced_updates))
<1>1. /\ coalesced_updates \in Seq(1 .. u) /\ u \in 1 .. u /\ u \notin Queued
      /\ DOMAIN coalesced_updates = 1 .. Len(coalesced_updates)
  <2>1. /\ Len(updates) \in Nat /\ Queued \subseteq 1 .. Len(updates)
        /\ coalesced_updates \in Seq(1 .. Len(updates))
    BY QueueTypes
  <2>2. coalesced_updates \in Seq(1 .. u)
    BY <2>1, SeqMonotonic
  <2> QED
    BY <2>1, <2>2
<1>2. previous \subseteq Queued /\ \A v, w \in previous : v = w
  BY DEF Previous, OnePerKey, KeyOf, Queued
<1> HIDE DEF u, previous
<1>3. CASE previous = {}
  <2>1. queue = Append(coalesced_updates, u)
    BY <1>3 DEF Enqueue
  <2> HIDE DEF queue
  <2>2. IsInjective(queue) /\ Elements(queue) = Queued \cup {u}
    BY <1>1, <2>1, AppendDistinct DEF OnePerKey, Queued
  <2> QED
    BY <1>3, <2>2 DEF queue, u, previous
<1>4. CASE previous # {}
  <2>1. queue = [i \in DOMAIN coalesced_updates |->
                    IF coalesced_updates[i] \in previous THEN u ELSE coalesced_updates[i]]
    BY <1>2, <1>4 DEF Enqueue, Queued
  <2> HIDE DEF queue
  <2>2. \A i \in DOMAIN coalesced_updates : coalesced_updates[i] # u
    BY <1>1 DEF Queued, Elements
  <2>3. IsInjective(queue)
    BY <1>2, <2>1, <2>2 DEF OnePerKey, IsInjective
  <2>4. Elements(queue) = (Queued \ previous) \cup {u}
    BY <1>2, <1>4, <2>1 DEF Queued, Elements
  <2> QED
    BY <2>3, <2>4 DEF queue, u, previous
<1> QED
  BY <1>3, <1>4

\* The steps that leave the futures' keys alone and add no update.
LEMMA ResolvingKeeps ==
    ASSUME TypeOK, NEW us, NEW how, how # "superseded", updates' = Resolved(us, how)
    PROVE  /\ DOMAIN updates' = DOMAIN updates
           /\ \A u \in DOMAIN updates :
                /\ KeyOf(u)' = KeyOf(u) /\ (Current(u) => Current(u)')
                /\ updates'[u].result = "waiting" =>
                        updates[u].result = "waiting" /\ (u \in us => how = "waiting")
BY ResolvedEffect DEF KeyOf, Current

LEMMA RestsKeepsQueue ==
    ASSUME QueueInv, QueueRests
    PROVE  QueueInv'
BY DEF QueueInv, QueueRests, WriterRests, OnePerKey, NothingSuperseded, ExecutedFirst,
       NoStrandedUpdate, KeyOf, Current, Queued, Elements, Executing

\* A new update, and what becomes of the one it replaces.
LEMMA SubmitEffect ==
    ASSUME TypeOK, OnePerKey, NEW call, QueueSubmits(call), NEW u, u = Len(updates) + 1
    PROVE  LET previous == Previous(call.key) IN
           /\ IsInjective(coalesced_updates') /\ Queued' = (Queued \ previous) \cup {u}
           /\ previous \subseteq Queued /\ \A v \in previous : KeyOf(v) = call.key
           /\ \A v \in Queued : KeyOf(v) = call.key => v \in previous
           /\ DOMAIN updates' = DOMAIN updates \cup {u} /\ u \notin DOMAIN updates
           /\ u \in Nat /\ \A v \in DOMAIN updates : v < u
           /\ KeyOf(u)' = call.key /\ updates'[u].result = "waiting"
           /\ \A v \in DOMAIN updates :
                /\ KeyOf(v)' = KeyOf(v)
                /\ updates'[v].result = IF v \in previous /\ updates[v].result = "waiting"
                                        THEN "superseded" ELSE updates[v].result
           /\ Queued \subseteq DOMAIN updates
<1> DEFINE previous == Previous(call.key)
           resolved == Resolved(previous, "superseded")
           update == [call |-> call, result |-> "waiting"]
<1>1. IsInjective(coalesced_updates') /\ Queued' = (Queued \ previous) \cup {u}
  BY EnqueueEffect DEF QueueSubmits, Queued
<1>2. /\ previous \subseteq Queued /\ \A v \in previous : KeyOf(v) = call.key
      /\ \A v \in Queued : KeyOf(v) = call.key => v \in previous
  BY DEF Previous, Queued, KeyOf
<1>3. /\ DOMAIN updates' = DOMAIN updates \cup {u} /\ u \notin DOMAIN updates
      /\ u \in Nat /\ \A v \in DOMAIN updates : v < u
      /\ updates'[u] = update
      /\ \A v \in DOMAIN updates :
            /\ KeyOf(v)' = KeyOf(v)
            /\ updates'[v].result = IF v \in previous /\ updates[v].result = "waiting"
                                    THEN "superseded" ELSE updates[v].result
  <2>1. updates' = Append(resolved, update)
    BY DEF QueueSubmits
  <2>2. resolved \in Seq(UpdateType) /\ Len(resolved) = Len(updates)
    BY ResolvedType DEF TypeOK, Results
  <2>3. /\ DOMAIN resolved = DOMAIN updates /\ DOMAIN updates = 1 .. Len(updates)
        /\ Len(updates) \in Nat
        /\ \A v \in DOMAIN updates :
            /\ resolved[v].call = updates[v].call
            /\ resolved[v].result = IF v \in previous /\ updates[v].result = "waiting"
                                    THEN "superseded" ELSE updates[v].result
    BY QueueTypes, ResolvedEffect
  <2> HIDE DEF resolved, update, previous
  <2>4. \E S : resolved \in Seq(S) /\ update \in S
    <3>1. resolved \in Seq(UpdateType \cup {update})
      BY <2>2, SeqMonotonic
    <3> QED
      BY <3>1
  <2>5. /\ DOMAIN updates' = 1 .. u /\ updates'[u] = update
        /\ \A v \in 1 .. Len(updates) : updates'[v] = resolved[v]
    BY <2>1, <2>2, <2>3, <2>4
  <2> QED
    BY <2>3, <2>5 DEF KeyOf
<1>4. Queued \subseteq DOMAIN updates
  BY QueueTypes
<1> HIDE DEF previous
<1>5. KeyOf(u)' = call.key /\ updates'[u].result = "waiting"
  BY <1>3 DEF KeyOf
<1> QED
  BY <1>1, <1>2, <1>3, <1>4, <1>5 DEF previous

LEMMA SubmitKeepsQueue ==
    ASSUME TypeOK, QueueInv, NEW call, QueueSubmits(call)
    PROVE  QueueInv'
<1>0. PICK u : u = Len(updates) + 1
  OBVIOUS
<1> DEFINE previous == Previous(call.key)
<1>1. IsInjective(coalesced_updates') /\ Queued' = (Queued \ previous) \cup {u}
  BY <1>0, SubmitEffect DEF QueueInv
<1>2. /\ previous \subseteq Queued /\ \A v \in previous : KeyOf(v) = call.key
      /\ \A v \in Queued : KeyOf(v) = call.key => v \in previous
  BY <1>0, SubmitEffect DEF QueueInv
<1>3. /\ DOMAIN updates' = DOMAIN updates \cup {u} /\ u \notin DOMAIN updates
      /\ u \in Nat /\ \A v \in DOMAIN updates : v < u
      /\ \A v \in DOMAIN updates :
            /\ KeyOf(v)' = KeyOf(v)
            /\ updates'[v].result = IF v \in previous /\ updates[v].result = "waiting"
                                    THEN "superseded" ELSE updates[v].result
  BY <1>0, SubmitEffect DEF QueueInv
<1>4. Queued \subseteq DOMAIN updates
  BY QueueTypes
<1>5. WriterRests /\ UNCHANGED sent /\ KeyOf(u)' = call.key /\ updates'[u].result = "waiting"
  BY <1>0, SubmitEffect DEF QueueInv, QueueSubmits
<1> HIDE DEF previous
<1>6. OnePerKey'
  BY <1>1, <1>2, <1>3, <1>4, <1>5 DEF QueueInv, OnePerKey
<1>7. NothingSuperseded'
  BY <1>1, <1>2, <1>3, <1>4, <1>5 DEF QueueInv, NothingSuperseded, Current
<1>8. ExecutedFirst'
  <2> DEFINE w == ticket[Writer]
  <2>1. w' = w /\ (Executing' => Executing) /\ (pc'[Writer] = "lock" => pc[Writer] = "lock")
    BY <1>5 DEF WriterRests
  <2>2. Executing => w \in DOMAIN updates \ Queued /\ Current(w)
    BY DEF QueueInv, ExecutedFirst
  <2>3. pc[Writer] = "lock" =>
            Executing /\ w \notin sent /\ \A v \in Queued : KeyOf(v) = KeyOf(w) => w < v
    BY DEF QueueInv, ExecutedFirst, Executing
  <2>4. Executing => w \in DOMAIN updates' \ Queued' /\ updates'[w].result # "superseded"
    BY <1>1, <1>2, <1>3, <2>2 DEF Current
  <2>5. pc[Writer] = "lock" =>
            /\ w \notin sent'
            /\ \A v \in Queued' : KeyOf(v)' = updates'[w].call.key => w < v
    BY <1>1, <1>2, <1>3, <1>4, <1>5, <2>2, <2>3 DEF KeyOf
  <2> HIDE DEF w
  <2> QED
    BY <2>1, <2>4, <2>5 DEF ExecutedFirst, Current, KeyOf, w
<1>9. NoStrandedUpdate'
  BY <1>1, <1>2, <1>3, <1>5
     DEF QueueInv, NoStrandedUpdate, WriterRests, Executing, Queued, OnePerKey, NothingSuperseded
<1> QED
  BY <1>6, <1>7, <1>8, <1>9 DEF QueueInv

LEMMA WithdrawKeepsQueue ==
    ASSUME TypeOK, QueueInv, NEW u, QueueWithdraws(u)
    PROVE  QueueInv'
<1>1. IsInjective(coalesced_updates') /\ Queued' = Queued \ {u}
  BY QueueTypes, WithoutDistinct DEF QueueWithdraws, QueueInv, OnePerKey, Queued
<1>2. /\ DOMAIN updates' = DOMAIN updates
      /\ \A v \in DOMAIN updates :
            /\ KeyOf(v)' = KeyOf(v) /\ (Current(v) => Current(v)')
            /\ updates'[v].result = "waiting" => updates[v].result = "waiting" /\ v # u
  BY ResolvingKeeps DEF QueueWithdraws
<1>3. Queued \subseteq DOMAIN updates
  BY QueueTypes
<1>4. WriterRests /\ UNCHANGED sent
  BY DEF QueueWithdraws
<1>5. OnePerKey'
  BY <1>1, <1>2, <1>3 DEF QueueInv, OnePerKey
<1>6. NothingSuperseded'
  BY <1>1, <1>2, <1>3, <1>4 DEF QueueInv, NothingSuperseded
<1>7. ExecutedFirst'
  BY <1>1, <1>2, <1>3, <1>4 DEF QueueInv, ExecutedFirst, WriterRests, Executing
<1>8. NoStrandedUpdate'
  BY <1>1, <1>2, <1>4 DEF QueueInv, NoStrandedUpdate, WriterRests, Executing, Queued
<1> QED
  BY <1>5, <1>6, <1>7, <1>8 DEF QueueInv

LEMMA FailKeepsQueue ==
    ASSUME TypeOK, QueueInv, QueueFails
    PROVE  QueueInv'
<1>1. coalesced_updates' = <<>> /\ Queued' = {} /\ IsInjective(coalesced_updates')
  BY DEF QueueFails, _fail_coalesced_updates, Queued, Elements, IsInjective
<1>2. /\ DOMAIN updates' = DOMAIN updates
      /\ \A v \in DOMAIN updates :
            /\ KeyOf(v)' = KeyOf(v) /\ (Current(v) => Current(v)')
            /\ updates'[v].result = "waiting" => updates[v].result = "waiting" /\ v \notin Queued
  BY ResolvingKeeps DEF QueueFails, _fail_coalesced_updates, Queued
<1>3. WriterRests /\ UNCHANGED sent
  BY DEF QueueFails
<1>4. OnePerKey' /\ NothingSuperseded'
  BY <1>1, <1>2, <1>3 DEF QueueInv, OnePerKey, NothingSuperseded
<1>5. ExecutedFirst'
  BY <1>1, <1>2, <1>3 DEF QueueInv, ExecutedFirst, WriterRests
<1>6. NoStrandedUpdate'
  BY <1>1, <1>2, <1>3 DEF QueueInv, NoStrandedUpdate, WriterRests, Executing, Queued
<1> QED
  BY <1>4, <1>5, <1>6 DEF QueueInv

LEMMA PopKeepsQueue ==
    ASSUME TypeOK, QueueInv, PopUpdate
    PROVE  QueueInv'
<1> DEFINE u == Head(coalesced_updates)
<1>1. /\ IsInjective(coalesced_updates') /\ Queued' = Queued \ {u} /\ u \in Queued
  BY QueueTypes, TailDistinct DEF PopUpdate, QueueInv, OnePerKey, Queued
<1>2. ticket'[Writer] = u /\ pc'[Writer] = "lock" /\ ~Executing /\ UNCHANGED <<updates, sent>>
  BY QueueTypes DEF PopUpdate, Executing, TypeOK, TaskTypes, UpdateTypes
<1>3. Queued \subseteq DOMAIN updates
  BY QueueTypes
<1> HIDE DEF u
<1>4. OnePerKey' /\ NothingSuperseded'
  BY <1>1, <1>2, <1>3 DEF QueueInv, OnePerKey, NothingSuperseded, KeyOf, Current
<1>5. ExecutedFirst'
  BY <1>1, <1>2, <1>3 DEF QueueInv, OnePerKey, NothingSuperseded, ExecutedFirst, KeyOf, Current
<1>6. NoStrandedUpdate'
  BY <1>1, <1>2 DEF QueueInv, NoStrandedUpdate, Executing, Queued
<1> QED
  BY <1>4, <1>5, <1>6 DEF QueueInv

LEMMA ReturnKeepsQueue ==
    ASSUME TypeOK, QueueInv, NEW how \in WriterResults, WriterReturns(how)
    PROVE  QueueInv'
<1>1. /\ DOMAIN updates' = DOMAIN updates
      /\ \A v \in DOMAIN updates :
            /\ KeyOf(v)' = KeyOf(v) /\ (Current(v) => Current(v)')
            /\ updates'[v].result = "waiting" =>
                    updates[v].result = "waiting" /\ v # ticket[Writer]
  BY ResolvingKeeps DEF WriterReturns, WriterResults
<1>2. Queued' = Queued /\ Queued \subseteq DOMAIN updates /\ UNCHANGED <<coalesced_updates, sent>>
  BY QueueTypes DEF WriterReturns, Queued
<1>3. Executing /\ ~Executing'
  BY DEF WriterReturns
<1>4. OnePerKey' /\ NothingSuperseded'
  BY <1>1, <1>2 DEF QueueInv, OnePerKey, NothingSuperseded
<1>5. ExecutedFirst' /\ NoStrandedUpdate'
  BY <1>1, <1>2, <1>3 DEF QueueInv, ExecutedFirst, NoStrandedUpdate, Executing, Queued
<1> QED
  BY <1>4, <1>5 DEF QueueInv

LEMMA SendKeepsQueue ==
    ASSUME TypeOK, QueueInv, WriterSends
    PROVE  QueueInv'
<1>1. /\ DOMAIN updates' = DOMAIN updates
      /\ \A v \in DOMAIN updates :
            /\ KeyOf(v)' = KeyOf(v) /\ (Current(v) => Current(v)')
            /\ updates'[v].result = "waiting" => updates[v].result = "waiting"
            /\ ~Executing' /\ updates'[v].result = "waiting" => v # ticket[Writer]
  BY ResolvingKeeps DEF WriterSends, KeyOf, Current
<1>2. Queued' = Queued /\ Queued \subseteq DOMAIN updates /\ UNCHANGED coalesced_updates
  BY QueueTypes DEF WriterSends, Queued
<1>3. /\ Executing /\ pc'[Writer] # "lock" /\ sent' = sent \cup {ticket[Writer]}
      /\ Executing' => ticket'[Writer] = ticket[Writer]
  BY DEF WriterSends, Executing
<1>4. OnePerKey'
  BY <1>1, <1>2 DEF QueueInv, OnePerKey
<1>5. NothingSuperseded'
  BY <1>1, <1>2, <1>3 DEF QueueInv, NothingSuperseded, ExecutedFirst
<1>6. ExecutedFirst'
  BY <1>1, <1>2, <1>3 DEF QueueInv, ExecutedFirst
<1>7. NoStrandedUpdate'
  BY <1>1, <1>2, <1>3 DEF QueueInv, NoStrandedUpdate, Executing, Queued
<1> QED
  BY <1>4, <1>5, <1>6, <1>7 DEF QueueInv

LEMMA QueueInvInit == Init => QueueInv
BY DEF Init, QueueInv, OnePerKey, NothingSuperseded, ExecutedFirst, NoStrandedUpdate, Executing,
       Queued, Elements, IsInjective, Actors

LEMMA QueueInvNext == TypeOK /\ QueueInv /\ QueueStep => QueueInv'
<1> SUFFICES ASSUME TypeOK, QueueInv, QueueStep PROVE QueueInv'
  OBVIOUS
<1>1. CASE QueueRests
  BY <1>1, RestsKeepsQueue
<1>2. CASE QueueFails
  BY <1>2, FailKeepsQueue
<1>3. CASE PopUpdate
  BY <1>3, PopKeepsQueue
<1>4. CASE WriterSends
  BY <1>4, SendKeepsQueue
<1>5. ASSUME NEW call \in Calls, QueueSubmits(call) PROVE QueueInv'
  BY <1>5, SubmitKeepsQueue
<1>6. ASSUME NEW u, QueueWithdraws(u) PROVE QueueInv'
  BY <1>6, WithdrawKeepsQueue
<1>7. ASSUME NEW how \in WriterResults, WriterReturns(how) PROVE QueueInv'
  BY <1>7, ReturnKeepsQueue
<1> QED
  BY <1>1, <1>2, <1>3, <1>4, <1>5, <1>6, <1>7 DEF QueueStep

SessionInv == TypeOK /\ WaitersInv /\ QueueInv

LEMMA SessionInvInit == Init => SessionInv
BY TypeInit, WaitersInvInit, QueueInvInit DEF SessionInv

LEMMA SessionInvNext == SessionInv /\ [Next]_vars => SessionInv' /\ QueueStep
BY TypeNext, WaitersInvNext, NextIsQueueStep, QueueInvNext DEF SessionInv

LEMMA SessionInvariant == Spec => []SessionInv
BY SessionInvInit, SessionInvNext, PTL DEF Spec

\* Every coalesced update whose caller still waits is in the queue or in the hands
\* of the writer, through supersession, cancellation, errors and close()
\* (session.py:327-397, 433-463, 599-616).
THEOREM UpdatesNotStranded == Spec => []NoStrandedUpdate
<1>1. SessionInv => NoStrandedUpdate
  BY DEF SessionInv, QueueInv
<1> QED
  BY <1>1, SessionInvariant, PTL

\* A caller that was told that a newer update replaced its own can rely on it: the
\* command was not written and will not be (session.py:327-357, 433-463).
THEOREM SupersededNotWritten == Spec => []SupersededNeverSent
<1>1. SessionInv => SupersededNeverSent
  BY DEF SessionInv, QueueInv, NothingSuperseded, Current, SupersededNeverSent
<1> QED
  BY <1>1, SessionInvariant, PTL

-----------------------------------------------------------------------------
(* The refinement.  Each of the seven steps of the queue is a step of         *)
(* LatestWins or leaves its variables alone.                                   *)

AbstractKey == [u \in DOMAIN updates |-> updates[u].call.key]
AbstractPhase == [u \in DOMAIN updates |-> Phase(u)]
AbstractStep == [Abstract!Next]_<<AbstractKey, AbstractPhase>>

Unsent == {u \in DOMAIN updates : Phase(u) = "unsent"}

LEMMA AbstractUnsent == Abstract!Unsent = Unsent
BY DEF Abstract!Unsent, Unsent

\* Steps that only give up updates that were not sent.
LEMMA DropsAreAbstract ==
    ASSUME NEW us \in SUBSET Unsent,
           DOMAIN updates' = DOMAIN updates,
           \A u \in DOMAIN updates :
                /\ KeyOf(u)' = KeyOf(u)
                /\ Phase(u)' = IF u \in us THEN "dropped" ELSE Phase(u)
    PROVE  AbstractStep
<1>1. AbstractKey' = AbstractKey
  BY DEF AbstractKey, KeyOf
<1>2. AbstractPhase' = [u \in DOMAIN AbstractPhase |->
                            IF u \in us THEN "dropped" ELSE AbstractPhase[u]]
  BY DEF AbstractPhase
<1>3. CASE us = {}
  <2>1. AbstractPhase' = AbstractPhase
    BY <1>2, <1>3 DEF AbstractPhase
  <2> QED
    BY <1>1, <2>1 DEF AbstractStep
<1>4. CASE us # {}
  <2>1. Abstract!Drop(us)
    BY <1>1, <1>2 DEF Abstract!Drop, Abstract!Dropping, AbstractKey, AbstractPhase
  <2> QED
    BY <1>4, <2>1, AbstractUnsent DEF AbstractStep, Abstract!Next
<1> QED
  BY <1>3, <1>4

LEMMA RestsIsAbstract ==
    ASSUME QueueRests
    PROVE  AbstractStep
<1>1. DOMAIN updates' = DOMAIN updates
  BY DEF QueueRests
<1>2. \A u \in DOMAIN updates : KeyOf(u)' = KeyOf(u) /\ Phase(u)' = Phase(u)
  BY DEF QueueRests, WriterRests, KeyOf, Phase, Elements
<1>3. {} \in SUBSET Unsent
  OBVIOUS
<1> QED
  BY <1>1, <1>2, <1>3, DropsAreAbstract

LEMMA WithdrawIsAbstract ==
    ASSUME TypeOK, QueueInv, NEW u, QueueWithdraws(u)
    PROVE  AbstractStep
<1> DEFINE us == {u} \cap Queued
<1>1. Queued' = Queued \ {u} /\ Queued \subseteq DOMAIN updates
  BY QueueTypes, WithoutDistinct DEF QueueWithdraws, QueueInv, OnePerKey, Queued
<1>2. us \in SUBSET Unsent
  BY <1>1 DEF Unsent, Phase, Queued, QueueInv, NothingSuperseded
<1>3. DOMAIN updates' = DOMAIN updates /\ \A v \in DOMAIN updates : KeyOf(v)' = KeyOf(v)
  BY ResolvingKeeps DEF QueueWithdraws
<1>4. \A v \in DOMAIN updates : Phase(v)' = IF v \in us THEN "dropped" ELSE Phase(v)
  BY <1>1 DEF QueueWithdraws, WriterRests, Phase, Queued, QueueInv, NothingSuperseded,
              ExecutedFirst, Executing
<1> QED
  BY <1>2, <1>3, <1>4, DropsAreAbstract

LEMMA FailIsAbstract ==
    ASSUME TypeOK, QueueInv, QueueFails
    PROVE  AbstractStep
<1>1. Queued' = {} /\ Queued \subseteq DOMAIN updates
  BY QueueTypes DEF QueueFails, _fail_coalesced_updates, Queued, Elements
<1>2. Queued \in SUBSET Unsent
  BY <1>1 DEF Unsent, Phase, Queued, QueueInv, NothingSuperseded
<1>3. DOMAIN updates' = DOMAIN updates /\ \A v \in DOMAIN updates : KeyOf(v)' = KeyOf(v)
  BY ResolvingKeeps DEF QueueFails, _fail_coalesced_updates
<1>4. \A v \in DOMAIN updates : Phase(v)' = IF v \in Queued THEN "dropped" ELSE Phase(v)
  BY <1>1 DEF QueueFails, WriterRests, Phase, Queued, QueueInv, NothingSuperseded,
              ExecutedFirst, Executing
<1> QED
  BY <1>2, <1>3, <1>4, DropsAreAbstract

LEMMA PopIsAbstract ==
    ASSUME TypeOK, QueueInv, PopUpdate
    PROVE  AbstractStep
<1>1. /\ Queued' = Queued \ {ticket'[Writer]} /\ ticket'[Writer] \in Queued
      /\ pc'[Writer] = "lock" /\ pc[Writer] # "lock" /\ UNCHANGED <<updates, sent>>
  BY QueueTypes, TailDistinct
     DEF PopUpdate, QueueInv, OnePerKey, Queued, TypeOK, TaskTypes, UpdateTypes
<1>2. DOMAIN updates' = DOMAIN updates /\ \A v \in DOMAIN updates : KeyOf(v)' = KeyOf(v)
  BY <1>1 DEF KeyOf
<1>3. \A v \in DOMAIN updates : Phase(v)' = Phase(v)
  BY <1>1 DEF Phase, Queued
<1>4. {} \in SUBSET Unsent
  OBVIOUS
<1> QED
  BY <1>2, <1>3, <1>4, DropsAreAbstract

\* An update that the writer gives up before it had the lock is dropped.
LEMMA ReturnIsAbstract ==
    ASSUME TypeOK, QueueInv, NEW how \in WriterResults, WriterReturns(how)
    PROVE  AbstractStep
<1> DEFINE us == IF pc[Writer] = "lock" THEN {ticket[Writer]} ELSE {}
<1>1. /\ ticket[Writer] \in DOMAIN updates \ Queued
      /\ pc[Writer] = "lock" => ticket[Writer] \notin sent
      /\ pc'[Writer] # "lock" /\ UNCHANGED <<coalesced_updates, sent>>
  BY DEF WriterReturns, QueueInv, ExecutedFirst, Executing
<1>2. us \in SUBSET Unsent
  BY <1>1 DEF Unsent, Phase
<1>3. DOMAIN updates' = DOMAIN updates /\ \A v \in DOMAIN updates : KeyOf(v)' = KeyOf(v)
  BY ResolvingKeeps DEF WriterReturns, WriterResults
<1>4. \A v \in DOMAIN updates : Phase(v)' = IF v \in us THEN "dropped" ELSE Phase(v)
  BY <1>1 DEF Phase, Queued, Elements
<1> QED
  BY <1>2, <1>3, <1>4, DropsAreAbstract

LEMMA SendIsAbstract ==
    ASSUME TypeOK, QueueInv, WriterSends
    PROVE  AbstractStep
<1> PICK u : u = ticket[Writer]
  OBVIOUS
<1>1. /\ u \in DOMAIN updates \ Queued /\ u \notin sent /\ pc[Writer] = "lock"
      /\ \A v \in Queued : KeyOf(v) = KeyOf(u) => u < v
      /\ pc'[Writer] # "lock" /\ sent' = sent \cup {u} /\ UNCHANGED coalesced_updates
  BY DEF WriterSends, QueueInv, ExecutedFirst, Executing
<1>2. u \in Unsent /\ u \in Nat /\ \A v \in Unsent : v = u \/ v \in Queued
  BY <1>1, QueueTypes DEF Unsent, Phase, Queued
<1>3. DOMAIN updates' = DOMAIN updates /\ \A v \in DOMAIN updates : KeyOf(v)' = KeyOf(v)
  BY ResolvingKeeps DEF WriterSends, KeyOf
<1>4. \A v \in DOMAIN updates : Phase(v)' = IF v = u THEN "sent" ELSE Phase(v)
  BY <1>1 DEF Phase, Queued, Elements
<1>5. AbstractKey' = AbstractKey /\ AbstractPhase' = [AbstractPhase EXCEPT ![u] = "sent"]
  BY <1>3, <1>4 DEF AbstractKey, AbstractPhase, KeyOf
<1>6. \A v \in Unsent : AbstractKey[v] = AbstractKey[u] => u <= v
  BY <1>1, <1>2, QueueTypes DEF AbstractKey, KeyOf, Unsent
<1>7. Abstract!Send(u)
  BY <1>5, <1>6, AbstractUnsent DEF Abstract!Send, AbstractKey, AbstractPhase
<1> QED
  BY <1>2, <1>7, AbstractUnsent DEF AbstractStep, Abstract!Next

LEMMA SubmitIsAbstract ==
    ASSUME TypeOK, QueueInv, NEW call \in Calls, QueueSubmits(call)
    PROVE  AbstractStep
<1>0. PICK u, us : u = Len(updates) + 1 /\ us = Previous(call.key)
  OBVIOUS
<1>1. /\ Queued' = (Queued \ us) \cup {u} /\ us \subseteq Queued
      /\ \A v \in us : KeyOf(v) = call.key
      /\ DOMAIN updates' = DOMAIN updates \cup {u} /\ u \notin DOMAIN updates
      /\ KeyOf(u)' = call.key /\ \A v \in DOMAIN updates : KeyOf(v)' = KeyOf(v)
      /\ Queued \subseteq DOMAIN updates
  BY <1>0, SubmitEffect DEF QueueInv
<1>2. WriterRests /\ UNCHANGED sent
  BY DEF QueueSubmits
<1>3. us \in SUBSET Unsent
  BY <1>1 DEF Unsent, Phase, Queued, QueueInv, NothingSuperseded
<1>4. Phase(u)' = "unsent"
  BY <1>1, <1>2 DEF Phase, Queued, QueueInv, NothingSuperseded
<1>5. \A v \in DOMAIN updates : Phase(v)' = IF v \in us THEN "dropped" ELSE Phase(v)
  BY <1>1, <1>2 DEF WriterRests, Phase, Queued, QueueInv, NothingSuperseded, ExecutedFirst,
                    Executing
<1>6. /\ DOMAIN updates = 1 .. Len(updates) /\ Len(updates) \in Nat
      /\ DOMAIN updates' = 1 .. Len(updates) + 1
  BY <1>0, <1>1, QueueTypes
<1>7. AbstractKey' = Append(AbstractKey, call.key)
  <2>1. AbstractKey = [v \in 1 .. Len(updates) |-> KeyOf(v)]
    BY <1>6 DEF AbstractKey, KeyOf
  <2> DEFINE K == {KeyOf(v) : v \in DOMAIN updates} \cup {call.key}
  <2>2. AbstractKey \in Seq(K) /\ call.key \in K /\ Len(AbstractKey) = Len(updates)
    BY <1>6, <2>1
  <2> HIDE DEF K
  <2>3. AbstractKey' = [v \in 1 .. Len(updates) + 1 |->
                            IF v = u THEN call.key ELSE AbstractKey[v]]
    BY <1>0, <1>1, <1>6 DEF AbstractKey, KeyOf
  <2> QED
    BY <1>0, <1>6, <2>2, <2>3
<1>8. AbstractPhase' = Append([v \in DOMAIN AbstractPhase |->
                                  IF v \in us THEN "dropped" ELSE AbstractPhase[v]], "unsent")
  <2> DEFINE P == {"sent", "unsent", "dropped"}
             dropped == [v \in DOMAIN AbstractPhase |->
                                  IF v \in us THEN "dropped" ELSE AbstractPhase[v]]
  <2>1. dropped = [v \in 1 .. Len(updates) |-> IF v \in us THEN "dropped" ELSE Phase(v)]
    BY <1>6 DEF AbstractPhase
  <2>2. \A v : Phase(v) \in P
    BY DEF Phase
  <2>3. dropped \in Seq(P) /\ "unsent" \in P /\ Len(dropped) = Len(updates)
    BY <1>6, <2>1, <2>2
  <2>4. AbstractPhase' = [v \in 1 .. Len(updates) + 1 |->
                            IF v = u THEN "unsent"
                            ELSE IF v \in us THEN "dropped" ELSE Phase(v)]
    BY <1>0, <1>1, <1>4, <1>5, <1>6 DEF AbstractPhase
  <2> HIDE DEF dropped, P
  <2> QED
    BY <1>0, <1>6, <2>1, <2>3, <2>4 DEF dropped
<1>9. Abstract!Submit(call.key, us)
  BY <1>1, <1>7, <1>8 DEF Abstract!Submit, Abstract!Dropping, AbstractKey, AbstractPhase, KeyOf
<1>10. call.key \in Keys
  BY CallAssumption DEF CallType
<1> QED
  BY <1>3, <1>9, <1>10, AbstractUnsent DEF AbstractStep, Abstract!Next

LEMMA AbstractInit == Init => Abstract!Init
BY DEF Init, Abstract!Init

LEMMA QueueStepIsAbstract == SessionInv /\ QueueStep => AbstractStep
BY RestsIsAbstract, FailIsAbstract, PopIsAbstract, SendIsAbstract, SubmitIsAbstract,
   WithdrawIsAbstract, ReturnIsAbstract
   DEF SessionInv, QueueStep

\* What a user of coalesced updates relies on: whatever the queue, the writer task,
\* the lock, time-outs, cancellations and the lifecycle do, updates under one key
\* are written in the order of submission, each once, and one that was given up is
\* never written (session.py:327-397, 433-463, 599-616).
THEOREM ImplementsLatestWins == Spec => LatestWinsSpec
<1>1. Init => Abstract!Init
  BY AbstractInit
<1>2. SessionInv /\ [Next]_vars => AbstractStep
  BY SessionInvNext, QueueStepIsAbstract
<1> QED
  BY <1>1, <1>2, SessionInvariant, PTL
     DEF Spec, LatestWinsSpec, Abstract!Spec, AbstractStep, AbstractKey, AbstractPhase

=============================================================================

--------------------------- MODULE SessionProofs ----------------------------
(* Theorems about the session dispatcher, for any callers, methods, keys and  *)
(* bounds: its types, its pending requests and its report streams.            *)
EXTENDS Session, SequenceTheorems, TLAPS

-----------------------------------------------------------------------------
(* What the operators on sequences preserve. *)

LEMMA NewestType ==
    ASSUME NEW S, NEW s \in Seq(S), NEW n \in Nat
    PROVE  Newest(s, n) \in Seq(S)
<1>1. \A i \in Len(s) - n + 1 .. Len(s) : Len(s) > n => s[i] \in S
  OBVIOUS
<1> QED
  BY <1>1, SubSeqProperties DEF Newest

LEMMA TrimType ==
    ASSUME NEW S, NEW s \in Seq(S), NEW n \in Int
    PROVE  Trim(s, n) \in Seq(S)
BY NewestType DEF Trim

LEMMA PutType ==
    ASSUME NEW S, NEW s \in Seq(S), NEW e \in S, NEW n \in Nat
    PROVE  _put_report_item(s, e, n) \in Seq(S)
<1>1. Append(s, e) \in Seq(S)
  OBVIOUS
<1> QED
  BY <1>1, NewestType DEF _put_report_item

LEMMA RemoveAtType ==
    ASSUME NEW S, NEW s \in Seq(S), NEW i \in 1 .. Len(s)
    PROVE  RemoveAt(s, i) \in Seq(S)
<1>1. SubSeq(s, 1, i - 1) \in Seq(S)
  OBVIOUS
<1>2. SubSeq(s, i + 1, Len(s)) \in Seq(S)
  OBVIOUS
<1> QED
  BY <1>1, <1>2, ConcatProperties DEF RemoveAt

LEMMA RemoveAtItems ==
    ASSUME NEW S, NEW s \in Seq(S), NEW i \in 1 .. Len(s)
    PROVE  /\ DOMAIN RemoveAt(s, i) = 1 .. Len(s) - 1
           /\ \A j \in 1 .. Len(s) - 1 : RemoveAt(s, i)[j] = IF j < i THEN s[j] ELSE s[j + 1]
<1> DEFINE front == SubSeq(s, 1, i - 1)
           back == SubSeq(s, i + 1, Len(s))
<1>1. /\ front \in Seq(S) /\ Len(front) = i - 1
      /\ \A j \in 1 .. i - 1 : front[j] = s[j]
  OBVIOUS
<1>2. /\ back \in Seq(S) /\ Len(back) = Len(s) - i
      /\ \A j \in 1 .. Len(s) - i : back[j] = s[i + j]
  OBVIOUS
<1>3. RemoveAt(s, i) = front \o back
  BY DEF RemoveAt
<1> HIDE DEF front, back
<1>4. /\ DOMAIN (front \o back) = 1 .. Len(s) - 1
      /\ \A j \in 1 .. Len(s) - 1 :
            (front \o back)[j] = IF j < i THEN front[j] ELSE back[j - (i - 1)]
  BY <1>1, <1>2, ConcatProperties
<1>5. \A j \in 1 .. Len(s) - 1 :
        (front \o back)[j] = IF j < i THEN s[j] ELSE s[j + 1]
  <2> SUFFICES ASSUME NEW j \in 1 .. Len(s) - 1
               PROVE  (front \o back)[j] = IF j < i THEN s[j] ELSE s[j + 1]
    OBVIOUS
  <2>1. CASE j < i
    BY <1>1, <1>4, <2>1
  <2>2. CASE ~(j < i)
    <3>1. j - (i - 1) \in 1 .. Len(s) - i /\ i + (j - (i - 1)) = j + 1
      BY <2>2
    <3> QED
      BY <1>2, <1>4, <2>2, <3>1
  <2> QED
    BY <2>1, <2>2
<1> QED
  BY <1>3, <1>4, <1>5

LEMMA WithoutType ==
    ASSUME NEW S, NEW s \in Seq(S), NEW e
    PROVE  Without(s, e) \in Seq(S)
<1>1. CASE e \in Elements(s)
  <2>1. (CHOOSE i \in DOMAIN s : s[i] = e) \in 1 .. Len(s)
    BY <1>1 DEF Elements
  <2> QED
    BY <1>1, <2>1, RemoveAtType DEF Without
<1>2. CASE e \notin Elements(s)
  BY <1>2 DEF Without
<1> QED
  BY <1>1, <1>2

-----------------------------------------------------------------------------
(* What the shared parts of the actions preserve. *)

UpdateType == [call : CallType, result : Results]

LEMMA ResolvedType ==
    ASSUME NEW us, NEW how \in Results, UpdateTypes
    PROVE  /\ Resolved(us, how) \in Seq(UpdateType)
           /\ Len(Resolved(us, how)) = Len(updates)
<1>1. updates \in Seq(UpdateType) /\ DOMAIN updates = 1 .. Len(updates)
  BY DEF UpdateTypes, UpdateType
<1>2. \A u \in DOMAIN updates :
        /\ updates[u] \in UpdateType
        /\ [updates[u] EXCEPT !.result = how] \in UpdateType
  <2> SUFFICES ASSUME NEW u \in DOMAIN updates
               PROVE  /\ updates[u] \in UpdateType
                      /\ [updates[u] EXCEPT !.result = how] \in UpdateType
    OBVIOUS
  <2>1. updates[u] \in UpdateType
    BY <1>1
  <2> QED
    BY <2>1 DEF UpdateType
<1> QED
  BY <1>1, <1>2 DEF Resolved

LEMMA NoCallType == NoCall \in CallType
BY CallAssumption DEF NoCall

LEMMA ReturnTypes ==
    ASSUME NEW a \in Actors, NEW how, a = Writer => how \in Results, TypeOK,
           Return(a, how)
    PROVE  /\ pc' \in [Actors -> Points] /\ \A b \in Actors : pc'[b] \in PointsOf(b)
           /\ job' \in [Actors -> CallType]
           /\ updates' \in Seq(UpdateType) /\ Len(updates') = Len(updates)
           /\ ticket' \in [Actors -> 0 .. Len(updates)]
<1>1. pc' \in [Actors -> Points] /\ \A b \in Actors : pc'[b] \in PointsOf(b)
  <2> DEFINE end == IF a = Writer /\ how = "cancelled" THEN "done" ELSE "idle"
  <2>1. end \in PointsOf(a) /\ end \in Points
    BY DEF Points, PointsOf
  <2>2. pc' = [pc EXCEPT ![a] = end]
    BY DEF Return
  <2> HIDE DEF end
  <2> QED
    BY <2>1, <2>2 DEF TypeOK, TaskTypes
<1>2. job' \in [Actors -> CallType]
  BY NoCallType DEF Return, TypeOK, TaskTypes
<1>3. updates' \in Seq(UpdateType) /\ Len(updates') = Len(updates)
  BY ResolvedType DEF Return, TypeOK, UpdateTypes, UpdateType
<1>4. ticket' \in [Actors -> 0 .. Len(updates)]
  BY DEF Return, TypeOK, UpdateTypes
<1> QED
  BY <1>1, <1>2, <1>3, <1>4

LEMMA FinishTypes ==
    ASSUME NEW a \in Actors, NEW how \in Results, TypeOK, Finish(a, how)
    PROVE  /\ lock' \in Actors \cup {Nobody} /\ pending' \subseteq Actors
           /\ future' \in [Actors -> Ids \cup {Unset, Failed}]
<1>1. lock' \in Actors \cup {Nobody}
  BY DEF Finish, Release, TypeOK, TaskTypes
<1>2. pending' \subseteq Actors /\ future' \in [Actors -> Ids \cup {Unset, Failed}]
  BY DEF Finish, _remove_pending, TypeOK, TaskTypes
<1> QED
  BY <1>1, <1>2

\* An action that only ends a call of "a" keeps the types.
LEMMA FinishKeepsTypes ==
    ASSUME NEW a \in Actors, NEW how \in Results, TypeOK, Finish(a, how),
           UNCHANGED <<session, link, lock_waiters, calls, backlogs,
                       coalesced_updates, sent, reporting, arrivals, severed>>
    PROVE  TypeOK'
<1>1. FlagTypes' /\ MessageTypes' /\ ReportTypes'
  BY DEF TypeOK, FlagTypes, MessageTypes, ReportTypes, session, link, backlogs,
         reporting, arrivals
<1>2. TaskTypes'
  BY ReturnTypes, FinishTypes DEF TypeOK, TaskTypes, Finish
<1>3. UpdateTypes'
  BY ReturnTypes DEF TypeOK, UpdateTypes, UpdateType, Finish
<1> QED
  BY <1>1, <1>2, <1>3 DEF TypeOK

-----------------------------------------------------------------------------
(* Each action keeps the types. *)

LEMMA TypeInit == Init => TypeOK
<1> SUFFICES ASSUME Init PROVE TypeOK
  OBVIOUS
<1>1. FlagTypes
  <2>1. opens \in 0 .. MaxOpens
    BY BoundAssumption DEF BoundAssumption, Init
  <2>2. /\ reader_task = "done" /\ transport = "none" /\ lifecycle = "idle"
        /\ closed = TRUE /\ reader_error = FALSE /\ paused = FALSE /\ severed = FALSE
    BY DEF Init
  <2> QED
    BY <2>1, <2>2 DEF FlagTypes
<1>2. TaskTypes
  BY NoCallType, BoundAssumption DEF BoundAssumption, Init, TaskTypes, Points, PointsOf, Actors
<1>3. UpdateTypes
  BY DEF Init, UpdateTypes
<1>4. MessageTypes
  BY BoundAssumption DEF BoundAssumption, Init, MessageTypes
<1>5. ReportTypes
  BY BoundAssumption DEF BoundAssumption, Init, ReportTypes
<1> QED
  BY <1>1, <1>2, <1>3, <1>4, <1>5 DEF TypeOK

LEMMA CallLockedTypes ==
    ASSUME NEW c \in Callers, NEW call \in Calls, TypeOK,
           CallLocked(c, call) \/ CallRead(c, call)
    PROVE  TypeOK'
<1>1. FlagTypes' /\ UpdateTypes' /\ MessageTypes' /\ ReportTypes'
  <2>1. UNCHANGED <<session, link, ticket, backlogs, coalescing, reporting, arrivals, severed>>
    BY DEF CallLocked, CallRead
  <2>2. FlagTypes'
    BY <2>1 DEF TypeOK, FlagTypes, session, link
  <2>3. UpdateTypes'
    BY <2>1 DEF TypeOK, UpdateTypes, coalescing
  <2>4. MessageTypes'
    BY <2>1 DEF TypeOK, MessageTypes, backlogs, reporting, arrivals
  <2>5. ReportTypes'
    BY <2>1 DEF TypeOK, ReportTypes, reporting
  <2> QED
    BY <2>2, <2>3, <2>4, <2>5
<1>2. c \in Actors /\ call \in CallType
  BY CallAssumption DEF Actors
<1>3. pc' \in [Actors -> Points] /\ \A a \in Actors : pc'[a] \in PointsOf(a)
  BY <1>2, ActorAssumption DEF CallLocked, CallRead, TypeOK, TaskTypes, Points, PointsOf
<1>4. calls' \in [Callers -> 0 .. MaxCalls]
  BY BoundAssumption DEF CallLocked, CallRead, TypeOK, TaskTypes
<1>5. job' \in [Actors -> CallType] /\ lock_waiters' \in Seq(Actors)
  <2>1. CASE CallLocked(c, call)
    BY <1>2, <2>1 DEF CallLocked, TypeOK, TaskTypes
  <2>2. CASE CallRead(c, call)
    BY <1>2, <2>2 DEF CallRead, TypeOK, TaskTypes, locking
  <2> QED
    BY <2>1, <2>2
<1>6. TaskTypes'
  BY <1>3, <1>4, <1>5 DEF CallLocked, CallRead, TypeOK, TaskTypes, requests, locking
<1> QED
  BY <1>1, <1>6 DEF TypeOK

LEMMA WriteMessageTypes ==
    ASSUME NEW c \in Callers, NEW call \in Calls, TypeOK, WriteMessage(c, call)
    PROVE  TypeOK'
<1>1. c \in Actors /\ call \in CallType
  BY CallAssumption DEF Actors
<1>2. paused' \in BOOLEAN
  BY DEF WriteMessage, Stalls, TypeOK, FlagTypes
<1>3. FlagTypes' /\ MessageTypes' /\ ReportTypes'
  BY <1>2 DEF WriteMessage, TypeOK, FlagTypes, MessageTypes, ReportTypes,
         session, backlogs, reporting, arrivals
<1>4. calls' \in [Callers -> 0 .. MaxCalls]
  BY BoundAssumption DEF WriteMessage, TypeOK, TaskTypes
<1>5. /\ pc' \in [Actors -> Points] /\ \A b \in Actors : pc'[b] \in PointsOf(b)
      /\ job' \in [Actors -> CallType]
      /\ updates' \in Seq(UpdateType) /\ Len(updates') = Len(updates)
      /\ ticket' \in [Actors -> 0 .. Len(updates)]
  <2>1. CASE Return(c, "error") \/ Return(c, "ok")
    BY <1>1, <2>1, ReturnTypes DEF Results
  <2>2. CASE /\ pc' = [pc EXCEPT ![c] = "stalled"]
             /\ job' = [job EXCEPT ![c] = call]
             /\ UNCHANGED <<ticket, updates>>
    BY <1>1, <2>2 DEF TypeOK, TaskTypes, UpdateTypes, UpdateType, Points, PointsOf
  <2> QED
    BY <2>1, <2>2 DEF WriteMessage
<1>6. TaskTypes'
  BY <1>4, <1>5 DEF WriteMessage, TypeOK, TaskTypes, locking, requests
<1>7. UpdateTypes'
  BY <1>5 DEF WriteMessage, TypeOK, UpdateTypes, UpdateType
<1> QED
  BY <1>3, <1>6, <1>7 DEF TypeOK

LEMMA CoalescedUpdateTypes ==
    ASSUME NEW c \in Callers, NEW call \in Calls, TypeOK, CoalescedUpdate(c, call)
    PROVE  TypeOK'
<1>1. c \in Actors /\ call \in CallType
  BY CallAssumption DEF Actors
<1>2. FlagTypes' /\ MessageTypes' /\ ReportTypes'
  BY DEF CoalescedUpdate, TypeOK, FlagTypes, MessageTypes, ReportTypes,
         session, link, backlogs, reporting, arrivals
<1>3. calls' \in [Callers -> 0 .. MaxCalls]
  BY BoundAssumption DEF CoalescedUpdate, TypeOK, TaskTypes
<1>4. CASE Unavailable
  <2>1. Return(c, "error") /\ UNCHANGED coalesced_updates
    BY <1>4 DEF CoalescedUpdate
  <2>2. /\ pc' \in [Actors -> Points] /\ \A b \in Actors : pc'[b] \in PointsOf(b)
        /\ job' \in [Actors -> CallType]
        /\ updates' \in Seq(UpdateType) /\ Len(updates') = Len(updates)
        /\ ticket' \in [Actors -> 0 .. Len(updates)]
    BY <1>1, <2>1, ReturnTypes DEF Results
  <2>3. TaskTypes'
    BY <1>3, <2>2 DEF CoalescedUpdate, TypeOK, TaskTypes, locking, requests
  <2>4. UpdateTypes'
    BY <2>1, <2>2 DEF CoalescedUpdate, TypeOK, UpdateTypes, UpdateType
  <2> QED
    BY <1>2, <2>3, <2>4 DEF TypeOK
<1>5. CASE ~Unavailable
  <2> DEFINE u == Len(updates) + 1
             previous == Previous(call.key)
             resolved == Resolved(previous, "superseded")
             update == [call |-> call, result |-> "waiting"]
  <2>1. /\ coalesced_updates' = Enqueue(u, previous \cap Elements(coalesced_updates))
        /\ updates' = Append(resolved, update)
        /\ pc' = [pc EXCEPT ![c] = "queued"]
        /\ job' = [job EXCEPT ![c] = call]
        /\ ticket' = [ticket EXCEPT ![c] = u]
    BY <1>5 DEF CoalescedUpdate
  <2>2. resolved \in Seq(UpdateType) /\ Len(resolved) = Len(updates)
    BY ResolvedType DEF TypeOK, Results
  <2>3. update \in UpdateType
    BY <1>1 DEF UpdateType, Results
  <2>4. updates' \in Seq(UpdateType) /\ Len(updates') = u /\ Len(updates) \in Nat
    BY <2>1, <2>2, <2>3 DEF TypeOK, UpdateTypes
  <2>5. coalesced_updates \in Seq(1 .. u)
    BY SeqMonotonic DEF TypeOK, UpdateTypes
  <2>6. coalesced_updates' \in Seq(1 .. u)
    <3> DEFINE same == previous \cap Elements(coalesced_updates)
    <3>1. CASE same = {}
      BY <2>1, <2>4, <2>5, <3>1 DEF Enqueue
    <3>2. CASE same # {}
      <4>1. coalesced_updates' = [i \in DOMAIN coalesced_updates |->
                IF coalesced_updates[i] \in same THEN u ELSE coalesced_updates[i]]
        BY <2>1, <3>2 DEF Enqueue
      <4>2. DOMAIN coalesced_updates = 1 .. Len(coalesced_updates)
        BY <2>5
      <4> HIDE DEF same
      <4>3. \A i \in DOMAIN coalesced_updates : coalesced_updates'[i] \in 1 .. u
        BY <2>4, <2>5, <4>1
      <4> QED
        BY <2>5, <4>1, <4>2, <4>3
    <3> QED
      BY <3>1, <3>2
  <2>7. ticket' \in [Actors -> 0 .. u]
    BY <1>1, <2>1, <2>4 DEF TypeOK, UpdateTypes
  <2>8. sent' \subseteq 0 .. u
    BY <2>4 DEF CoalescedUpdate, TypeOK, UpdateTypes
  <2>9. UpdateTypes'
    BY <2>4, <2>6, <2>7, <2>8 DEF UpdateTypes, UpdateType
  <2>10. pc' \in [Actors -> Points] /\ \A b \in Actors : pc'[b] \in PointsOf(b)
    BY <1>1, <2>1, ActorAssumption DEF TypeOK, TaskTypes, Points, PointsOf
  <2>11. TaskTypes'
    BY <1>1, <1>3, <2>1, <2>10 DEF CoalescedUpdate, TypeOK, TaskTypes, locking, requests
  <2> QED
    BY <1>2, <2>9, <2>11 DEF TypeOK
<1> QED
  BY <1>4, <1>5

LEMMA AcquireFailsTypes ==
    ASSUME NEW a \in Actors, TypeOK, AcquireFails(a)
    PROVE  TypeOK'
<1>1. FlagTypes' /\ MessageTypes' /\ ReportTypes'
  BY DEF AcquireFails, TypeOK, FlagTypes, MessageTypes, ReportTypes,
         session, link, backlogs, reporting, arrivals
<1>2. lock_waiters' \in Seq(Actors)
  BY DEF AcquireFails, TypeOK, TaskTypes
<1>3. /\ pc' \in [Actors -> Points] /\ \A b \in Actors : pc'[b] \in PointsOf(b)
      /\ job' \in [Actors -> CallType]
      /\ updates' \in Seq(UpdateType) /\ Len(updates') = Len(updates)
      /\ ticket' \in [Actors -> 0 .. Len(updates)]
  BY ReturnTypes DEF AcquireFails, Results
<1>4. TaskTypes'
  BY <1>2, <1>3 DEF AcquireFails, TypeOK, TaskTypes, requests
<1>5. UpdateTypes'
  BY <1>3 DEF AcquireFails, TypeOK, UpdateTypes, UpdateType
<1> QED
  BY <1>1, <1>4, <1>5 DEF TypeOK

LEMMA AcquireTypes ==
    ASSUME NEW a \in Actors, TypeOK, Acquire(a)
    PROVE  TypeOK'
<1>1. paused' \in BOOLEAN
  BY DEF Acquire, Stalls
<1>2. FlagTypes' /\ MessageTypes' /\ ReportTypes'
  BY <1>1 DEF Acquire, TypeOK, FlagTypes, MessageTypes, ReportTypes,
         session, backlogs, reporting, arrivals
<1>3. lock_waiters' \in Seq(Actors)
  BY DEF Acquire, TypeOK, TaskTypes
<1>4. /\ pc' \in [Actors -> Points] /\ \A b \in Actors : pc'[b] \in PointsOf(b)
      /\ job' \in [Actors -> CallType]
      /\ updates' \in Seq(UpdateType) /\ Len(updates') = Len(updates)
      /\ ticket' \in [Actors -> 0 .. Len(updates)]
      /\ lock' \in Actors \cup {Nobody}
  <2>1. CASE Return(a, "ok") /\ UNCHANGED lock
    BY <2>1, ReturnTypes DEF Results, TypeOK, TaskTypes
  <2>2. CASE /\ lock' = a
             /\ pc' = [pc EXCEPT ![a] = IF paused' THEN "stalled" ELSE "await"]
             /\ UNCHANGED <<job, ticket, updates>>
    <3> DEFINE point == IF paused' THEN "stalled" ELSE "await"
    <3>1. point \in PointsOf(a) /\ point \in Points
      BY DEF Points, PointsOf
    <3>2. pc' = [pc EXCEPT ![a] = point]
      BY <2>2
    <3> HIDE DEF point
    <3>3. pc' \in [Actors -> Points] /\ \A b \in Actors : pc'[b] \in PointsOf(b)
      BY <3>1, <3>2 DEF TypeOK, TaskTypes
    <3> QED
      BY <2>2, <3>3 DEF TypeOK, TaskTypes, UpdateTypes, UpdateType
  <2> QED
    BY <2>1, <2>2 DEF Acquire
<1>5. future' \in [Actors -> Ids \cup {Unset, Failed}] /\ pending' \subseteq Actors
  BY DEF Acquire, TypeOK, TaskTypes
<1>6. TaskTypes'
  BY <1>3, <1>4, <1>5 DEF Acquire, TypeOK, TaskTypes
<1>7. sent' \subseteq 0 .. Len(updates)
  BY DEF Acquire, TypeOK, UpdateTypes
<1>8. UpdateTypes'
  BY <1>4, <1>7 DEF Acquire, TypeOK, UpdateTypes, UpdateType
<1> QED
  BY <1>2, <1>6, <1>8 DEF TypeOK

LEMMA DrainedTypes ==
    ASSUME NEW a \in Actors, TypeOK,
           Drained(a) \/ WriteRaises(a) \/ Resume(a) \/ Timeout(a)
    PROVE  TypeOK'
<1>1. CASE Drained(a) /\ AwaitsResponse(a)
  <2>1. pc' = [pc EXCEPT ![a] = "await"] /\ UNCHANGED <<lock, requests, job, ticket, updates>>
    BY <1>1 DEF Drained
  <2>2. pc' \in [Actors -> Points] /\ \A b \in Actors : pc'[b] \in PointsOf(b)
    BY <2>1 DEF TypeOK, TaskTypes, Points, PointsOf
  <2>3. FlagTypes' /\ MessageTypes' /\ ReportTypes' /\ UpdateTypes'
    BY <1>1, <2>1 DEF Drained, TypeOK, FlagTypes, MessageTypes, ReportTypes, UpdateTypes,
           session, link, backlogs, reporting, arrivals
  <2>4. TaskTypes'
    BY <1>1, <2>1, <2>2 DEF Drained, TypeOK, TaskTypes, requests
  <2> QED
    BY <2>3, <2>4 DEF TypeOK
<1>2. CASE /\ \E how \in Results : Finish(a, how)
           /\ UNCHANGED <<session, link, lock_waiters, calls, backlogs,
                          coalesced_updates, sent, reporting, arrivals, severed>>
  BY <1>2, FinishKeepsTypes
<1>3. Drained(a) /\ ~AwaitsResponse(a) => Finish(a, "ok")
  BY DEF Drained
<1>4. WriteRaises(a) => Finish(a, "error") \/ Finish(a, "cancelled")
  BY DEF WriteRaises
<1>5. Resume(a) => Finish(a, "ok") \/ Finish(a, "error")
  BY DEF Resume
<1>6. Timeout(a) => Finish(a, "timeout")
  BY DEF Timeout
<1>7. {"ok", "error", "cancelled", "timeout"} \subseteq Results
  BY DEF Results
<1>8. ~(Drained(a) /\ AwaitsResponse(a)) => \E how \in Results : Finish(a, how)
  BY <1>3, <1>4, <1>5, <1>6, <1>7
<1> QED
  BY <1>1, <1>2, <1>8 DEF Drained, WriteRaises, Resume, Timeout

\* What Task.cancel() changes, at every point, in either task.
LEMMA CancelTaskTypes ==
    ASSUME NEW a \in Actors, TypeOK, CancelTask(a), UNCHANGED <<calls, sent>>
    PROVE  TaskTypes' /\ UpdateTypes'
<1>0. "cancelled" \in Results
  BY DEF Results
<1>1. CASE /\ lock_waiters' = Without(lock_waiters, a)
           /\ Return(a, "cancelled")
           /\ UNCHANGED <<lock, requests, coalesced_updates>>
  <2>1. lock_waiters' \in Seq(Actors)
    BY <1>1, WithoutType DEF TypeOK, TaskTypes
  <2>2. /\ pc' \in [Actors -> Points] /\ \A b \in Actors : pc'[b] \in PointsOf(b)
        /\ job' \in [Actors -> CallType]
        /\ updates' \in Seq(UpdateType) /\ Len(updates') = Len(updates)
        /\ ticket' \in [Actors -> 0 .. Len(updates)]
    BY <1>0, <1>1, ReturnTypes
  <2> QED
    BY <1>1, <2>1, <2>2 DEF TypeOK, TaskTypes, UpdateTypes, UpdateType, requests
<1>2. CASE /\ pc' = [b \in Actors |-> IF pc[b] = "stalled" THEN "cut" ELSE pc[b]]
           /\ UNCHANGED <<locking, job, ticket, requests, coalesced_updates, updates>>
  <2>1. pc' \in [Actors -> Points] /\ \A b \in Actors : pc'[b] \in PointsOf(b)
    BY <1>2 DEF TypeOK, TaskTypes, Points, PointsOf
  <2> QED
    BY <1>2, <2>1 DEF TypeOK, TaskTypes, UpdateTypes, UpdateType, requests, locking
<1>3. CASE Finish(a, "cancelled") /\ UNCHANGED <<lock_waiters, coalesced_updates>>
  <2>1. /\ pc' \in [Actors -> Points] /\ \A b \in Actors : pc'[b] \in PointsOf(b)
        /\ job' \in [Actors -> CallType]
        /\ updates' \in Seq(UpdateType) /\ Len(updates') = Len(updates)
        /\ ticket' \in [Actors -> 0 .. Len(updates)]
    BY <1>0, <1>3, ReturnTypes DEF Finish
  <2>2. TaskTypes'
    BY <1>0, <1>3, <2>1, FinishTypes DEF TypeOK, TaskTypes
  <2>3. UpdateTypes'
    BY <1>3, <2>1 DEF TypeOK, UpdateTypes, UpdateType
  <2> QED
    BY <2>2, <2>3
<1>4. CASE /\ pc[a] = "queued"
           /\ coalesced_updates' = Without(coalesced_updates, ticket[a])
           /\ updates' = Resolved({ticket[a]}, "cancelled")
           /\ pc' = [pc EXCEPT ![a] = "idle"]
           /\ ticket' = [ticket EXCEPT ![a] = 0]
           /\ job' = [job EXCEPT ![a] = NoCall]
           /\ UNCHANGED <<locking, requests>>
  <2>1. updates' \in Seq(UpdateType) /\ Len(updates') = Len(updates) /\ Len(updates) \in Nat
    <3>1. updates \in Seq(UpdateType)
      BY DEF TypeOK, UpdateTypes, UpdateType
    <3>2. UpdateTypes
      BY DEF TypeOK
    <3> QED
      BY <1>0, <1>4, <3>1, <3>2, ResolvedType
  <2>2. coalesced_updates' \in Seq(1 .. Len(updates))
    BY <1>4, WithoutType DEF TypeOK, UpdateTypes
  <2>3. ticket' \in [Actors -> 0 .. Len(updates)]
    BY <1>4, <2>1 DEF TypeOK, UpdateTypes
  <2>4. UpdateTypes'
    BY <2>1, <2>2, <2>3 DEF TypeOK, UpdateTypes, UpdateType
  <2>5. pc' \in [Actors -> Points] /\ \A b \in Actors : pc'[b] \in PointsOf(b)
    BY <1>4 DEF TypeOK, TaskTypes, Points, PointsOf
  <2>6. job' \in [Actors -> CallType]
    BY <1>4, NoCallType DEF TypeOK, TaskTypes
  <2> QED
    BY <1>4, <2>4, <2>5, <2>6 DEF TypeOK, TaskTypes, requests, locking
<1> QED
  BY <1>1, <1>2, <1>3, <1>4 DEF CancelTask

LEMMA CancelTypes ==
    ASSUME NEW c \in Callers, TypeOK, Cancel(c)
    PROVE  TypeOK'
<1>1. TaskTypes' /\ UpdateTypes'
  BY CancelTaskTypes DEF Cancel, Actors
<1>2. FlagTypes' /\ MessageTypes' /\ ReportTypes'
  BY DEF Cancel, TypeOK, FlagTypes, MessageTypes, ReportTypes, session, link, backlogs,
         reporting, arrivals
<1> QED
  BY <1>1, <1>2 DEF TypeOK

LEMMA CoalescedResultTypes ==
    ASSUME NEW c \in Callers, TypeOK, CoalescedResult(c)
    PROVE  TypeOK'
<1>1. FlagTypes' /\ MessageTypes' /\ ReportTypes'
  BY DEF CoalescedResult, TypeOK, FlagTypes, MessageTypes, ReportTypes, session, link,
         backlogs, reporting, arrivals
<1>2. /\ pc' \in [Actors -> Points] /\ \A b \in Actors : pc'[b] \in PointsOf(b)
      /\ job' \in [Actors -> CallType]
      /\ updates' \in Seq(UpdateType) /\ Len(updates') = Len(updates)
      /\ ticket' \in [Actors -> 0 .. Len(updates)]
  BY ReturnTypes, ActorAssumption DEF CoalescedResult, Actors
<1>3. TaskTypes'
  BY <1>2 DEF CoalescedResult, TypeOK, TaskTypes, locking, requests
<1>4. UpdateTypes'
  BY <1>2 DEF CoalescedResult, TypeOK, UpdateTypes, UpdateType
<1> QED
  BY <1>1, <1>3, <1>4 DEF TypeOK

LEMMA WriterTypes ==
    ASSUME TypeOK, PopUpdate \/ WriterExits
    PROVE  TypeOK'
<1>1. FlagTypes' /\ MessageTypes' /\ ReportTypes'
  BY DEF PopUpdate, WriterExits, TypeOK, FlagTypes, MessageTypes, ReportTypes, session,
         link, backlogs, reporting, arrivals
<1>2. Writer \in Actors
  BY DEF Actors
<1>3. pc' \in [Actors -> Points] /\ \A b \in Actors : pc'[b] \in PointsOf(b)
  BY <1>2 DEF PopUpdate, WriterExits, TypeOK, TaskTypes, Points, PointsOf
<1>4. CASE PopUpdate
  <2> DEFINE u == Head(coalesced_updates)
             call == updates[u].call
  <2>1. u \in 1 .. Len(updates) /\ Tail(coalesced_updates) \in Seq(1 .. Len(updates))
    BY <1>4 DEF PopUpdate, TypeOK, UpdateTypes
  <2>2. updates[u] \in UpdateType /\ Len(updates) \in Nat
    <3>1. updates \in Seq(UpdateType)
      BY DEF TypeOK, UpdateTypes, UpdateType
    <3> HIDE DEF u
    <3> QED
      BY <2>1, <3>1
  <2>3. call \in CallType
    BY <2>2 DEF UpdateType
  <2>4. ticket' = [ticket EXCEPT ![Writer] = u]
    BY <1>4 DEF PopUpdate
  <2>5. job' = [job EXCEPT ![Writer] =
            [call EXCEPT !.kind = IF @ = "post" THEN "send" ELSE "update"]]
    BY <1>4 DEF PopUpdate
  <2> HIDE DEF u, call
  <2>6. ticket' \in [Actors -> 0 .. Len(updates)]
    BY <1>2, <2>1, <2>2, <2>4 DEF TypeOK, UpdateTypes
  <2>7. [call EXCEPT !.kind = IF @ = "post" THEN "send" ELSE "update"] \in CallType
    <3>1. {"send", "update"} \subseteq Kinds
      BY DEF Kinds, LockedKinds
    <3> QED
      BY <2>3, <3>1 DEF CallType
  <2>8. job' \in [Actors -> CallType]
    BY <2>5, <2>7 DEF TypeOK, TaskTypes
  <2>9. lock_waiters' \in Seq(Actors)
    BY <1>2, <1>4 DEF PopUpdate, TypeOK, TaskTypes
  <2>10. TaskTypes'
    BY <1>3, <1>4, <2>8, <2>9 DEF PopUpdate, TypeOK, TaskTypes, requests
  <2>11. UpdateTypes'
    BY <1>4, <2>1, <2>6 DEF PopUpdate, TypeOK, UpdateTypes
  <2> QED
    BY <1>1, <2>10, <2>11 DEF TypeOK
<1>5. CASE WriterExits
  <2>1. TaskTypes'
    BY <1>3, <1>5 DEF WriterExits, TypeOK, TaskTypes, requests, locking
  <2>2. UpdateTypes'
    BY <1>5 DEF WriterExits, TypeOK, UpdateTypes, coalescing
  <2> QED
    BY <1>1, <2>1, <2>2 DEF TypeOK
<1> QED
  BY <1>4, <1>5

\* What a report put in every registered queue, an item or a sentinel, keeps.
LEMMA PublishTypes ==
    ASSUME NEW item \in Ids \cup Sentinels, TypeOK, _publish_report(item)
    PROVE  items' \in [Subscribers -> Seq(Ids \cup Sentinels)]
<1>1. \A s \in Subscribers :
        /\ items[s] \in Seq(Ids \cup Sentinels)
        /\ _put_report_item(items[s], item, QueueSize[s]) \in Seq(Ids \cup Sentinels)
  <2> TAKE s \in Subscribers
  <2>1. items[s] \in Seq(Ids \cup Sentinels) /\ QueueSize[s] \in Nat
    BY BoundAssumption DEF BoundAssumption, TypeOK, ReportTypes
  <2> QED
    BY <2>1, PutType
<1> QED
  BY <1>1 DEF _publish_report

LEMMA FailTypes ==
    ASSUME TypeOK, _fail_pending, _fail_coalesced_updates, UNCHANGED <<ticket, sent>>
    PROVE  /\ future' \in [Actors -> Ids \cup {Unset, Failed}] /\ pending' \subseteq Actors
           /\ UpdateTypes'
<1>1. future' \in [Actors -> Ids \cup {Unset, Failed}] /\ pending' \subseteq Actors
  BY DEF _fail_pending, TypeOK, TaskTypes
<1>2. updates' \in Seq(UpdateType) /\ Len(updates') = Len(updates)
  BY ResolvedType DEF _fail_coalesced_updates, TypeOK, Results
<1>3. coalesced_updates' \in Seq(1 .. Len(updates))
  BY DEF _fail_coalesced_updates
<1> QED
  BY <1>1, <1>2, <1>3 DEF TypeOK, UpdateTypes, UpdateType

LEMMA ReaderErrorTypes ==
    ASSUME TypeOK, _set_reader_error,
           UNCHANGED <<link, locking, tasks, sent, severed, subscription, seen, since>>
    PROVE  /\ FlagTypes' /\ TaskTypes' /\ UpdateTypes'
           /\ report_queues' \subseteq Subscribers
           /\ items' \in [Subscribers -> Seq(Ids \cup Sentinels)]
<1>1. FlagTypes'
  BY DEF _set_reader_error, TypeOK, FlagTypes, link
<1>2. /\ future' \in [Actors -> Ids \cup {Unset, Failed}] /\ pending' \subseteq Actors
      /\ UpdateTypes'
  BY FailTypes DEF _set_reader_error, tasks
<1>3. TaskTypes'
  BY <1>2 DEF TypeOK, TaskTypes, locking, tasks
<1>4. items' \in [Subscribers -> Seq(Ids \cup Sentinels)] /\ report_queues' = {}
  BY PublishTypes DEF _set_reader_error, EndReports, Sentinels
<1> QED
  BY <1>1, <1>2, <1>3, <1>4

LEMMA ReceiveTypes ==
    ASSUME NEW m \in Methods \cup {Malformed, Foreign}, TypeOK, Receive(m)
    PROVE  TypeOK'
<1> DEFINE id == Len(received) + 1
<1>1. id \in Ids /\ id \in 0 .. MaxMessages
  BY BoundAssumption DEF BoundAssumption, Receive, TypeOK, MessageTypes, Ids
<1>2. received' \in Seq(Methods \cup {Malformed, Foreign}) /\ Len(received') <= MaxMessages
  BY BoundAssumption DEF BoundAssumption, Receive, TypeOK, MessageTypes
<1>3. packet_backlog' \in Seq(Ids)
  <2>1. Append(packet_backlog, id) \in Seq(Ids)
    BY <1>1 DEF TypeOK, MessageTypes
  <2>2. packet_backlog' = Trim(Append(packet_backlog, id), max_packet_backlog)
    BY DEF Receive
  <2> QED
    BY <2>1, <2>2, TrimType, BoundAssumption DEF BoundAssumption
<1>4. UNCHANGED <<link, locking, tasks, sent, severed, subscription, seen, since>>
  BY DEF Receive
<1>5. CASE m = Foreign /\ UNCHANGED <<session, requests, message_backlog, answered,
                                coalesced_updates, updates, items, report_queues,
                                published>>
  <2>1. FlagTypes' /\ UpdateTypes'
    BY <1>4, <1>5 DEF TypeOK, FlagTypes, UpdateTypes, session, link, tasks
  <2>2. TaskTypes'
    BY <1>4, <1>5 DEF TypeOK, TaskTypes, locking, tasks, requests
  <2>3. MessageTypes' /\ ReportTypes'
    BY <1>2, <1>3, <1>4, <1>5 DEF TypeOK, MessageTypes, ReportTypes
  <2> QED
    BY <2>1, <2>2, <2>3 DEF TypeOK
<1>6. CASE _set_reader_error /\ UNCHANGED <<message_backlog, answered, published>>
  <2>1. MessageTypes'
    BY <1>2, <1>3, <1>6 DEF TypeOK, MessageTypes
  <2>2. ReportTypes'
    BY <1>4, <1>6, ReaderErrorTypes DEF TypeOK, ReportTypes
  <2> QED
    BY <1>4, <1>6, <2>1, <2>2, ReaderErrorTypes DEF TypeOK
<1>7. CASE _dispatch_message(id, m) /\ UNCHANGED <<session, coalesced_updates, updates>>
  <2>1. FlagTypes' /\ UpdateTypes'
    BY <1>4, <1>7 DEF TypeOK, FlagTypes, UpdateTypes, session, link, tasks
  <2>2. future' \in [Actors -> Ids \cup {Unset, Failed}] /\ pending' \subseteq Actors
    BY <1>1, <1>7 DEF _dispatch_message, TypeOK, TaskTypes
  <2>3. TaskTypes'
    BY <1>4, <2>2 DEF TypeOK, TaskTypes, locking, tasks
  <2>4. message_backlog' \in Seq(Ids)
    <3>1. Append(message_backlog, id) \in Seq(Ids)
      BY <1>1 DEF TypeOK, MessageTypes
    <3>2. Trim(Append(message_backlog, id), max_message_backlog) \in Seq(Ids)
      BY <3>1, TrimType, BoundAssumption DEF BoundAssumption
    <3> QED
      BY <1>7, <3>2 DEF _dispatch_message, KeepUnmatched, TypeOK, MessageTypes
  <2>5. published' \subseteq Ids /\ answered' \subseteq Ids
    BY <1>1, <1>7 DEF _dispatch_message, TypeOK, MessageTypes
  <2>6. MessageTypes'
    BY <1>2, <1>3, <2>4, <2>5 DEF TypeOK, MessageTypes
  <2>7. items' \in [Subscribers -> Seq(Ids \cup Sentinels)] /\ UNCHANGED report_queues
    <3>1. _publish_report(id) => items' \in [Subscribers -> Seq(Ids \cup Sentinels)]
      BY <1>1, PublishTypes
    <3>2. UNCHANGED items => items' \in [Subscribers -> Seq(Ids \cup Sentinels)]
      BY DEF TypeOK, ReportTypes
    <3> QED
      BY <1>7, <3>1, <3>2 DEF _dispatch_message
  <2>8. ReportTypes'
    BY <1>4, <2>7 DEF TypeOK, ReportTypes
  <2> QED
    BY <2>1, <2>3, <2>6, <2>8 DEF TypeOK
<1> QED
  BY <1>5, <1>6, <1>7 DEF Receive

\* A loop's step that moves tasks from one point to another.
LEMMA LinkTypes ==
    ASSUME TypeOK, ResumeWriting \/ ConnectionLost \/ ConnectionClosed
    PROVE  TypeOK'
<1>1. pc' \in [Actors -> Points] /\ \A b \in Actors : pc'[b] \in PointsOf(b)
  BY DEF ResumeWriting, ConnectionLost, ConnectionClosed, SnapWrites, TypeOK, TaskTypes,
         Points, PointsOf
<1>2. FlagTypes'
  BY DEF ResumeWriting, ConnectionLost, ConnectionClosed, TypeOK, FlagTypes, session
<1>3. UNCHANGED <<locking, job, ticket, calls, requests, backlogs, coalescing, reporting,
                  arrivals>>
  BY DEF ResumeWriting, ConnectionLost, ConnectionClosed
<1>4. TaskTypes'
  BY <1>1, <1>3 DEF TypeOK, TaskTypes, locking, requests
<1>5. UpdateTypes' /\ MessageTypes' /\ ReportTypes'
  BY <1>3 DEF TypeOK, UpdateTypes, MessageTypes, ReportTypes, coalescing, backlogs,
         reporting, arrivals
<1> QED
  BY <1>2, <1>4, <1>5 DEF TypeOK

LEMMA ReaderFailsTypes ==
    ASSUME TypeOK, ReaderFails
    PROVE  TypeOK'
<1>1. /\ FlagTypes' /\ TaskTypes' /\ UpdateTypes'
      /\ report_queues' \subseteq Subscribers
      /\ items' \in [Subscribers -> Seq(Ids \cup Sentinels)]
  BY ReaderErrorTypes DEF ReaderFails
<1>2. MessageTypes'
  BY DEF ReaderFails, TypeOK, MessageTypes, backlogs, arrivals
<1>3. ReportTypes'
  BY <1>1 DEF ReaderFails, TypeOK, ReportTypes
<1> QED
  BY <1>1, <1>2, <1>3 DEF TypeOK

LEMMA ReadTypes ==
    ASSUME NEW c \in Callers, TypeOK, Read(c)
    PROVE  TypeOK'
<1>1. FlagTypes' /\ ReportTypes'
  BY DEF Read, TypeOK, FlagTypes, ReportTypes, session, link, reporting
<1>2. Return(c, "ok") \/ Return(c, "error") \/ Return(c, "closed")
  BY DEF Read
<1>3. c \in Actors /\ c # Writer
  BY ActorAssumption DEF Actors
<1>4. /\ pc' \in [Actors -> Points] /\ \A b \in Actors : pc'[b] \in PointsOf(b)
      /\ job' \in [Actors -> CallType]
      /\ updates' \in Seq(UpdateType) /\ Len(updates') = Len(updates)
      /\ ticket' \in [Actors -> 0 .. Len(updates)]
  BY <1>2, <1>3, ReturnTypes
<1>5. TaskTypes'
  BY <1>4 DEF Read, TypeOK, TaskTypes, locking, requests
<1>6. UpdateTypes'
  BY <1>4 DEF Read, TypeOK, UpdateTypes, UpdateType
<1>7. message_backlog' \in Seq(Ids) /\ packet_backlog' \in Seq(Ids)
  <2>1. message_backlog \in Seq(Ids) /\ packet_backlog \in Seq(Ids)
    BY DEF TypeOK, MessageTypes
  <2>2. CASE UNCHANGED backlogs
    BY <2>1, <2>2 DEF backlogs
  <2>3. CASE \E i \in DOMAIN packet_backlog :
               packet_backlog' = RemoveAt(packet_backlog, i) /\ UNCHANGED message_backlog
    BY <2>1, <2>3, RemoveAtType
  <2>4. CASE \E i \in DOMAIN message_backlog :
               message_backlog' = RemoveAt(message_backlog, i) /\ UNCHANGED packet_backlog
    BY <2>1, <2>4, RemoveAtType
  <2>5. _pop_message_backlog(job[c]) \subseteq DOMAIN message_backlog
    BY DEF _pop_message_backlog
  <2> QED
    BY <2>2, <2>3, <2>4, <2>5 DEF Read
<1>8. MessageTypes'
  <2>1. UNCHANGED <<published, received, answered>>
    BY DEF Read, reporting, arrivals
  <2> QED
    BY <1>7, <2>1 DEF TypeOK, MessageTypes
<1> QED
  BY <1>1, <1>5, <1>6, <1>8 DEF TypeOK

\* A subscription or its consumer touches nothing but its own queue.
LEMMA SubscriberTypes ==
    ASSUME NEW s \in Subscribers, TypeOK,
           \/ \E replay_backlog \in BOOLEAN : Subscribe(s, replay_backlog)
           \/ NextReport(s) \/ CloseSubscription(s)
    PROVE  TypeOK'
<1>1. UNCHANGED <<session, link, locking, tasks, requests, backlogs, coalescing,
                  published, arrivals, severed>>
  BY DEF Subscribe, NextReport, CloseSubscription
<1>2. FlagTypes' /\ UpdateTypes'
  BY <1>1 DEF TypeOK, FlagTypes, UpdateTypes, session, link, tasks, coalescing
<1>3. TaskTypes' /\ MessageTypes'
  BY <1>1 DEF TypeOK, TaskTypes, MessageTypes, locking, tasks, requests, backlogs, arrivals
<1>4. /\ report_queues' \subseteq Subscribers
      /\ subscription' \in [Subscribers -> {"off", "live", "dead", "closing", "ended"}]
  <2>1. /\ report_queues \subseteq Subscribers
        /\ subscription \in [Subscribers -> {"off", "live", "dead", "closing", "ended"}]
    BY DEF TypeOK, ReportTypes
  <2>2. report_queues' \subseteq report_queues \cup {s}
    BY DEF Subscribe, NextReport, CloseSubscription
  <2>3. \/ subscription' = subscription
        \/ \E to \in {"off", "live", "dead", "closing", "ended"} :
              subscription' = [subscription EXCEPT ![s] = to]
    BY DEF Subscribe, NextReport, CloseSubscription
  <2> QED
    BY <2>1, <2>2, <2>3
<1> DEFINE Items == Ids \cup Sentinels
<1>5. items[s] \in Seq(Items) /\ QueueSize[s] \in Nat
  BY BoundAssumption DEF BoundAssumption, TypeOK, ReportTypes
<1>6. /\ \E queue \in Seq(Items) : items' = [items EXCEPT ![s] = queue]
      /\ since' \in [Subscribers -> 0 .. MaxMessages]
      /\ seen' \in [Subscribers -> 0 .. MaxMessages]
  <2>1. CASE \E replay_backlog \in BOOLEAN : Subscribe(s, replay_backlog)
    <3>1. <<>> \in Seq(Items) /\ <<ErrorItem>> \in Seq(Items)
      BY DEF Sentinels
    <3>2. message_backlog \in Seq(Ids)
      BY DEF TypeOK, MessageTypes
    <3>3. Newest(message_backlog, QueueSize[s]) \in Seq(Ids)
      BY <1>5, <3>2, NewestType
    <3>4. message_backlog \in Seq(Items) /\ Newest(message_backlog, QueueSize[s]) \in Seq(Items)
      BY <3>2, <3>3, SeqMonotonic
    <3>5. \E queue \in Seq(Items) : items' = [items EXCEPT ![s] = queue]
      BY <2>1, <3>1, <3>4 DEF Subscribe
    <3>6. Len(received) \in 0 .. MaxMessages
      BY BoundAssumption DEF BoundAssumption, TypeOK, MessageTypes
    <3>7. since' = [since EXCEPT ![s] = Len(received)] /\ seen' = seen
      BY <2>1 DEF Subscribe
    <3>8. /\ since \in [Subscribers -> 0 .. MaxMessages]
          /\ seen \in [Subscribers -> 0 .. MaxMessages]
      BY DEF TypeOK, ReportTypes
    <3> QED
      BY <3>5, <3>6, <3>7, <3>8
  <2>2. CASE NextReport(s)
    <3>1. Tail(items[s]) \in Seq(Items) /\ Head(items[s]) \in Items
      BY <1>5, <2>2 DEF NextReport
    <3>2. Head(items[s]) \notin Sentinels => Head(items[s]) \in 0 .. MaxMessages
      BY <3>1 DEF Ids
    <3> QED
      BY <2>2, <3>1, <3>2 DEF NextReport, TypeOK, ReportTypes
  <2>3. CASE CloseSubscription(s)
    <3>1. _put_report_item(items[s], EndOfReports, QueueSize[s]) \in Seq(Items)
      BY <1>5, PutType DEF Sentinels
    <3> QED
      BY <2>3, <3>1 DEF CloseSubscription, TypeOK, ReportTypes
  <2> QED
    BY <2>1, <2>2, <2>3
<1>7. items' \in [Subscribers -> Seq(Items)]
  BY <1>6 DEF TypeOK, ReportTypes
<1>8. ReportTypes'
  BY <1>1, <1>4, <1>6, <1>7 DEF ReportTypes, TypeOK
<1> QED
  BY <1>2, <1>3, <1>8 DEF TypeOK

LEMMA OpenTypes ==
    ASSUME TypeOK, Open \/ Opened \/ Close
    PROVE  TypeOK'
<1>1. UNCHANGED <<locking, job, ticket, calls, requests, backlogs, coalescing, reporting,
                  arrivals>>
  BY DEF Open, Opened, Close, tasks
<1>2. opens' \in 0 .. MaxOpens
  BY BoundAssumption DEF BoundAssumption, Open, Opened, Close, TypeOK, FlagTypes
<1>3. closed' \in BOOLEAN /\ reader_error' \in BOOLEAN /\ reader_task' \in {"running", "done"}
      /\ severed' \in BOOLEAN
  BY DEF Open, Opened, Close, SessionUp, session, TypeOK, FlagTypes
<1>4. /\ transport' \in {"none", "open", "lost", "closing"} /\ paused' \in BOOLEAN
      /\ lifecycle' \in {"idle", "opening", "reopening", "cancel_writer",
                         "await_writer", "closing"}
  BY DEF Open, Opened, Close, TypeOK, FlagTypes
<1>5. pc' \in [Actors -> Points] /\ \A b \in Actors : pc'[b] \in PointsOf(b)
  <2>1. CASE UNCHANGED pc
    BY <2>1 DEF TypeOK, TaskTypes
  <2>2. CASE SessionUp
    BY <2>2 DEF SessionUp, TypeOK, TaskTypes, Points, PointsOf
  <2> QED
    BY <2>1, <2>2 DEF Open, Opened, Close, tasks
<1>6. TaskTypes'
  BY <1>1, <1>5 DEF TypeOK, TaskTypes, locking, requests
<1>7. UpdateTypes' /\ MessageTypes' /\ ReportTypes'
  BY <1>1 DEF TypeOK, UpdateTypes, MessageTypes, ReportTypes, coalescing, backlogs,
         reporting, arrivals
<1>8. FlagTypes'
  BY <1>2, <1>3, <1>4 DEF FlagTypes
<1> QED
  BY <1>6, <1>7, <1>8 DEF TypeOK

LEMMA CloseTypes ==
    ASSUME TypeOK, CancelWriter \/ CloseSession
    PROVE  TypeOK'
<1>1. CASE CancelWriter
  <2>1. FlagTypes' /\ MessageTypes' /\ ReportTypes'
    BY <1>1 DEF CancelWriter, TypeOK, FlagTypes, MessageTypes, ReportTypes, session,
           backlogs, reporting, arrivals
  <2>2. CASE CancelTask(Writer)
    BY <1>1, <2>1, <2>2, CancelTaskTypes DEF CancelWriter, TypeOK, Actors
  <2>3. CASE /\ pc' = [pc EXCEPT ![Writer] = "done"]
             /\ UNCHANGED <<locking, job, ticket, requests, coalesced_updates, updates>>
    <3>1. pc' \in [Actors -> Points] /\ \A b \in Actors : pc'[b] \in PointsOf(b)
      BY <2>3 DEF TypeOK, TaskTypes, Points, PointsOf
    <3>2. TaskTypes'
      BY <1>1, <2>3, <3>1 DEF CancelWriter, TypeOK, TaskTypes, locking, requests
    <3>3. UpdateTypes'
      BY <1>1, <2>3 DEF CancelWriter, TypeOK, UpdateTypes
    <3> QED
      BY <2>1, <3>2, <3>3 DEF TypeOK
  <2> QED
    BY <1>1, <2>2, <2>3 DEF CancelWriter
<1>2. CASE CloseSession
  <2>1. FlagTypes' /\ MessageTypes'
    BY <1>2 DEF CloseSession, TypeOK, FlagTypes, MessageTypes, session, backlogs, arrivals
  <2>2. /\ future' \in [Actors -> Ids \cup {Unset, Failed}] /\ pending' \subseteq Actors
        /\ UpdateTypes'
    BY <1>2, FailTypes DEF CloseSession, tasks
  <2>3. TaskTypes'
    BY <1>2, <2>2 DEF CloseSession, TypeOK, TaskTypes, locking, tasks
  <2>4. items' \in [Subscribers -> Seq(Ids \cup Sentinels)] /\ report_queues' = {}
    BY <1>2, PublishTypes DEF CloseSession, EndReports, Sentinels
  <2>5. ReportTypes'
    BY <1>2, <2>4 DEF CloseSession, TypeOK, ReportTypes
  <2> QED
    BY <2>1, <2>2, <2>3, <2>5 DEF TypeOK
<1> QED
  BY <1>1, <1>2

-----------------------------------------------------------------------------

LEMMA TypeNext == TypeOK /\ [Next]_vars => TypeOK'
<1> SUFFICES ASSUME TypeOK, [Next]_vars PROVE TypeOK'
  OBVIOUS
<1>1. ASSUME NEW c \in Callers, Call(c) PROVE TypeOK'
  BY <1>1, CallLockedTypes, WriteMessageTypes, CoalescedUpdateTypes DEF Call
<1>2. ASSUME NEW c \in Callers, Cancel(c) \/ CoalescedResult(c) \/ Read(c) PROVE TypeOK'
  BY <1>2, CancelTypes, CoalescedResultTypes, ReadTypes
<1>3. ASSUME NEW a \in Actors, Step(a) \/ Timeout(a) PROVE TypeOK'
  BY <1>3, AcquireFailsTypes, AcquireTypes, DrainedTypes DEF Step
<1>4. CASE PopUpdate \/ WriterExits
  BY <1>4, WriterTypes
<1>5. CASE ResumeWriting \/ ConnectionLost \/ ReaderFails
  BY <1>5, LinkTypes, ReaderFailsTypes
<1>6. ASSUME NEW m \in Methods \cup {Malformed, Foreign}, Receive(m) PROVE TypeOK'
  BY <1>6, ReceiveTypes
<1>7. ASSUME NEW s \in Subscribers,
             \/ \E replay_backlog \in BOOLEAN : Subscribe(s, replay_backlog)
             \/ NextReport(s) \/ CloseSubscription(s)
      PROVE  TypeOK'
  BY <1>7, SubscriberTypes
<1>8. CASE Open \/ Close \/ LifecycleStep
  BY <1>8, OpenTypes, CloseTypes, LinkTypes DEF LifecycleStep
<1>9. CASE UNCHANGED vars
  <2>1. UNCHANGED <<session, link, locking, tasks, requests, backlogs, coalescing, reporting,
                    arrivals, severed>>
    BY <1>9 DEF vars
  <2>2. FlagTypes' /\ UpdateTypes'
    BY <2>1 DEF TypeOK, FlagTypes, UpdateTypes, session, link, tasks, coalescing
  <2>3. TaskTypes'
    BY <2>1 DEF TypeOK, TaskTypes, locking, tasks, requests
  <2>4. MessageTypes'
    BY <2>1 DEF TypeOK, MessageTypes, backlogs, reporting, arrivals, reporting
  <2>5. ReportTypes'
    BY <2>1 DEF TypeOK, ReportTypes, reporting
  <2> QED
    BY <2>2, <2>3, <2>4, <2>5 DEF TypeOK
<1> QED
  BY <1>1, <1>2, <1>3, <1>4, <1>5, <1>6, <1>7, <1>8, <1>9 DEF Next

\* Every variable of the session holds a value of its type in every reachable
\* state, whatever the callers, keys, queue sizes and bounds.
THEOREM TypeCorrect == Spec => []TypeOK
<1> QED
  BY TypeInit, TypeNext, PTL DEF Spec

-----------------------------------------------------------------------------
(* A pending entry belongs to the holder of the transaction lock.  The        *)
(* inductive invariant adds that the entries belong to tasks: a free lock     *)
(* then means that there is no entry.                                         *)

PendingInv ==
    /\ pending \subseteq Actors
    /\ PendingOwnedByHolder

\* Ending a call removes the task's entry and releases its lock together.
LEMMA FinishKeepsPendingInv ==
    ASSUME NEW a, NEW how, PendingInv, Finish(a, how)
    PROVE  PendingInv'
BY DEF PendingInv, PendingOwnedByHolder, Finish, _remove_pending, Release

\* A cancelled task is waiting for the lock, or leaves with its entry.
LEMMA CancelKeepsPendingInv ==
    ASSUME NEW a \in Actors, PendingInv, CancelTask(a)
    PROVE  PendingInv'
<1>1. CASE Finish(a, "cancelled")
  BY <1>1, FinishKeepsPendingInv
<1>2. CASE UNCHANGED <<lock, pending>>
  BY <1>2 DEF PendingInv, PendingOwnedByHolder
<1> QED
  BY <1>1, <1>2 DEF CancelTask, locking, requests

LEMMA PendingInvInit == Init => PendingInv
BY DEF Init, PendingInv, PendingOwnedByHolder

LEMMA PendingInvNext == PendingInv /\ [Next]_vars => PendingInv'
<1> SUFFICES ASSUME PendingInv, [Next]_vars PROVE PendingInv'
  OBVIOUS
<1> USE DEF PendingInv, PendingOwnedByHolder
<1>1. ASSUME NEW c \in Callers, Call(c) PROVE PendingInv'
  BY <1>1 DEF Call, CallLocked, WriteMessage, CoalescedUpdate, CallRead, locking, requests
<1>2. ASSUME NEW c \in Callers, Cancel(c) PROVE PendingInv'
  BY <1>2, CancelKeepsPendingInv DEF Cancel, Actors
<1>3. ASSUME NEW c \in Callers, CoalescedResult(c) PROVE PendingInv'
  BY <1>3 DEF CoalescedResult, locking, requests
<1>4. ASSUME NEW c \in Callers, Read(c) PROVE PendingInv'
  BY <1>4 DEF Read, locking, requests
<1>5. ASSUME NEW a \in Actors, AcquireFails(a) PROVE PendingInv'
  BY <1>5 DEF AcquireFails, requests
<1>6. ASSUME NEW a \in Actors, Acquire(a) PROVE PendingInv'
  <2>1. pending = {}
    BY <1>6, ActorAssumption DEF Acquire
  <2>2. CASE AwaitsResponse(a)
    BY <1>6, <2>1, <2>2 DEF Acquire
  <2>3. CASE ~AwaitsResponse(a)
    BY <1>6, <2>1, <2>3 DEF Acquire
  <2> QED
    BY <2>2, <2>3
<1>7. ASSUME NEW a \in Actors, Drained(a) PROVE PendingInv'
  BY <1>7, FinishKeepsPendingInv DEF Drained, requests
<1>8. ASSUME NEW a \in Actors, WriteRaises(a) PROVE PendingInv'
  BY <1>8, FinishKeepsPendingInv DEF WriteRaises
<1>9. ASSUME NEW a \in Actors, Resume(a) \/ Timeout(a) PROVE PendingInv'
  BY <1>9, FinishKeepsPendingInv DEF Resume, Timeout
<1>10. CASE PopUpdate \/ WriterExits
  BY <1>10 DEF PopUpdate, WriterExits, locking, requests
<1>11. CASE ResumeWriting \/ ConnectionLost
  BY <1>11 DEF ResumeWriting, ConnectionLost, locking, requests
<1>12. CASE ReaderFails
  BY <1>12 DEF ReaderFails, _set_reader_error, _fail_pending, locking
<1>13. ASSUME NEW m \in Methods \cup {Malformed, Foreign}, Receive(m) PROVE PendingInv'
  BY <1>13 DEF Receive, _set_reader_error, _fail_pending, _dispatch_message,
               locking, requests
<1>14. ASSUME NEW s \in Subscribers,
              \/ \E replay_backlog \in BOOLEAN : Subscribe(s, replay_backlog)
              \/ NextReport(s)
              \/ CloseSubscription(s)
       PROVE  PendingInv'
  BY <1>14 DEF Subscribe, NextReport, CloseSubscription, locking, requests
<1>15. CASE Open \/ Close
  BY <1>15 DEF Open, Close, locking, requests
<1>16. CASE LifecycleStep
  <2>1. CASE Opened \/ ConnectionClosed
    BY <2>1 DEF Opened, ConnectionClosed, locking, requests
  <2>2. CASE CancelWriter
    BY <2>2, CancelKeepsPendingInv DEF CancelWriter, Actors, locking, requests
  <2>3. CASE CloseSession
    BY <2>3 DEF CloseSession, _fail_pending, locking
  <2> QED
    BY <1>16, <2>1, <2>2, <2>3 DEF LifecycleStep
<1>17. CASE UNCHANGED vars
  BY <1>17 DEF vars, locking, requests
<1> QED
  BY <1>1, <1>2, <1>3, <1>4, <1>5, <1>6, <1>7, <1>8, <1>9, <1>10, <1>11, <1>12,
     <1>13, <1>14, <1>15, <1>16, <1>17 DEF Next, Step

\* Whatever the interleaving of callers, writer, reader, time-outs, errors and
\* lifecycle calls, _pending holds at most the entry of the lock's holder.
THEOREM PendingOwned == Spec => []PendingOwnedByHolder
<1>1. PendingInv => PendingOwnedByHolder
  BY DEF PendingInv
<1> QED
  BY <1>1, PendingInvInit, PendingInvNext, PTL DEF Spec

-----------------------------------------------------------------------------
(* A task that waits for a response can be found.  Its entry is there from    *)
(* the write on, so the invariant starts where the task acquires the lock.    *)

InRequest == {"stalled", "drained", "await"}

AwaitInv ==
    \A a \in Actors :
        /\ pc[a] = "await" => AwaitsResponse(a)
        /\ pc[a] \in InRequest /\ AwaitsResponse(a) /\ future[a] = Unset => a \in pending

\* What a step may do to the tasks that are in a request.
KeepsRequest(a) ==
    pc'[a] \in InRequest =>
        /\ pc[a] \in InRequest /\ job'[a] = job[a]
        /\ pc'[a] = "await" => AwaitsResponse(a)
        /\ future'[a] = Unset => future[a] = Unset /\ (a \in pending => a \in pending')

LEMMA KeepsAwaitInv ==
    ASSUME AwaitInv, \A a \in Actors : KeepsRequest(a)
    PROVE  AwaitInv'
BY DEF AwaitInv, KeepsRequest, AwaitsResponse, InRequest

LEMMA ReturnKeepsRequests ==
    ASSUME TypeOK, AwaitInv, NEW a \in Actors, NEW how, Return(a, how),
           UNCHANGED <<future, pending>>
    PROVE  AwaitInv'
<1>1. \A b \in Actors : KeepsRequest(b)
  BY DEF Return, KeepsRequest, InRequest, TypeOK, TaskTypes, AwaitInv
<1> QED
  BY <1>1, KeepsAwaitInv

LEMMA FinishKeepsRequests ==
    ASSUME TypeOK, AwaitInv, NEW a \in Actors, NEW how, Finish(a, how)
    PROVE  AwaitInv'
<1>1. \A b \in Actors : KeepsRequest(b)
  BY DEF Finish, Return, _remove_pending, KeepsRequest, InRequest, TypeOK, TaskTypes,
         AwaitInv
<1> QED
  BY <1>1, KeepsAwaitInv

LEMMA CancelKeepsRequests ==
    ASSUME TypeOK, AwaitInv, NEW a \in Actors, CancelTask(a)
    PROVE  AwaitInv'
<1>1. CASE pc[a] = "lock" /\ Return(a, "cancelled") /\ UNCHANGED requests
  BY <1>1, ReturnKeepsRequests DEF requests
<1>2. CASE /\ pc' = [b \in Actors |-> IF pc[b] = "stalled" THEN "cut" ELSE pc[b]]
           /\ UNCHANGED <<job, requests>>
  <2>1. \A b \in Actors : KeepsRequest(b)
    BY <1>2 DEF KeepsRequest, InRequest, AwaitInv, requests
  <2> QED
    BY <2>1, KeepsAwaitInv
<1>3. CASE Finish(a, "cancelled")
  BY <1>3, FinishKeepsRequests
<1>4. CASE /\ pc' = [pc EXCEPT ![a] = "idle"] /\ job' = [job EXCEPT ![a] = NoCall]
           /\ UNCHANGED requests
  <2>1. \A b \in Actors : KeepsRequest(b)
    BY <1>4 DEF KeepsRequest, InRequest, AwaitInv, requests, TypeOK, TaskTypes
  <2> QED
    BY <2>1, KeepsAwaitInv
<1> QED
  BY <1>1, <1>2, <1>3, <1>4 DEF CancelTask

LEMMA CallKeepsRequests ==
    ASSUME TypeOK, AwaitInv, NEW c \in Callers, Call(c)
    PROVE  AwaitInv'
<1>1. c \in Actors /\ UNCHANGED <<future, pending>>
  BY DEF Actors, Call, CallLocked, WriteMessage, CoalescedUpdate, CallRead, requests
<1>2. CASE \E how : Return(c, how)
  BY <1>1, <1>2, ReturnKeepsRequests
<1>3. CASE \E call \in Calls, point \in {"lock", "queued", "reading"} :
            pc' = [pc EXCEPT ![c] = point] /\ job' = [job EXCEPT ![c] = call]
  <2>1. \A b \in Actors : KeepsRequest(b)
    BY <1>1, <1>3 DEF KeepsRequest, InRequest, AwaitInv, TypeOK, TaskTypes
  <2> QED
    BY <2>1, KeepsAwaitInv
<1>4. CASE \E call \in Calls : /\ call.kind = "write" /\ pc' = [pc EXCEPT ![c] = "stalled"]
                              /\ job' = [job EXCEPT ![c] = call]
  BY <1>1, <1>4 DEF AwaitInv, AwaitsResponse, InRequest, TypeOK, TaskTypes
<1> QED
  BY <1>2, <1>3, <1>4 DEF Call, CallLocked, WriteMessage, CoalescedUpdate, CallRead

LEMMA AcquireKeepsRequests ==
    ASSUME TypeOK, AwaitInv, NEW a \in Actors, Acquire(a)
    PROVE  AwaitInv'
<1> SUFFICES ASSUME NEW b \in Actors
             PROVE  /\ pc'[b] = "await" => AwaitsResponse(b)'
                    /\ pc'[b] \in InRequest /\ AwaitsResponse(b)' /\ future'[b] = Unset
                           => b \in pending'
  BY DEF AwaitInv
<1>1. CASE a # b
  BY <1>1 DEF Acquire, Return, AwaitInv, AwaitsResponse, TypeOK, TaskTypes
<1>2. CASE a = b /\ (paused' \/ AwaitsResponse(a))
  BY <1>2 DEF Acquire, AwaitsResponse, TypeOK, TaskTypes
<1>3. CASE a = b /\ ~(paused' \/ AwaitsResponse(a))
  BY <1>3 DEF Acquire, Return, InRequest, TypeOK, TaskTypes
<1> QED
  BY <1>1, <1>2, <1>3

LEMMA DispatchKeepsRequests ==
    ASSUME TypeOK, AwaitInv, UNCHANGED tasks,
           \/ _fail_pending \/ UNCHANGED requests
           \/ \E id \in Nat \ {0} : \E m : _dispatch_message(id, m)
    PROVE  AwaitInv'
<1>1. \A b \in Actors : KeepsRequest(b)
  <2>1. CASE _fail_pending
    BY <2>1 DEF _fail_pending, KeepsRequest, AwaitInv, tasks, Failed, Unset
  <2>2. CASE UNCHANGED requests
    BY <2>2 DEF KeepsRequest, AwaitInv, tasks, requests
  <2>3. ASSUME NEW id \in Nat \ {0}, NEW m, _dispatch_message(id, m)
        PROVE  \A b \in Actors : KeepsRequest(b)
    BY <2>3 DEF _dispatch_message, KeepsRequest, AwaitInv, tasks, Unset
  <2> QED
    BY <2>1, <2>2, <2>3
<1> QED
  BY <1>1, KeepsAwaitInv

\* Opening, closing, draining and losing the connection only end waits.
LEMMA LinkKeepsRequests ==
    ASSUME TypeOK, AwaitInv, UNCHANGED <<job, requests>>,
           \A a \in Actors :
            \/ pc'[a] = pc[a] \/ pc'[a] \notin InRequest
            \/ pc[a] = "stalled" /\ pc'[a] = "drained"
    PROVE  AwaitInv'
<1>1. \A b \in Actors : KeepsRequest(b)
  BY DEF KeepsRequest, InRequest, AwaitInv, requests
<1> QED
  BY <1>1, KeepsAwaitInv

LEMMA AwaitInvInit == Init => AwaitInv
BY DEF Init, AwaitInv, InRequest

LEMMA AwaitInvNext == TypeOK /\ AwaitInv /\ [Next]_vars => AwaitInv'
<1> SUFFICES ASSUME TypeOK, AwaitInv, [Next]_vars PROVE AwaitInv'
  OBVIOUS
<1>1. ASSUME NEW c \in Callers, Call(c) PROVE AwaitInv'
  BY <1>1, CallKeepsRequests
<1>2. ASSUME NEW c \in Callers, Cancel(c) PROVE AwaitInv'
  BY <1>2, CancelKeepsRequests DEF Cancel, Actors
<1>3. ASSUME NEW c \in Callers, CoalescedResult(c) \/ Read(c) PROVE AwaitInv'
  BY <1>3, ReturnKeepsRequests DEF CoalescedResult, Read, Actors, requests
<1>4. ASSUME NEW a \in Actors, AcquireFails(a) PROVE AwaitInv'
  BY <1>4, ReturnKeepsRequests DEF AcquireFails, requests
<1>5. ASSUME NEW a \in Actors, Acquire(a) PROVE AwaitInv'
  BY <1>5, AcquireKeepsRequests
<1>6. ASSUME NEW a \in Actors, Drained(a) PROVE AwaitInv'
  <2>1. CASE AwaitsResponse(a)
    <3>1. \A b \in Actors : KeepsRequest(b)
      BY <1>6, <2>1 DEF Drained, KeepsRequest, InRequest, AwaitInv, TypeOK, TaskTypes,
                        requests
    <3> QED
      BY <3>1, KeepsAwaitInv
  <2>2. CASE ~AwaitsResponse(a)
    BY <1>6, <2>2, FinishKeepsRequests DEF Drained
  <2> QED
    BY <2>1, <2>2
<1>7. ASSUME NEW a \in Actors, WriteRaises(a) \/ Resume(a) \/ Timeout(a) PROVE AwaitInv'
  BY <1>7, FinishKeepsRequests DEF WriteRaises, Resume, Timeout
<1>8. CASE PopUpdate
  <2>1. Writer \in Actors
    BY DEF Actors
  <2>2. \A b \in Actors : KeepsRequest(b)
    BY <1>8, <2>1 DEF PopUpdate, KeepsRequest, InRequest, AwaitInv, TypeOK, TaskTypes, requests
  <2> QED
    BY <2>2, KeepsAwaitInv
<1>9. CASE WriterExits \/ ResumeWriting \/ ConnectionLost \/ Open \/ Close \/ Opened
           \/ ConnectionClosed
  <2>1. UNCHANGED <<job, requests>>
    BY <1>9 DEF WriterExits, ResumeWriting, ConnectionLost, Open, Close, Opened,
                ConnectionClosed, tasks
  <2>2. \A a \in Actors :
            \/ pc'[a] = pc[a] \/ pc'[a] \notin InRequest
            \/ pc[a] = "stalled" /\ pc'[a] = "drained"
    BY <1>9 DEF WriterExits, ResumeWriting, ConnectionLost, Open, Close, Opened,
                ConnectionClosed, SessionUp, SnapWrites, InRequest, tasks, TypeOK, TaskTypes
  <2> QED
    BY <2>1, <2>2, LinkKeepsRequests
<1>10. CASE CancelWriter
  <2>1. Writer \in Actors
    BY DEF Actors
  <2>2. CASE CancelTask(Writer)
    BY <2>1, <2>2, CancelKeepsRequests
  <2>3. CASE pc' = [pc EXCEPT ![Writer] = "done"] /\ UNCHANGED <<job, requests>>
    BY <2>1, <2>3, LinkKeepsRequests DEF InRequest, TypeOK, TaskTypes
  <2> QED
    BY <1>10, <2>2, <2>3 DEF CancelWriter
<1>11. CASE ReaderFails \/ CloseSession
  BY <1>11, DispatchKeepsRequests DEF ReaderFails, CloseSession, _set_reader_error
<1>12. ASSUME NEW m \in Methods \cup {Malformed, Foreign}, Receive(m) PROVE AwaitInv'
  <2>1. Len(received) + 1 \in Nat \ {0}
    BY DEF TypeOK, MessageTypes
  <2> QED
    BY <1>12, <2>1, DispatchKeepsRequests DEF Receive, _set_reader_error
<1>13. ASSUME NEW s \in Subscribers,
              \/ \E replay_backlog \in BOOLEAN : Subscribe(s, replay_backlog)
              \/ NextReport(s)
              \/ CloseSubscription(s)
       PROVE  AwaitInv'
  BY <1>13, DispatchKeepsRequests DEF Subscribe, NextReport, CloseSubscription
<1>14. CASE UNCHANGED vars
  BY <1>14, DispatchKeepsRequests DEF vars
<1> QED
  BY <1>1, <1>2, <1>3, <1>4, <1>5, <1>6, <1>7, <1>8, <1>9, <1>10, <1>11, <1>12,
     <1>13, <1>14 DEF Next, Step, LifecycleStep

\* A task that waits for a response has an entry that the reader, a reader error
\* or close() will find (session.py:474-500, 533-558, 591-597).
THEOREM RequestsCanBeAnswered == Spec => []NoStrandedRequest
<1>1. AwaitInv => NoStrandedRequest
  BY DEF AwaitInv, NoStrandedRequest, InRequest
<1> QED
  BY <1>1, AwaitInvInit, AwaitInvNext, TypeCorrect, PTL DEF Spec

-----------------------------------------------------------------------------
(* A session that is down holds nothing back.  Only open() and close() close  *)
(* a connection: that it is being closed says where they are, so the end of a *)
(* connection never cuts a close() short.                                     *)

ConnectionOwner == transport = "closing" => lifecycle \in {"reopening", "closing"}

DownInv == DownSessionIsEmpty /\ ConnectionOwner

Closing == {"cancel_writer", "await_writer"}

\* The step leaves a session that is down as it is.
KeepsDown ==
    closed' /\ lifecycle' \notin Closing =>
        \/ pending' = {} /\ coalesced_updates' = <<>>
        \/ /\ closed /\ lifecycle \notin Closing
           /\ pending' \subseteq pending
           /\ coalesced_updates = <<>> => coalesced_updates' = <<>>

LEMMA KeepsDownInv ==
    ASSUME DownInv, KeepsDown, ConnectionOwner'
    PROVE  DownInv'
BY DEF DownInv, DownSessionIsEmpty, KeepsDown, Closing

LEMMA WithoutEmpty == \A e : Without(<<>>, e) = <<>>
BY DEF Without, Elements

LEMMA CancelKeepsDown ==
    ASSUME NEW a, CancelTask(a)
    PROVE  /\ pending' \subseteq pending
           /\ coalesced_updates = <<>> => coalesced_updates' = <<>>
BY WithoutEmpty DEF CancelTask, Finish, _remove_pending, requests

LEMMA DownInvInit == Init => DownInv
BY DEF Init, DownInv, DownSessionIsEmpty, ConnectionOwner

LEMMA DownInvNext == DownInv /\ [Next]_vars => DownInv'
<1> SUFFICES ASSUME DownInv, [Next]_vars PROVE KeepsDown /\ ConnectionOwner'
  BY KeepsDownInv
<1> USE DEF KeepsDown, ConnectionOwner, DownInv
<1>1. ASSUME NEW c \in Callers, Call(c) PROVE KeepsDown /\ ConnectionOwner'
  BY <1>1 DEF Call, CallLocked, WriteMessage, CoalescedUpdate, CallRead,
              session, link, requests, coalescing, Unavailable
<1>2. ASSUME NEW c \in Callers, Cancel(c) PROVE KeepsDown /\ ConnectionOwner'
  BY <1>2, CancelKeepsDown DEF Cancel, session, link
<1>3. ASSUME NEW c \in Callers, CoalescedResult(c) \/ Read(c)
      PROVE  KeepsDown /\ ConnectionOwner'
  BY <1>3 DEF CoalescedResult, Read, session, link, requests
<1>4. ASSUME NEW a \in Actors, Step(a) \/ Timeout(a) PROVE KeepsDown /\ ConnectionOwner'
  BY <1>4 DEF Step, AcquireFails, Acquire, Drained, WriteRaises, Resume, Timeout,
              Finish, _remove_pending, session, link, requests, Unavailable
<1>5. CASE PopUpdate \/ WriterExits
  BY <1>5 DEF PopUpdate, WriterExits, session, link, requests, coalescing
<1>6. CASE ResumeWriting \/ ConnectionLost
  BY <1>6 DEF ResumeWriting, ConnectionLost, session, requests, coalescing
<1>7. CASE ReaderFails
  BY <1>7 DEF ReaderFails, _set_reader_error, _fail_pending, _fail_coalesced_updates, link
<1>8. ASSUME NEW m \in Methods \cup {Malformed, Foreign}, Receive(m)
      PROVE  KeepsDown /\ ConnectionOwner'
  BY <1>8 DEF Receive, _dispatch_message, _set_reader_error, _fail_pending,
              _fail_coalesced_updates, session, link, requests
<1>9. ASSUME NEW s \in Subscribers,
             \/ \E replay_backlog \in BOOLEAN : Subscribe(s, replay_backlog)
             \/ NextReport(s)
             \/ CloseSubscription(s)
      PROVE  KeepsDown /\ ConnectionOwner'
  BY <1>9 DEF Subscribe, NextReport, CloseSubscription, session, link, requests, coalescing
<1>10. CASE Open \/ Close \/ Opened
  BY <1>10 DEF Open, Close, Opened, SessionUp, Closing, session, requests, coalescing
<1>11. CASE CancelWriter
  BY <1>11 DEF CancelWriter, Closing, session
<1>12. CASE CloseSession
  BY <1>12 DEF CloseSession, _fail_pending, _fail_coalesced_updates
<1>13. CASE ConnectionClosed
  BY <1>13 DEF ConnectionClosed, Closing, session, requests, coalescing
<1>14. CASE UNCHANGED vars
  BY <1>14 DEF vars, session, link, requests, coalescing
<1> QED
  BY <1>1, <1>2, <1>3, <1>4, <1>5, <1>6, <1>7, <1>8, <1>9, <1>10, <1>11, <1>12,
     <1>13, <1>14 DEF Next, LifecycleStep

\* When close() has returned or the reader has failed, no request is pending and no
\* update queued, whatever callers, time-outs and the writer did meanwhile
\* (session.py:188-214, 574-583).
THEOREM DownIsEmpty == Spec => []DownSessionIsEmpty
<1>1. DownInv => DownSessionIsEmpty
  BY DEF DownInv
<1> QED
  BY <1>1, DownInvInit, DownInvNext, PTL DEF Spec

-----------------------------------------------------------------------------
(* Reports.  Queues of messages in the order of arrival, and the sentinel that *)
(* ends one.                                                                   *)

\* Every message of the queue is newer than "low" and than what is before it.
InOrder(queue, low) ==
    \A j \in DOMAIN queue : queue[j] \notin Sentinels =>
        /\ low < queue[j]
        /\ \A i \in DOMAIN queue : i < j => queue[i] < queue[j]

\* "rest" is the queue without its k oldest items.
Drops(rest, queue, k) ==
    /\ DOMAIN rest = 1 .. Len(queue) - k
    /\ \A i \in 1 .. Len(queue) - k : rest[i] = queue[i + k]

LEMMA NewestItems ==
    ASSUME NEW S, NEW queue \in Seq(S), NEW n \in Nat
    PROVE  \E k \in 0 .. Len(queue) :
                /\ Drops(Newest(queue, n), queue, k)
                /\ Len(Newest(queue, n)) = Len(queue) - k
                /\ k # 0 => Len(queue) - k = n
                /\ Len(queue) - k <= n
<1>1. CASE Len(queue) > n
  <2> DEFINE k == Len(queue) - n
             rest == SubSeq(queue, k + 1, Len(queue))
  <2>1. k \in 0 .. Len(queue) /\ Newest(queue, n) = rest
    BY <1>1 DEF Newest
  <2>2. Len(rest) = n /\ DOMAIN rest = 1 .. n /\ \A i \in 1 .. n : rest[i] = queue[i + k]
    BY <1>1
  <2>3. Len(queue) - k = n
    OBVIOUS
  <2> HIDE DEF k, rest
  <2> QED
    BY <2>1, <2>2, <2>3 DEF Drops
<1>2. CASE ~(Len(queue) > n)
  <2>1. Newest(queue, n) = queue
    BY <1>2 DEF Newest
  <2>2. Drops(queue, queue, 0) /\ 0 \in 0 .. Len(queue)
    BY DEF Drops
  <2> QED
    BY <1>2, <2>1, <2>2
<1> QED
  BY <1>1, <1>2

LEMMA DropsInOrder ==
    ASSUME NEW S, NEW queue \in Seq(S), NEW rest, NEW k \in 0 .. Len(queue), NEW low,
           Drops(rest, queue, k), InOrder(queue, low)
    PROVE  InOrder(rest, low) /\ Elements(rest) \subseteq Elements(queue)
<1>1. \A i \in DOMAIN rest : i + k \in DOMAIN queue /\ rest[i] = queue[i + k]
  BY DEF Drops
<1>2. \A i, j \in DOMAIN rest : i < j => i + k < j + k
  BY DEF Drops
<1>3. InOrder(rest, low)
  BY <1>1, <1>2 DEF InOrder
<1>4. Elements(rest) \subseteq Elements(queue)
  BY <1>1 DEF Elements
<1> QED
  BY <1>3, <1>4

LEMMA AppendInOrder ==
    ASSUME NEW queue \in Seq(Int), NEW item \in Int, NEW low \in Int, InOrder(queue, low),
           item \in Sentinels \/ (low < item /\ \A e \in Elements(queue) : e < item)
    PROVE  /\ InOrder(Append(queue, item), low)
           /\ Elements(Append(queue, item)) = Elements(queue) \cup {item}
<1> DEFINE t == Append(queue, item)
<1>1. /\ DOMAIN t = 1 .. Len(queue) + 1 /\ DOMAIN queue = 1 .. Len(queue) /\ Len(queue) \in Nat
      /\ \A i \in 1 .. Len(queue) : t[i] = queue[i]
      /\ t[Len(queue) + 1] = item
  OBVIOUS
<1> HIDE DEF t
<1>2. InOrder(t, low)
  <2> SUFFICES ASSUME NEW j \in DOMAIN t, t[j] \notin Sentinels
               PROVE  low < t[j] /\ \A i \in DOMAIN t : i < j => t[i] < t[j]
    BY DEF InOrder
  <2>1. CASE j \in 1 .. Len(queue)
    <3>1. /\ \A i \in DOMAIN t : i < j => i \in DOMAIN queue /\ t[i] = queue[i]
          /\ j \in DOMAIN queue /\ t[j] = queue[j]
      BY <1>1, <2>1
    <3> QED
      BY <3>1 DEF InOrder
  <2>2. CASE j = Len(queue) + 1
    <3>1. t[j] = item /\ low < item /\ \A e \in Elements(queue) : e < item
      BY <1>1, <2>2
    <3>2. \A i \in DOMAIN t : i < j => t[i] \in Elements(queue)
      BY <1>1, <2>2 DEF Elements
    <3> QED
      BY <3>1, <3>2
  <2> QED
    BY <1>1, <2>1, <2>2
<1>3. Elements(t) = Elements(queue) \cup {item}
  BY <1>1 DEF Elements
<1> QED
  BY <1>2, <1>3 DEF t

\* What a queue that is put an item holds afterwards.
LEMMA PutEffect ==
    ASSUME NEW queue \in Seq(Int), NEW item \in Int, NEW low \in Int, NEW size \in Nat,
           InOrder(queue, low),
           item \in Sentinels \/ (low < item /\ \A e \in Elements(queue) : e < item)
    PROVE  LET put == _put_report_item(queue, item, size) IN
           /\ InOrder(put, low)
           /\ Elements(put) \subseteq Elements(queue) \cup {item}
           /\ put # <<>> /\ Last(put) = item /\ item \in Elements(put)
           /\ size > 0 => Len(put) <= size
           /\ \A e \in Elements(queue) : item \notin Sentinels /\ e \notin Elements(put) =>
                /\ size > 0 /\ Len(put) = size
                /\ \A newer \in Elements(put) : newer \in Sentinels \/ e < newer
<1> DEFINE whole == Append(queue, item)
           put == _put_report_item(queue, item, size)
<1>1. /\ whole \in Seq(Int) /\ Len(whole) = Len(queue) + 1 /\ Len(queue) \in Nat
      /\ DOMAIN whole = 1 .. Len(queue) + 1 /\ whole[Len(queue) + 1] = item
  OBVIOUS
<1>2. InOrder(whole, low) /\ Elements(whole) = Elements(queue) \cup {item}
  BY AppendInOrder
<1>3. PICK k \in 0 .. Len(queue) :
            /\ Drops(put, whole, k) /\ Len(put) = Len(whole) - k
            /\ k # 0 => size > 0 /\ Len(put) = size
            /\ size > 0 => Len(put) <= size
  <2>1. CASE size > 0
    <3>1. put = Newest(whole, size)
      BY <2>1 DEF _put_report_item
    <3> HIDE DEF put, whole
    <3>2. PICK k \in 0 .. Len(whole) :
                /\ Drops(put, whole, k) /\ Len(put) = Len(whole) - k
                /\ k # 0 => Len(whole) - k = size
                /\ Len(whole) - k <= size
      BY Zenon, <1>1, <3>1, NewestItems
    <3>3. k \in 0 .. Len(queue)
      BY <1>1, <2>1, <3>2
    <3> QED
      BY <2>1, <3>2, <3>3
  <2>2. CASE ~(size > 0)
    <3>1. put = whole
      BY <2>2 DEF _put_report_item
    <3>2. Drops(whole, whole, 0) /\ 0 \in 0 .. Len(queue) /\ Len(whole) = Len(whole) - 0
      BY <1>1 DEF Drops
    <3> HIDE DEF put, whole
    <3> QED
      BY Zenon, <2>2, <3>1, <3>2
  <2> QED
    BY <2>1, <2>2
<1>4. put \in Seq(Int)
  BY PutType
<1> HIDE DEF whole, put
<1>5. InOrder(put, low) /\ Elements(put) \subseteq Elements(queue) \cup {item}
  BY <1>1, <1>2, <1>3, DropsInOrder
<1>6. /\ Len(put) \in 1 .. Len(queue) + 1 /\ DOMAIN put = 1 .. Len(put)
      /\ put[Len(put)] = whole[Len(put) + k] /\ Len(put) + k = Len(queue) + 1
  BY <1>1, <1>3 DEF Drops
<1>7. put # <<>> /\ Last(put) = item /\ item \in Elements(put)
  <2>1. put # <<>>
    BY <1>6
  <2>2. put[Len(put)] = item /\ Len(put) \in DOMAIN put
    BY <1>1, <1>6
  <2> QED
    BY <2>1, <2>2 DEF Last, Elements
<1>8. ASSUME NEW e \in Elements(queue), item \notin Sentinels, e \notin Elements(put)
      PROVE  /\ size > 0 /\ Len(put) = size
             /\ \A newer \in Elements(put) : newer \in Sentinels \/ e < newer
  <2>1. PICK i \in 1 .. Len(queue) + 1 : whole[i] = e
    BY <1>1, <1>2, <1>8 DEF Elements
  <2>2. i <= k
    <3> SUFFICES ASSUME i > k PROVE FALSE
      BY <1>1, <1>3
    <3> DEFINE j == i - k
    <3>1. j \in 1 .. Len(whole) - k /\ j + k = i
      BY <1>1, <1>3, <2>1
    <3> HIDE DEF j
    <3>2. j \in DOMAIN put /\ put[j] = e
      BY <1>3, <2>1, <3>1 DEF Drops
    <3> QED
      BY <1>8, <3>2 DEF Elements
  <2>3. \A newer \in Elements(put) : newer \in Sentinels \/ e < newer
    <3> SUFFICES ASSUME NEW j \in 1 .. Len(whole) - k, put[j] \notin Sentinels
                 PROVE  e < put[j]
      BY <1>3 DEF Elements, Drops
    <3> DEFINE h == j + k
    <3>1. h \in 1 .. Len(queue) + 1 /\ i < h
      BY <1>1, <2>1, <2>2
    <3>2. put[j] = whole[h]
      BY <1>3 DEF Drops
    <3> HIDE DEF h
    <3> QED
      BY <1>1, <1>2, <2>1, <3>1, <3>2 DEF InOrder
  <2> QED
    BY <1>1, <1>3, <2>1, <2>2, <2>3
<1> QED
  BY <1>3, <1>5, <1>7, <1>8 DEF put

\* A full queue stays full.
LEMMA PutLength ==
    ASSUME NEW queue \in Seq(Int), NEW item \in Int, NEW size \in Nat,
           size > 0, Len(queue) = size
    PROVE  Len(_put_report_item(queue, item, size)) = size
<1> DEFINE whole == Append(queue, item)
<1>1. whole \in Seq(Int) /\ Len(whole) = size + 1
  OBVIOUS
<1>2. _put_report_item(queue, item, size) = Newest(whole, size)
  BY DEF _put_report_item
<1> HIDE DEF whole
<1>3. PICK k \in 0 .. Len(whole) :
            /\ Len(Newest(whole, size)) = Len(whole) - k
            /\ k # 0 => Len(whole) - k = size
            /\ Len(whole) - k <= size
  BY <1>1, NewestItems
<1> QED
  BY <1>1, <1>2, <1>3

LEMMA TrimInOrder ==
    ASSUME NEW queue \in Seq(Int), NEW n \in Int, NEW low, InOrder(queue, low)
    PROVE  InOrder(Trim(queue, n), low) /\ Elements(Trim(queue, n)) \subseteq Elements(queue)
<1>1. CASE n <= 0
  BY <1>1 DEF Trim, InOrder, Elements
<1>2. CASE n > 0
  <2>1. Trim(queue, n) = Newest(queue, n)
    BY <1>2 DEF Trim
  <2>2. n \in Nat
    BY <1>2
  <2>3. PICK k \in 0 .. Len(queue) : Drops(Newest(queue, n), queue, k)
    BY <2>2, NewestItems
  <2> QED
    BY <2>1, <2>3, DropsInOrder
<1> QED
  BY <1>1, <1>2

LEMMA RemoveAtInOrder ==
    ASSUME NEW queue \in Seq(Int), NEW i \in DOMAIN queue, NEW low, InOrder(queue, low)
    PROVE  /\ InOrder(RemoveAt(queue, i), low)
           /\ Elements(RemoveAt(queue, i)) \subseteq Elements(queue)
<1> DEFINE rest == RemoveAt(queue, i)
           from(j) == IF j < i THEN j ELSE j + 1
<1>1. /\ DOMAIN rest = 1 .. Len(queue) - 1 /\ DOMAIN queue = 1 .. Len(queue)
      /\ Len(queue) \in Nat /\ i \in 1 .. Len(queue)
      /\ \A j \in 1 .. Len(queue) - 1 : rest[j] = IF j < i THEN queue[j] ELSE queue[j + 1]
  BY RemoveAtItems
<1> HIDE DEF rest
<1>2. \A j \in DOMAIN rest : from(j) \in DOMAIN queue /\ rest[j] = queue[from(j)]
  BY <1>1
<1>3. \A j, k \in DOMAIN rest : j < k => from(j) < from(k)
  BY <1>1
<1> HIDE DEF from
<1>4. InOrder(rest, low)
  BY <1>2, <1>3 DEF InOrder
<1>5. Elements(rest) \subseteq Elements(queue)
  BY <1>2 DEF Elements
<1> QED
  BY <1>4, <1>5 DEF rest

-----------------------------------------------------------------------------
(* What holds of each subscription, and of the backlog that it may replay. The *)
(* numbers of messages are bounded by what was received, so that the next one  *)
(* is newer than everything a queue holds.                                     *)

Arrived == 1 .. Len(received)

Holds(queue, size, id) ==
    \/ id \in Elements(queue)
    \/ /\ size > 0 /\ Len(queue) = size
       /\ \A newer \in Elements(queue) : id < newer

Complete(s) ==
    \A id \in published : id > since[s] /\ id > seen[s] => Holds(items[s], QueueSize[s], id)

Ends(s) ==
    subscription[s] \in {"live", "dead", "closing"} => items[s] # <<>> /\ Last(items[s]) \in Sentinels

StreamInv(s) ==
    /\ Elements(items[s]) \subseteq Arrived \cup Sentinels
    /\ seen[s] <= Len(received) /\ (subscription[s] = "off" => seen[s] = 0 /\ s \notin report_queues)
    /\ InOrder(items[s], seen[s])
    /\ answered \cap Elements(items[s]) = {}
    /\ s \in report_queues =>
        /\ Elements(items[s]) \cap Sentinels = {} /\ Complete(s)
        /\ QueueSize[s] > 0 => Len(items[s]) <= QueueSize[s]
    /\ s \notin report_queues => Ends(s)

BacklogInv ==
    /\ Elements(message_backlog) \subseteq Arrived /\ InOrder(message_backlog, 0)
    /\ answered \cap Elements(message_backlog) = {}
    /\ answered \subseteq Arrived /\ published \subseteq Arrived

ReportInv == BacklogInv /\ \A s \in Subscribers : StreamInv(s)

LEMMA StreamTypes ==
    ASSUME TypeOK, NEW s \in Subscribers
    PROVE  /\ items[s] \in Seq(Ids \cup Sentinels) /\ items[s] \in Seq(Int)
           /\ message_backlog \in Seq(Ids) /\ message_backlog \in Seq(Int)
           /\ QueueSize[s] \in Nat /\ seen[s] \in Nat /\ since[s] \in Nat
           /\ Len(received) \in Nat /\ Ids \cap Sentinels = {}
<1>1. items[s] \in Seq(Ids \cup Sentinels) /\ message_backlog \in Seq(Ids)
  BY DEF TypeOK, ReportTypes, MessageTypes
<1>2. Ids \cup Sentinels \subseteq Int /\ Ids \subseteq Int /\ Ids \cap Sentinels = {}
  BY BoundAssumption DEF BoundAssumption, Ids, Sentinels, EndOfReports, ErrorItem
<1>3. items[s] \in Seq(Int) /\ message_backlog \in Seq(Int)
  BY <1>1, <1>2, SeqMonotonic
<1> QED
  BY <1>1, <1>2, <1>3, BoundAssumption
     DEF BoundAssumption, TypeOK, ReportTypes, MessageTypes

\* A queue that is left alone while messages arrive elsewhere.
LEMMA RestingStream ==
    ASSUME TypeOK, NEW s \in Subscribers, StreamInv(s),
           items'[s] = items[s], seen'[s] = seen[s], since'[s] = since[s],
           subscription'[s] = subscription[s],
           s \in report_queues' <=> s \in report_queues,
           Len(received) <= Len(received') /\ Len(received') \in Nat,
           answered' = answered \/ answered' = answered \cup {Len(received) + 1},
           published' = published \/ s \notin report_queues
    PROVE  StreamInv(s)'
<1>1. answered' \cap Elements(items[s]) = {}
  BY StreamTypes, SMTT(20) DEF StreamInv, Arrived, Sentinels, EndOfReports, ErrorItem
<1>2. Elements(items[s]) \subseteq Arrived' \cup Sentinels /\ seen[s] <= Len(received')
  BY StreamTypes DEF StreamInv, Arrived
<1> QED
  BY <1>1, <1>2 DEF StreamInv, Complete, Ends, Elements, InOrder

\* A message put in a registered queue.
LEMMA PublishedStream ==
    ASSUME TypeOK, NEW s \in Subscribers, StreamInv(s), s \in report_queues, BacklogInv,
           s \in report_queues', NEW id, id = Len(received) + 1,
           items'[s] = _put_report_item(items[s], id, QueueSize[s]),
           seen'[s] = seen[s], since'[s] = since[s], subscription'[s] = subscription[s],
           Len(received') = id, answered' = answered, published' = published \cup {id}
    PROVE  StreamInv(s)'
<1> DEFINE queue == items[s]
           size == QueueSize[s]
<1> USE DEF StreamInv, Arrived
<1>1. /\ queue \in Seq(Int) /\ id \in Int /\ seen[s] \in Int /\ size \in Nat
      /\ id \notin Sentinels /\ id > 0 /\ id > Len(received) /\ Len(received) \in Nat
  BY StreamTypes DEF Sentinels, EndOfReports, ErrorItem
<1>2. seen[s] < id /\ \A e \in Elements(queue) : e < id /\ e \in 1 .. Len(received)
  BY <1>1
<1>3. /\ InOrder(items'[s], seen[s])
      /\ Elements(items'[s]) \subseteq Elements(queue) \cup {id} /\ id \in Elements(items'[s])
      /\ size > 0 => Len(items'[s]) <= size
      /\ \A e \in Elements(queue) : e \notin Elements(items'[s]) =>
            /\ size > 0 /\ Len(items'[s]) = size
            /\ \A newer \in Elements(items'[s]) : newer \in Sentinels \/ e < newer
  BY <1>1, <1>2, PutEffect
<1>4. /\ Elements(items'[s]) \cap Sentinels = {}
      /\ Elements(items'[s]) \subseteq Arrived' \cup Sentinels
      /\ answered \cap Elements(items'[s]) = {}
  BY <1>1, <1>2, <1>3 DEF BacklogInv
<1>5. ASSUME NEW old \in published, old > since[s], old > seen[s]
      PROVE  Holds(items'[s], size, old)
  <2>1. old < id /\ Holds(queue, size, old)
    BY <1>1, <1>5 DEF BacklogInv, Complete
  <2>2. CASE old \in Elements(queue)
    BY <1>3, <1>4, <2>2 DEF Holds
  <2>3. CASE old \notin Elements(queue)
    <3>1. size > 0 /\ Len(queue) = size /\ \A newer \in Elements(queue) : old < newer
      BY <2>1, <2>3 DEF Holds
    <3>2. \A newer \in Elements(items'[s]) : old < newer
      BY <1>3, <2>1, <3>1
    <3>3. Len(items'[s]) = size
      BY <1>1, <1>3, <3>1, PutLength
    <3> QED
      BY <3>1, <3>2, <3>3 DEF Holds
  <2> QED
    BY <2>2, <2>3
<1>6. Complete(s)'
  BY <1>3, <1>5 DEF Complete, Holds
<1> QED
  BY <1>1, <1>2, <1>3, <1>4, <1>6

\* A sentinel put in a queue that is not registered any more.
LEMMA EndedStream ==
    ASSUME TypeOK, NEW s \in Subscribers, StreamInv(s), s \notin report_queues',
           NEW item \in Sentinels, items'[s] = _put_report_item(items[s], item, QueueSize[s]),
           seen'[s] = seen[s], answered' = answered,
           subscription'[s] # "off" \/ subscription'[s] = subscription[s],
           Len(received) <= Len(received') /\ Len(received') \in Nat
    PROVE  StreamInv(s)'
<1> USE DEF StreamInv, Arrived
<1>1. items[s] \in Seq(Int) /\ item \in Int /\ seen[s] \in Int /\ QueueSize[s] \in Nat
  BY StreamTypes DEF Sentinels, EndOfReports, ErrorItem
<1>2. /\ InOrder(items'[s], seen[s])
      /\ Elements(items'[s]) \subseteq Elements(items[s]) \cup {item}
      /\ items'[s] # <<>> /\ Last(items'[s]) = item
  BY <1>1, PutEffect
<1>3. /\ Elements(items'[s]) \subseteq Arrived' \cup Sentinels /\ seen[s] <= Len(received')
  BY <1>2, StreamTypes
<1>4. answered \cap Elements(items'[s]) = {}
  <2>1. answered \subseteq Ids
    BY DEF TypeOK, MessageTypes
  <2> QED
    BY <1>2, <2>1, StreamTypes
<1> QED
  BY <1>2, <1>3, <1>4 DEF Ends

\* reports(): what the subscription finds in its queue.
LEMMA SubscribedStream ==
    ASSUME TypeOK, NEW s \in Subscribers, StreamInv(s), BacklogInv, NEW replay_backlog,
           Subscribe(s, replay_backlog)
    PROVE  StreamInv(s)'
<1> USE DEF StreamInv, Arrived
<1>1. /\ seen[s] = 0 /\ UNCHANGED <<received, answered, published, seen>> /\ answered \subseteq Ids
      /\ Len(received) \in Nat
  BY StreamTypes DEF Subscribe, arrivals, TypeOK, MessageTypes
<1>2. CASE reader_error
  <2>1. items'[s] = <<ErrorItem>> /\ subscription'[s] = "dead" /\ UNCHANGED report_queues
    BY <1>2 DEF Subscribe, TypeOK, ReportTypes
  <2>2. Elements(<<ErrorItem>>) = {ErrorItem} /\ InOrder(<<ErrorItem>>, 0)
    BY DEF Elements, InOrder, Sentinels
  <2>3. <<ErrorItem>> # <<>> /\ Last(<<ErrorItem>>) \in Sentinels
    BY DEF Last, Sentinels
  <2>4. answered \cap {ErrorItem} = {}
    BY <1>1, StreamTypes DEF Sentinels
  <2>5. s \notin report_queues
    BY DEF Subscribe
  <2> QED
    BY <1>1, <2>1, <2>2, <2>3, <2>4, <2>5 DEF Ends, Sentinels
<1>3. CASE ~reader_error
  <2> DEFINE queue == IF ~replay_backlog THEN <<>>
                      ELSE IF QueueSize[s] = 0 THEN message_backlog
                      ELSE Newest(message_backlog, QueueSize[s])
  <2>1. /\ items'[s] = queue /\ subscription'[s] = "live" /\ s \in report_queues'
        /\ since'[s] = Len(received)
    BY <1>3 DEF Subscribe, TypeOK, ReportTypes
  <2>2. /\ Elements(queue) \subseteq Elements(message_backlog) /\ InOrder(queue, 0)
        /\ QueueSize[s] > 0 => Len(queue) <= QueueSize[s]
    <3>1. CASE ~replay_backlog
      BY <3>1, StreamTypes DEF Elements, InOrder
    <3>2. CASE replay_backlog /\ QueueSize[s] = 0
      BY <3>2 DEF BacklogInv
    <3>3. CASE replay_backlog /\ QueueSize[s] # 0
      <4>1. queue = Newest(message_backlog, QueueSize[s])
        BY <3>3
      <4>2. PICK k \in 0 .. Len(message_backlog) :
                /\ Drops(queue, message_backlog, k) /\ Len(queue) = Len(message_backlog) - k
                /\ Len(message_backlog) - k <= QueueSize[s]
        BY <4>1, NewestItems, StreamTypes
      <4> HIDE DEF queue
      <4> QED
        BY <4>2, DropsInOrder, StreamTypes DEF BacklogInv
    <3> QED
      BY <3>1, <3>2, <3>3
  <2> HIDE DEF queue
  <2>3. /\ Elements(queue) \subseteq Arrived /\ answered \cap Elements(queue) = {}
        /\ Elements(queue) \cap Sentinels = {}
    BY <2>2, StreamTypes DEF BacklogInv, Sentinels, EndOfReports, ErrorItem
  <2>4. Complete(s)'
    <3>1. \A id \in published : ~(id > Len(received))
      BY <1>1 DEF BacklogInv
    <3> QED
      BY <1>1, <2>1, <3>1 DEF Complete
  <2> QED
    BY <1>1, <2>1, <2>2, <2>3, <2>4
<1> QED
  BY <1>2, <1>3

\* The consumer takes the oldest item of its queue.
LEMMA ConsumedStream ==
    ASSUME TypeOK, NEW s \in Subscribers, StreamInv(s), NextReport(s)
    PROVE  StreamInv(s)'
<1> USE DEF StreamInv, Arrived
<1> DEFINE queue == items[s]
           head == Head(queue)
           rest == Tail(queue)
<1>1. /\ queue \in Seq(Int) /\ queue # <<>> /\ Len(received) \in Nat /\ seen[s] \in Nat
      /\ QueueSize[s] \in Nat /\ Ids \cap Sentinels = {}
  BY StreamTypes DEF NextReport
<1>2. /\ Len(queue) \in Nat /\ Len(queue) >= 1 /\ DOMAIN queue = 1 .. Len(queue)
      /\ Len(rest) = Len(queue) - 1 /\ DOMAIN rest = 1 .. Len(queue) - 1
      /\ head = queue[1] /\ rest \in Seq(Int)
      /\ \A i \in 1 .. Len(queue) - 1 : rest[i] = queue[i + 1]
  BY <1>1
<1>3. /\ items'[s] = rest /\ UNCHANGED <<received, answered, published, since, report_queues>>
      /\ subscription[s] # "off"
      /\ head \in Sentinels => seen'[s] = seen[s] /\ subscription'[s] = "ended"
      /\ head \notin Sentinels => seen'[s] = head /\ subscription'[s] = subscription[s]
  BY DEF NextReport, arrivals, TypeOK, ReportTypes
<1> HIDE DEF queue, head, rest
<1>4. Drops(rest, queue, 1) /\ 1 \in 0 .. Len(queue)
  BY <1>2 DEF Drops
<1>5. head \in Elements(queue) /\ \A e \in Elements(queue) : e = head \/ e \in Elements(rest)
  <2>1. head \in Elements(queue)
    BY <1>2 DEF Elements
  <2>2. ASSUME NEW i \in 2 .. Len(queue) PROVE queue[i] \in Elements(rest)
    <3>1. i - 1 \in DOMAIN rest /\ rest[i - 1] = queue[i]
      BY <1>2
    <3> QED
      BY <3>1 DEF Elements
  <2>3. \A i \in DOMAIN queue : i = 1 \/ i \in 2 .. Len(queue)
    BY <1>2
  <2> QED
    BY <1>2, <2>1, <2>2, <2>3 DEF Elements
<1>6. InOrder(rest, seen[s]) /\ Elements(rest) \subseteq Elements(queue)
  BY <1>1, <1>4, DropsInOrder DEF queue
<1>7. InOrder(rest, seen'[s])
  <2>1. CASE head \in Sentinels
    BY <1>3, <1>6, <2>1
  <2>2. CASE head \notin Sentinels
    <3> SUFFICES ASSUME NEW j \in 1 .. Len(queue) - 1, rest[j] \notin Sentinels
                 PROVE  head < rest[j]
      BY <1>2, <1>3, <1>6, <2>2 DEF InOrder
    <3>1. j + 1 \in DOMAIN queue /\ 1 \in DOMAIN queue /\ 1 < j + 1 /\ rest[j] = queue[j + 1]
      BY <1>2
    <3> QED
      BY <1>2, <3>1 DEF InOrder, queue
  <2> QED
    BY <2>1, <2>2
<1>8. seen'[s] <= Len(received)
  BY <1>1, <1>3, <1>5 DEF queue
<1>9. CASE s \in report_queues
  <2>1. head \notin Sentinels /\ seen[s] < head /\ head \in Arrived
    BY <1>1, <1>2, <1>5, <1>9 DEF InOrder, queue
  <2>2. Complete(s)'
    <3> SUFFICES ASSUME NEW id \in published, id > since[s], id > head
                 PROVE  Holds(rest, QueueSize[s], id)
      BY <1>3, <2>1 DEF Complete, Holds
    <3>1. id > seen[s] /\ id # head
      <4>1. id \in Int /\ head \in Int
        BY <2>1, BoundAssumption DEF BoundAssumption, TypeOK, MessageTypes, Ids
      <4> QED
        BY <1>1, <2>1, <4>1
    <3>2. Holds(queue, QueueSize[s], id)
      BY <1>9, <3>1 DEF Complete, queue
    <3>3. id \in Elements(queue)
      BY <1>1, <1>5, <2>1, <3>2 DEF Holds, TypeOK, MessageTypes, Ids
    <3> QED
      BY <1>5, <3>1, <3>3 DEF Holds
  <2>3. QueueSize[s] > 0 => Len(rest) <= QueueSize[s]
    BY <1>1, <1>2, <1>9 DEF queue
  <2> QED
    BY <1>3, <1>6, <1>7, <1>8, <1>9, <2>2, <2>3 DEF queue
<1>10. CASE s \notin report_queues
  <2>1. Ends(s)'
    <3>1. CASE head \in Sentinels
      BY <1>3, <3>1 DEF Ends
    <3>2. CASE head \notin Sentinels
      <4>1. Last(queue) \in Sentinels
        BY <1>10 DEF Ends, queue, NextReport
      <4>2. Len(queue) # 1
        BY <1>2, <3>2, <4>1 DEF Last
      <4>3. rest # <<>> /\ Last(rest) = Last(queue)
        BY <1>2, <4>2 DEF Last
      <4> QED
        BY <1>3, <4>1, <4>3 DEF Ends
    <3> QED
      BY <3>1, <3>2
  <2> QED
    BY <1>3, <1>6, <1>7, <1>8, <1>10, <2>1 DEF queue
<1> QED
  BY <1>9, <1>10

LEMMA BacklogTypes ==
    ASSUME TypeOK
    PROVE  message_backlog \in Seq(Int) /\ Len(received) \in Nat
<1>1. message_backlog \in Seq(Ids) /\ Ids \subseteq Int
  BY BoundAssumption DEF BoundAssumption, TypeOK, MessageTypes, Ids
<1>2. message_backlog \in Seq(Int)
  BY <1>1, SeqMonotonic
<1> QED
  BY <1>2 DEF TypeOK, MessageTypes

\* The backlog while packets arrive that do not go there, and when an entry is read.
LEMMA BacklogKeeps ==
    ASSUME TypeOK, BacklogInv, Len(received) <= Len(received') /\ Len(received') \in Nat,
           UNCHANGED <<answered, published>>,
           \/ UNCHANGED message_backlog
           \/ \E i \in DOMAIN message_backlog : message_backlog' = RemoveAt(message_backlog, i)
    PROVE  BacklogInv'
<1>1. message_backlog \in Seq(Int) /\ Len(received) \in Nat
  BY BacklogTypes
<1>2. /\ InOrder(message_backlog', 0)
      /\ Elements(message_backlog') \subseteq Elements(message_backlog)
  BY <1>1, RemoveAtInOrder DEF BacklogInv
<1> QED
  BY <1>1, <1>2 DEF BacklogInv, Arrived

\* A message is given to one request alone, or published and perhaps kept.
LEMMA DispatchKeepsBacklog ==
    ASSUME TypeOK, BacklogInv, NEW id, id = Len(received) + 1, NEW m, _dispatch_message(id, m),
           Len(received') = id
    PROVE  BacklogInv'
<1>1. /\ message_backlog \in Seq(Int) /\ Len(received) \in Nat /\ id \in Int /\ id > 0
      /\ id \notin Sentinels
  BY BacklogTypes DEF Sentinels, EndOfReports, ErrorItem
<1>2. \A e \in Elements(message_backlog) : e < id
  BY <1>1 DEF BacklogInv, Arrived
<1> DEFINE whole == Append(message_backlog, id)
           matched == {a \in {b \in pending : future[b] = Unset} : job[a].method = m}
<1>3. whole \in Seq(Int) /\ InOrder(whole, 0) /\ Elements(whole) = Elements(message_backlog) \cup {id}
  BY <1>1, <1>2, AppendInOrder DEF BacklogInv
<1>4. /\ InOrder(Trim(whole, max_message_backlog), 0)
      /\ Elements(Trim(whole, max_message_backlog)) \subseteq Elements(message_backlog) \cup {id}
  BY <1>3, TrimInOrder, BoundAssumption DEF BoundAssumption
<1> HIDE DEF whole
<1>5. /\ InOrder(message_backlog', 0)
      /\ Elements(message_backlog') \subseteq Elements(message_backlog) \cup {id}
      /\ matched # {} => UNCHANGED message_backlog
  BY <1>4 DEF _dispatch_message, KeepUnmatched, BacklogInv, whole
<1>6. \/ answered' = answered \cup {id} /\ UNCHANGED published /\ matched # {}
      \/ UNCHANGED answered /\ published' = published \cup {id}
  BY DEF _dispatch_message
<1> HIDE DEF matched
<1>7. Arrived' = Arrived \cup {id} /\ id \notin Arrived
  BY <1>1 DEF Arrived
<1> QED
  BY <1>5, <1>6, <1>7 DEF BacklogInv

\* Every registered queue ends, and no other changes.
LEMMA EndReportsKeeps ==
    ASSUME TypeOK, ReportInv, NEW item \in Sentinels, EndReports(item),
           UNCHANGED <<subscription, seen, since, published, answered, message_backlog>>,
           Len(received) <= Len(received') /\ Len(received') \in Nat
    PROVE  ReportInv'
<1>1. BacklogInv'
  BY BacklogKeeps DEF ReportInv
<1>2. ASSUME NEW s \in Subscribers PROVE StreamInv(s)'
  <2>1. CASE s \in report_queues
    BY <2>1, EndedStream DEF ReportInv, EndReports, _publish_report
  <2>2. CASE s \notin report_queues
    BY <2>2, RestingStream DEF ReportInv, EndReports, _publish_report
  <2> QED
    BY <2>1, <2>2
<1> QED
  BY <1>1, <1>2 DEF ReportInv

LEMMA ReportsRest ==
    ASSUME TypeOK, ReportInv, UNCHANGED reporting, UNCHANGED answered,
           Len(received) <= Len(received') /\ Len(received') \in Nat,
           \/ UNCHANGED message_backlog
           \/ \E i \in DOMAIN message_backlog : message_backlog' = RemoveAt(message_backlog, i)
    PROVE  ReportInv'
<1>1. BacklogInv'
  BY BacklogKeeps DEF ReportInv, reporting
<1>2. ASSUME NEW s \in Subscribers PROVE StreamInv(s)'
  BY RestingStream DEF ReportInv, reporting
<1> QED
  BY <1>1, <1>2 DEF ReportInv

LEMMA ReceiveKeepsReports ==
    ASSUME TypeOK, ReportInv, NEW m \in Methods \cup {Malformed, Foreign}, Receive(m)
    PROVE  ReportInv'
<1>0. PICK id : id = Len(received) + 1
  OBVIOUS
<1>1. /\ received \in Seq(Methods \cup {Malformed, Foreign}) /\ Len(received) \in Nat
      /\ Len(received') = id /\ Len(received) <= Len(received') /\ Len(received') \in Nat
      /\ UNCHANGED <<subscription, seen, since>>
  BY <1>0 DEF Receive, TypeOK, MessageTypes
<1>2. CASE UNCHANGED <<message_backlog, answered, items, report_queues, published>>
  BY <1>1, <1>2, ReportsRest DEF reporting
<1>3. CASE _set_reader_error /\ UNCHANGED <<message_backlog, answered, published>>
  BY <1>1, <1>3, EndReportsKeeps DEF _set_reader_error, Sentinels
<1>4. CASE _dispatch_message(id, m)
  <2>1. BacklogInv'
    BY <1>0, <1>1, <1>4, DispatchKeepsBacklog DEF ReportInv
  <2>2. /\ UNCHANGED report_queues
        /\ \/ answered' = answered \cup {id} /\ UNCHANGED <<items, published>>
           \/ _publish_report(id) /\ published' = published \cup {id} /\ UNCHANGED answered
    BY <1>4 DEF _dispatch_message
  <2>3. ASSUME NEW s \in Subscribers PROVE StreamInv(s)'
    <3>1. CASE answered' = answered \cup {id} /\ UNCHANGED <<items, published>>
      BY <1>0, <1>1, <2>2, <3>1, RestingStream DEF ReportInv
    <3>2. CASE /\ s \in report_queues /\ _publish_report(id)
               /\ published' = published \cup {id} /\ UNCHANGED answered
      BY <1>0, <1>1, <2>2, <3>2, PublishedStream DEF ReportInv, _publish_report
    <3>3. CASE s \notin report_queues /\ _publish_report(id) /\ UNCHANGED answered
      BY <1>1, <2>2, <3>3, RestingStream DEF ReportInv, _publish_report
    <3> QED
      BY <2>2, <3>1, <3>2, <3>3
  <2> QED
    BY <2>1, <2>3 DEF ReportInv
<1> QED
  BY <1>0, <1>2, <1>3, <1>4 DEF Receive

LEMMA SubscriberKeepsReports ==
    ASSUME TypeOK, ReportInv, NEW s \in Subscribers,
           \/ \E replay_backlog \in BOOLEAN : Subscribe(s, replay_backlog)
           \/ NextReport(s)
           \/ CloseSubscription(s)
    PROVE  ReportInv'
<1>1. /\ UNCHANGED <<message_backlog, received, answered, published>>
      /\ Len(received) \in Nat /\ Len(received) <= Len(received)
      /\ \A r \in Subscribers \ {s} :
            /\ items'[r] = items[r] /\ seen'[r] = seen[r] /\ since'[r] = since[r]
            /\ subscription'[r] = subscription[r]
            /\ r \in report_queues' <=> r \in report_queues
  BY StreamTypes, SMTT(20)
     DEF Subscribe, NextReport, CloseSubscription, backlogs, arrivals, TypeOK, ReportTypes
<1>2. BacklogInv'
  BY <1>1, BacklogKeeps DEF ReportInv
<1>3. ASSUME NEW r \in Subscribers \ {s} PROVE StreamInv(r)'
  BY <1>1, RestingStream DEF ReportInv
<1>4. StreamInv(s)'
  <2>1. CASE \E replay_backlog \in BOOLEAN : Subscribe(s, replay_backlog)
    BY <2>1, SubscribedStream DEF ReportInv
  <2>2. CASE NextReport(s)
    BY <2>2, ConsumedStream DEF ReportInv
  <2>3. CASE CloseSubscription(s)
    BY <1>1, <2>3, EndedStream DEF ReportInv, CloseSubscription, Sentinels, TypeOK, ReportTypes
  <2> QED
    BY <2>1, <2>2, <2>3
<1> QED
  BY <1>2, <1>3, <1>4 DEF ReportInv

LEMMA ReportInvInit == Init => ReportInv
BY DEF Init, ReportInv, BacklogInv, StreamInv, Ends, Elements, InOrder, Arrived

LEMMA ReportInvNext == TypeOK /\ ReportInv /\ [Next]_vars => ReportInv'
<1> SUFFICES ASSUME TypeOK, ReportInv, [Next]_vars PROVE ReportInv'
  OBVIOUS
<1>0. Len(received) \in Nat /\ Len(received) <= Len(received)
  BY DEF TypeOK, MessageTypes
<1>a. ASSUME UNCHANGED <<reporting, backlogs, arrivals>> PROVE ReportInv'
  BY <1>0, <1>a, ReportsRest DEF backlogs, arrivals
<1>1. ASSUME NEW c \in Callers, Call(c) \/ Cancel(c) \/ CoalescedResult(c) PROVE ReportInv'
  BY <1>1, <1>a DEF Call, CallLocked, WriteMessage, CoalescedUpdate, CallRead, Cancel,
                    CoalescedResult
<1>2. ASSUME NEW c \in Callers, Read(c) PROVE ReportInv'
  <2>1. \/ UNCHANGED message_backlog
        \/ \E i \in DOMAIN message_backlog : message_backlog' = RemoveAt(message_backlog, i)
    BY <1>2 DEF Read, _pop_message_backlog, backlogs
  <2>2. UNCHANGED <<reporting, received, answered>>
    BY <1>2 DEF Read, arrivals
  <2> QED
    BY <1>0, <2>1, <2>2, ReportsRest
<1>3. ASSUME NEW a \in Actors, Step(a) \/ Timeout(a) PROVE ReportInv'
  BY <1>3, <1>a DEF Step, AcquireFails, Acquire, Drained, WriteRaises, Resume, Timeout
<1>4. CASE PopUpdate \/ WriterExits \/ ResumeWriting \/ ConnectionLost
  BY <1>4, <1>a DEF PopUpdate, WriterExits, ResumeWriting, ConnectionLost
<1>5. CASE ReaderFails \/ CloseSession
  <2>1. /\ \E item \in Sentinels : EndReports(item)
        /\ UNCHANGED <<subscription, seen, since, published, answered, message_backlog, received>>
    BY <1>5 DEF ReaderFails, CloseSession, _set_reader_error, backlogs, arrivals, Sentinels
  <2> QED
    BY <1>0, <2>1, EndReportsKeeps
<1>6. ASSUME NEW m \in Methods \cup {Malformed, Foreign}, Receive(m) PROVE ReportInv'
  BY <1>6, ReceiveKeepsReports
<1>7. ASSUME NEW s \in Subscribers,
             \/ \E replay_backlog \in BOOLEAN : Subscribe(s, replay_backlog)
             \/ NextReport(s)
             \/ CloseSubscription(s)
      PROVE  ReportInv'
  BY <1>7, SubscriberKeepsReports
<1>8. CASE Open \/ Close \/ Opened \/ CancelWriter \/ ConnectionClosed
  BY <1>8, <1>a DEF Open, Close, Opened, CancelWriter, ConnectionClosed
<1>9. CASE UNCHANGED vars
  BY <1>9, <1>a DEF vars
<1> QED
  BY <1>1, <1>2, <1>3, <1>4, <1>5, <1>6, <1>7, <1>8, <1>9 DEF Next, LifecycleStep

LEMMA ReportInvariant == Spec => []ReportInv
BY ReportInvInit, ReportInvNext, TypeCorrect, PTL DEF Spec

\* The response to a request is seen by that request alone: no monitor reads it
\* from the backlog and no subscriber is sent it, now or by a replay
\* (session.py:474-500, 639-642).
THEOREM AnswersArePrivate == Spec => []PrivateAnswers
<1>1. ReportInv => PrivateAnswers
  BY DEF ReportInv, BacklogInv, StreamInv, PrivateAnswers
<1> QED
  BY <1>1, ReportInvariant, PTL

\* A subscriber sees messages in the order of arrival, each once, across the replay
\* of the backlog and the overflow of its queue (session.py:399-417, 639-661).
THEOREM ReportsOrdered == Spec => []ReportsInOrder
<1>1. ReportInv => ReportsInOrder
  BY DEF ReportInv, StreamInv, InOrder, ReportsInOrder
<1> QED
  BY <1>1, ReportInvariant, PTL

\* A registered subscriber misses a message only when its bounded queue is full of
\* newer ones, whatever its size (session.py:643-661).
THEOREM ReportsNotLost == Spec => []ReportsComplete
<1>1. TypeOK => report_queues \subseteq Subscribers
  BY DEF TypeOK, ReportTypes
<1>2. TypeOK /\ ReportInv => ReportsComplete
  BY <1>1 DEF ReportInv, StreamInv, Complete, Holds, ReportsComplete
<1> QED
  BY <1>2, ReportInvariant, TypeCorrect, PTL

\* A subscription that was unregistered, by its consumer, an error or close(), has a
\* sentinel at the end of its queue: the iteration ends (session.py:80-87, 188-214, 574-583).
THEOREM UnregisteredEnd == Spec => []UnregisteredStreamsEnd
<1>1. ReportInv => UnregisteredStreamsEnd
  BY DEF ReportInv, StreamInv, Ends, UnregisteredStreamsEnd
<1> QED
  BY <1>1, ReportInvariant, PTL

=============================================================================

------------------------------- MODULE Session -------------------------------
(***************************************************************************)
(* The tRPC session dispatcher of session.py: one reader that dispatches   *)
(* what the gateway sends, callers that send and wait under the            *)
(* transaction lock, one writer task that sends coalesced updates, report  *)
(* subscriptions, and the open() / close() lifecycle.                      *)
(*                                                                         *)
(* All of it runs on one asyncio loop, so an action is the code between    *)
(* two suspension points of one task: waiting for the lock, for the write  *)
(* buffer to drain, for a future, for a condition, for a queue, for a      *)
(* task to end, or for the transport.  The critical sections of the two    *)
(* asyncio conditions contain no other suspension and are never contended. *)
(***************************************************************************)
EXTENDS Integers, Sequences, FiniteSets, SequencesExt

CONSTANTS
    Callers,        \* the tasks that call the session's coroutines
    Writer,         \* the coalesced update writer task
    Nobody,         \* not a task: the transaction lock is free
    Subscribers,    \* the tasks that call reports()
    Methods,        \* the tRPC messages a ResponseMatch tells apart
    Malformed,      \* a tRPC packet whose header does not parse
    Foreign,        \* a packet whose type is not tRPC
    Keys,           \* coalesce keys
    Calls,          \* the calls the callers make
    MaxCalls,       \* bound: calls per caller
    MaxMessages,    \* bound: packets the gateway sends
    MaxOpens,       \* bound: calls of open()
    max_message_backlog,
    max_packet_backlog,
    QueueSize       \* QueueSize[s] = max_queue_size of s, 0 is unbounded

Actors == Callers \cup {Writer}

LockedKinds == {"send", "request", "update"}
CoalescedKinds == {"post", "confirm"}
ReadKinds == {"read_message", "read_until", "read_packet"}
Kinds == LockedKinds \cup CoalescedKinds \cup ReadKinds \cup {"write"}

\* "timed" is FALSE for timeout=None; a "post" is coalesced_update() and a
\* "confirm" is coalesced_update_response().
CallType == [kind : Kinds, method : Methods, key : Keys, timed : BOOLEAN]

ASSUME ActorAssumption == Writer \notin Callers /\ Nobody \notin Actors
ASSUME CallAssumption == Calls \subseteq CallType /\ Calls # {}
ASSUME MessageAssumption ==
    Malformed \notin Methods /\ Foreign \notin Methods /\ Malformed # Foreign
ASSUME BoundAssumption ==
    /\ MaxCalls \in Nat /\ MaxMessages \in Nat /\ MaxOpens \in Nat
    /\ max_message_backlog \in Int /\ max_packet_backlog \in Int
    /\ QueueSize \in [Subscribers -> Nat]

VARIABLES
    closed,             \* _closed
    reader_error,       \* _reader_error is not None
    reader_task,        \* "running", or "done" for ended or never started
    transport,          \* "none", "open", "lost" or "closing"
    paused,             \* the connection's write buffer is full
    lifecycle,          \* the step the open() or close() in progress waits at
    lock,               \* the task that holds _transaction_lock
    lock_waiters,       \* the tasks queued on it: asyncio locks are FIFO
    pc,                 \* the point each task is suspended at
    job,                \* the call each task is executing
    ticket,             \* the update a caller awaits, or the writer has popped
    future,             \* the response future of a request in progress
    pending,            \* _pending, by the task that appended the entry
    message_backlog,    \* _message_backlog: numbers of received packets
    packet_backlog,     \* _packet_backlog
    coalesced_updates,  \* _coalesced_updates, in the OrderedDict's order
    updates,            \* every coalesced update submitted, and its future
    report_queues,      \* _report_queues
    items,              \* the contents of each subscriber's queue
    subscription,       \* what each subscriber knows of its subscription
    received,           \* history: every packet the reader has read
    published,          \* history: the messages published to reports
    answered,           \* history: the messages given to one request alone
    sent,               \* history: the coalesced updates written
    severed,            \* history: a caller's cancelled write cut the writer's
    seen,               \* history: the last message each subscriber consumed
    since,              \* history: Len(received) when it subscribed
    calls,              \* calls made, for MaxCalls
    opens               \* calls of open() made, for MaxOpens

session == <<closed, reader_error, reader_task>>
link == <<transport, paused, lifecycle, opens>>
locking == <<lock, lock_waiters>>
tasks == <<pc, job, ticket, calls>>
requests == <<future, pending>>
backlogs == <<message_backlog, packet_backlog>>
coalescing == <<coalesced_updates, updates, sent>>
reporting == <<report_queues, items, subscription, published, seen, since>>
arrivals == <<received, answered>>
vars == <<session, link, locking, tasks, requests, backlogs, coalescing,
          reporting, arrivals, severed>>

-----------------------------------------------------------------------------
(* Futures, queues and backlogs *)

\* A response future: waiting, failed, or the number of the message set.
Unset == 0
Failed == -1

\* What a report queue carries beside messages: the None that ends the
\* iteration, and the reader error that the iteration raises.
EndOfReports == 0
ErrorItem == -1
Sentinels == {EndOfReports, ErrorItem}

Elements(s) == {s[i] : i \in DOMAIN s}

\* s without e, which occurs at most once.
Without(s, e) ==
    IF e \in Elements(s) THEN RemoveAt(s, CHOOSE i \in DOMAIN s : s[i] = e) ELSE s

Newest(s, n) == IF Len(s) > n THEN SubSeq(s, Len(s) - n + 1, Len(s)) ELSE s

Trim(backlog, max) == IF max <= 0 THEN <<>> ELSE Newest(backlog, max)

\* Mutant: a full queue keeps what it has.
PutUnlessFull(queue, item, size) ==
    IF size > 0 /\ Len(queue) = size THEN queue ELSE Append(queue, item)

\* Mutant: the queue is a stack.
PutFirst(queue, item, size) == <<item>> \o queue

\* A full queue drops its oldest item for the new one.
_put_report_item(queue, item, size) ==
    IF size > 0 THEN Newest(Append(queue, item), size) ELSE Append(queue, item)

\* Resolve the futures of the updates in "us" that are still waiting.
Resolved(us, how) ==
    [u \in DOMAIN updates |->
        IF u \in us /\ updates[u].result = "waiting"
        THEN [updates[u] EXCEPT !.result = how]
        ELSE updates[u]]

Unavailable == reader_error \/ closed

-----------------------------------------------------------------------------
(* The end of a call: the coroutine's locals are gone.  In the writer task  *)
(* the outcome goes to the update's future and the loop goes on, unless the *)
(* task was cancelled, which ends it.                                        *)

NoCall == CHOOSE call \in Calls : TRUE

\* Mutant: a command that fails ends the writer task.
ErrorEndsWriter(a, how) ==
    /\ pc' = [pc EXCEPT ![a] =
                IF a = Writer /\ how \in {"cancelled", "error"} THEN "done" ELSE "idle"]
    /\ updates' = IF a = Writer THEN Resolved({ticket[a]}, how) ELSE updates
    /\ ticket' = [ticket EXCEPT ![a] = 0]
    /\ job' = [job EXCEPT ![a] = NoCall]

\* Mutant: any cancelled task ends.
ReturnEndsTask(a, how) ==
    /\ pc' = [pc EXCEPT ![a] = IF how = "cancelled" THEN "done" ELSE "idle"]
    /\ updates' = IF a = Writer THEN Resolved({ticket[a]}, how) ELSE updates
    /\ ticket' = [ticket EXCEPT ![a] = 0]
    /\ job' = [job EXCEPT ![a] = NoCall]

Return(a, how) ==
    /\ pc' = [pc EXCEPT ![a] = IF a = Writer /\ how = "cancelled" THEN "done" ELSE "idle"]
    /\ updates' = IF a = Writer THEN Resolved({ticket[a]}, how) ELSE updates
    /\ ticket' = [ticket EXCEPT ![a] = 0]
    /\ job' = [job EXCEPT ![a] = NoCall]

\* Mutant: the entry outlives the call.
KeepPending(a) == UNCHANGED pending

\* "finally: _remove_pending", then leaving "async with _transaction_lock".
_remove_pending(a) == pending' = pending \ {a}

Release(a) == lock' = IF lock = a THEN Nobody ELSE lock

Finish(a, how) ==
    /\ Return(a, how)
    /\ _remove_pending(a)
    /\ Release(a)
    /\ future' = [future EXCEPT ![a] = Unset]

Init ==
    /\ closed = TRUE /\ reader_error = FALSE /\ reader_task = "done"
    /\ transport = "none" /\ paused = FALSE /\ lifecycle = "idle" /\ opens = 0
    /\ lock = Nobody /\ lock_waiters = <<>>
    /\ pc = [a \in Actors |-> IF a = Writer THEN "done" ELSE "idle"]
    /\ job = [a \in Actors |-> NoCall]
    /\ ticket = [a \in Actors |-> 0]
    /\ calls = [c \in Callers |-> 0]
    /\ future = [a \in Actors |-> Unset] /\ pending = {}
    /\ message_backlog = <<>> /\ packet_backlog = <<>>
    /\ coalesced_updates = <<>> /\ updates = <<>> /\ sent = {} /\ severed = FALSE
    /\ report_queues = {} /\ items = [s \in Subscribers |-> <<>>]
    /\ subscription = [s \in Subscribers |-> "off"]
    /\ published = {} /\ seen = [s \in Subscribers |-> 0]
    /\ since = [s \in Subscribers |-> 0]
    /\ received = <<>> /\ answered = {}

-----------------------------------------------------------------------------
(* Writing.  Every command but write_message() is written by the task that  *)
(* holds the transaction lock.                                               *)

AwaitsResponse(a) == job[a].kind \in {"request", "update"}

\* Whether the write fills the buffer.  A buffer that has just been emptied
\* to its low-water mark is not refilled before the tasks waiting for it run.
Stalls == {b \in BOOLEAN : /\ paused => b
                           /\ b => \A a \in Actors : pc[a] # "drained"}

\* send(), request_response(), update_response(): nothing happens before the
\* task has the lock.
CallLocked(c, call) ==
    /\ pc[c] = "idle" /\ calls[c] < MaxCalls /\ call.kind \in LockedKinds
    /\ pc' = [pc EXCEPT ![c] = "lock"]
    /\ job' = [job EXCEPT ![c] = call]
    /\ calls' = [calls EXCEPT ![c] = @ + 1]
    /\ lock_waiters' = Append(lock_waiters, c)
    /\ UNCHANGED <<session, link, lock, ticket, requests, backlogs,
                   coalescing, reporting, arrivals, severed>>

\* The first waiter gets the lock.  A session or a connection that is down
\* raises, so the lock is released at once.
AcquireFails(a) ==
    /\ lock = Nobody /\ lock_waiters # <<>> /\ Head(lock_waiters) = a
    /\ Unavailable \/ transport # "open"
    /\ lock_waiters' = Tail(lock_waiters)
    /\ Return(a, "error")
    /\ UNCHANGED <<session, link, lock, calls, requests, backlogs,
                   coalesced_updates, sent, reporting, arrivals, severed>>

\* Otherwise it appends its pending entry and writes the command.
Acquire(a) ==
    /\ lock = Nobody /\ lock_waiters # <<>> /\ Head(lock_waiters) = a
    /\ ~Unavailable /\ transport = "open"
    /\ lock_waiters' = Tail(lock_waiters)
    /\ sent' = IF a = Writer THEN sent \cup {ticket[a]} ELSE sent
    /\ future' = [future EXCEPT ![a] = Unset]
    /\ pending' = IF AwaitsResponse(a) THEN pending \cup {a} ELSE pending
    /\ paused' \in Stalls
    /\ IF paused' \/ AwaitsResponse(a)
       THEN /\ lock' = a
            /\ pc' = [pc EXCEPT ![a] = IF paused' THEN "stalled" ELSE "await"]
            /\ UNCHANGED <<job, ticket, updates>>
       ELSE /\ UNCHANGED lock
            /\ Return(a, "ok")
    /\ UNCHANGED <<session, transport, lifecycle, opens, calls, backlogs,
                   coalesced_updates, reporting, arrivals, severed>>

\* write_message() and write_packet() take no lock.
WriteMessage(c, call) ==
    /\ pc[c] = "idle" /\ calls[c] < MaxCalls /\ call.kind = "write"
    /\ calls' = [calls EXCEPT ![c] = @ + 1]
    /\ IF Unavailable \/ transport # "open"
       THEN Return(c, "error") /\ UNCHANGED paused
       ELSE /\ paused' \in Stalls
            /\ IF paused'
               THEN /\ pc' = [pc EXCEPT ![c] = "stalled"]
                    /\ job' = [job EXCEPT ![c] = call]
                    /\ UNCHANGED <<ticket, updates>>
               ELSE Return(c, "ok")
    /\ UNCHANGED <<session, transport, lifecycle, opens, locking, requests,
                   backlogs, coalesced_updates, sent, reporting, arrivals, severed>>

\* resume_writing(): every task in _drain() waits for the same future.
ResumeWriting ==
    /\ paused /\ transport \in {"open", "closing"}
    /\ paused' = FALSE
    /\ pc' = [a \in Actors |-> IF pc[a] = "stalled" THEN "drained" ELSE pc[a]]
    /\ UNCHANGED <<session, transport, lifecycle, opens, locking, job, ticket,
                   calls, requests, backlogs, coalescing, reporting, arrivals, severed>>

\* The write is over: a request awaits its response, anything else is done.
Drained(a) ==
    /\ pc[a] = "drained"
    /\ IF AwaitsResponse(a)
       THEN /\ pc' = [pc EXCEPT ![a] = "await"]
            /\ UNCHANGED <<lock, requests, job, ticket, updates>>
       ELSE Finish(a, "ok")
    /\ UNCHANGED <<session, link, lock_waiters, calls, backlogs,
                   coalesced_updates, sent, reporting, arrivals, severed>>

\* The write raises: the connection was lost while it was suspended, or the
\* future that all writers wait for was cancelled with one of them.
WriteRaises(a) ==
    /\ \/ pc[a] = "snapped" /\ Finish(a, "error")
       \/ pc[a] = "cut" /\ Finish(a, "cancelled")
    /\ UNCHANGED <<session, link, lock_waiters, calls, backlogs,
                   coalesced_updates, sent, reporting, arrivals, severed>>

\* The response future is done and the task runs.
Resume(a) ==
    /\ pc[a] = "await" /\ future[a] # Unset
    /\ Finish(a, IF future[a] = Failed THEN "error" ELSE "ok")
    /\ UNCHANGED <<session, link, lock_waiters, calls, backlogs,
                   coalesced_updates, sent, reporting, arrivals, severed>>

\* wait_for() expires, possibly after the result was set but before the task
\* ran: the call then returns None all the same and the result is dropped.
Timeout(a) ==
    /\ pc[a] \in {"await", "reading"} /\ job[a].timed
    /\ Finish(a, "timeout")
    /\ UNCHANGED <<session, link, lock_waiters, calls, backlogs,
                   coalesced_updates, sent, reporting, arrivals, severed>>

\* Task.cancel(): what happens at the point where the task is suspended.  A
\* task waiting in _drain() cancels the future it shares with the others.
CancelTask(a) ==
    \/ /\ pc[a] = "lock"
       /\ lock_waiters' = Without(lock_waiters, a)
       /\ Return(a, "cancelled")
       /\ UNCHANGED <<lock, requests, coalesced_updates>>
    \/ /\ pc[a] = "stalled"
       /\ pc' = [b \in Actors |-> IF pc[b] = "stalled" THEN "cut" ELSE pc[b]]
       /\ UNCHANGED <<locking, job, ticket, requests, coalesced_updates, updates>>
    \/ /\ pc[a] \in {"drained", "snapped", "cut", "await", "reading"}
       /\ Finish(a, "cancelled")
       /\ UNCHANGED <<lock_waiters, coalesced_updates>>
    \/ /\ pc[a] = "queued"
       /\ coalesced_updates' = Without(coalesced_updates, ticket[a])
       /\ updates' = Resolved({ticket[a]}, "cancelled")
       /\ pc' = [pc EXCEPT ![a] = "idle"]
       /\ ticket' = [ticket EXCEPT ![a] = 0]
       /\ job' = [job EXCEPT ![a] = NoCall]
       /\ UNCHANGED <<locking, requests>>

Cancel(c) ==
    /\ CancelTask(c)
    /\ severed' = (severed \/ (pc[c] = "stalled" /\ pc[Writer] = "stalled"))
    /\ UNCHANGED <<session, link, calls, backlogs, sent, reporting, arrivals>>

-----------------------------------------------------------------------------
(* Coalesced updates *)

\* Mutant: the update the writer has popped is superseded too.
PreviousOrPopped(k) ==
    {u \in Elements(coalesced_updates) \cup {ticket[Writer]} :
        u # 0 /\ updates[u].call.key = k}

\* The update queued under a key, if any.
Previous(k) == {u \in Elements(coalesced_updates) : updates[u].call.key = k}

\* Mutant: the new update overtakes the one under its key and leaves it there.
EnqueueFirst(u, previous) == <<u>> \o coalesced_updates

\* The new update takes the place of the previous one, or goes to the end.
Enqueue(u, previous) ==
    IF previous = {} THEN Append(coalesced_updates, u)
    ELSE [i \in DOMAIN coalesced_updates |->
            IF coalesced_updates[i] \in previous THEN u ELSE coalesced_updates[i]]

\* coalesced_update() and coalesced_update_response(): the previous update
\* queued under the key returns None, and the new one takes its place.
CoalescedUpdate(c, call) ==
    /\ pc[c] = "idle" /\ calls[c] < MaxCalls /\ call.kind \in CoalescedKinds
    /\ calls' = [calls EXCEPT ![c] = @ + 1]
    /\ IF Unavailable
       THEN Return(c, "error") /\ UNCHANGED coalesced_updates
       ELSE LET u == Len(updates) + 1
                previous == Previous(call.key)
            IN  /\ coalesced_updates' =
                    Enqueue(u, previous \cap Elements(coalesced_updates))
                /\ updates' = Append(Resolved(previous, "superseded"),
                                     [call |-> call, result |-> "waiting"])
                /\ pc' = [pc EXCEPT ![c] = "queued"]
                /\ job' = [job EXCEPT ![c] = call]
                /\ ticket' = [ticket EXCEPT ![c] = u]
    /\ UNCHANGED <<session, link, locking, requests, backlogs, sent, reporting,
                   arrivals, severed>>

\* The caller's future is done and the caller runs.
CoalescedResult(c) ==
    /\ pc[c] = "queued" /\ updates[ticket[c]].result # "waiting"
    /\ Return(c, updates[ticket[c]].result)
    /\ UNCHANGED <<session, link, locking, calls, requests, backlogs,
                   coalesced_updates, sent, reporting, arrivals, severed>>

\* The writer pops the oldest entry and queues on the transaction lock.
PopUpdate ==
    /\ pc[Writer] = "idle" /\ coalesced_updates # <<>>
    /\ LET u == Head(coalesced_updates)
           call == updates[u].call
       IN  /\ ticket' = [ticket EXCEPT ![Writer] = u]
           /\ job' = [job EXCEPT ![Writer] =
                [call EXCEPT !.kind = IF @ = "post" THEN "send" ELSE "update"]]
    /\ coalesced_updates' = Tail(coalesced_updates)
    /\ pc' = [pc EXCEPT ![Writer] = "lock"]
    /\ lock_waiters' = Append(lock_waiters, Writer)
    /\ UNCHANGED <<session, link, lock, calls, requests, backlogs,
                   updates, sent, reporting, arrivals, severed>>

\* An empty queue on a closed session ends the loop.
WriterExits ==
    /\ pc[Writer] = "idle" /\ coalesced_updates = <<>> /\ closed
    /\ pc' = [pc EXCEPT ![Writer] = "done"]
    /\ UNCHANGED <<session, link, locking, job, ticket, calls, requests,
                   backlogs, coalescing, reporting, arrivals, severed>>

-----------------------------------------------------------------------------
(* The reader and what it dispatches *)

_publish_report(id) ==
    items' = [s \in Subscribers |->
                IF s \in report_queues
                THEN _put_report_item(items[s], id, QueueSize[s]) ELSE items[s]]

\* _fail_pending() and _fail_coalesced_updates()
\* Mutant: the entries are dropped and their futures forgotten.
DropPending == pending' = {} /\ UNCHANGED future

_fail_pending ==
    /\ future' = [a \in Actors |->
                    IF a \in pending /\ future[a] = Unset THEN Failed ELSE future[a]]
    /\ pending' = {}

\* Mutant: the queue is cleared and the futures forgotten.
DropCoalescedUpdates == coalesced_updates' = <<>> /\ UNCHANGED updates

\* Mutant: the futures fail and the entries stay queued.
KeepCoalescedUpdates ==
    /\ updates' = Resolved(Elements(coalesced_updates), "error")
    /\ UNCHANGED coalesced_updates

_fail_coalesced_updates ==
    /\ updates' = Resolved(Elements(coalesced_updates), "error")
    /\ coalesced_updates' = <<>>

\* Mutant: the queues are unregistered and nobody is told.
UnregisterReports(item) == report_queues' = {} /\ UNCHANGED items

\* Every report queue is unregistered and ends with "item".
EndReports(item) ==
    /\ _publish_report(item)
    /\ report_queues' = {}

_set_reader_error ==
    /\ closed' = TRUE /\ reader_error' = TRUE /\ reader_task' = "done"
    /\ _fail_pending
    /\ _fail_coalesced_updates
    /\ EndReports(ErrorItem)

\* Mutant: a matched message is kept as well.
KeepAlways(id, matched) ==
    message_backlog' = Trim(Append(message_backlog, id), max_message_backlog)

\* Only a message that matched nothing goes to the backlog.
KeepUnmatched(id, matched) ==
    IF matched = {}
    THEN message_backlog' = Trim(Append(message_backlog, id), max_message_backlog)
    ELSE UNCHANGED message_backlog

\* The pending request whose future is waiting and whose match accepts the
\* message is given it.  A response to a request proper goes nowhere else, a
\* response to an update is also published, and a message that nobody waits
\* for goes to the backlog and to the subscribers.
_dispatch_message(id, m) ==
    LET waiting == {a \in pending : future[a] = Unset}
        matched == {a \in waiting : job[a].method = m}
        private == \E a \in matched : job[a].kind = "request"
    IN  /\ pending' = waiting \ matched
        /\ future' = [a \in Actors |-> IF a \in matched THEN id ELSE future[a]]
        /\ KeepUnmatched(id, matched)
        /\ IF private
           THEN /\ answered' = answered \cup {id}
                /\ UNCHANGED <<items, published>>
           ELSE /\ _publish_report(id)
                /\ published' = published \cup {id}
                /\ UNCHANGED answered
        /\ UNCHANGED report_queues

\* The gateway's next packet is read and dispatched.
Receive(m) ==
    /\ reader_task = "running" /\ transport = "open"
    /\ Len(received) < MaxMessages
    /\ received' = Append(received, m)
    /\ LET id == Len(received) + 1
       IN  /\ packet_backlog' = Trim(Append(packet_backlog, id), max_packet_backlog)
           /\ \/ /\ m = Foreign
                 /\ UNCHANGED <<session, requests, message_backlog, answered,
                                coalesced_updates, updates, items, report_queues,
                                published>>
              \/ /\ m = Malformed
                 /\ _set_reader_error
                 /\ UNCHANGED <<message_backlog, answered, published>>
              \/ /\ m \in Methods
                 /\ _dispatch_message(id, m)
                 /\ UNCHANGED <<session, coalesced_updates, updates>>
    /\ UNCHANGED <<link, locking, tasks, sent, severed, subscription, seen, since>>

\* Mutant: they are left waiting.
LeaveWrites == UNCHANGED pc

\* connection_lost(): writers waiting for the buffer to drain get the error.
SnapWrites ==
    pc' = [a \in Actors |->
            IF pc[a] \in {"stalled", "drained"} THEN "snapped" ELSE pc[a]]

ConnectionLost ==
    /\ transport = "open"
    /\ transport' = "lost"
    /\ SnapWrites
    /\ UNCHANGED <<session, paused, lifecycle, opens, locking, job, ticket,
                   calls, requests, backlogs, coalescing, reporting, arrivals, severed>>

\* The reader, having read every packet that came first, raises it.
ReaderFails ==
    /\ reader_task = "running" /\ transport = "lost"
    /\ _set_reader_error
    /\ UNCHANGED <<link, locking, tasks, backlogs, sent, subscription, published,
                   seen, since, arrivals, severed>>

-----------------------------------------------------------------------------
(* read_message(), read_until() and read_packet() *)

CallRead(c, call) ==
    /\ pc[c] = "idle" /\ calls[c] < MaxCalls /\ call.kind \in ReadKinds
    /\ pc' = [pc EXCEPT ![c] = "reading"]
    /\ job' = [job EXCEPT ![c] = call]
    /\ calls' = [calls EXCEPT ![c] = @ + 1]
    /\ UNCHANGED <<session, link, locking, ticket, requests, backlogs,
                   coalescing, reporting, arrivals, severed>>

\* The positions of the backlog entries the read accepts.
_pop_message_backlog(call) ==
    {i \in DOMAIN message_backlog :
        call.kind = "read_until" => received[message_backlog[i]] = call.method}

\* One pass of the loop under the condition: an entry first, then the error,
\* then None for a closed session; otherwise the task goes on waiting.
Read(c) ==
    /\ pc[c] = "reading"
    /\ LET call == job[c]
           hits == IF call.kind = "read_packet" THEN DOMAIN packet_backlog
                   ELSE _pop_message_backlog(call)
       IN  \/ \E i \in hits :
                /\ \A j \in hits : i <= j
                /\ IF call.kind = "read_packet"
                   THEN /\ packet_backlog' = RemoveAt(packet_backlog, i)
                        /\ UNCHANGED message_backlog
                   ELSE /\ message_backlog' = RemoveAt(message_backlog, i)
                        /\ UNCHANGED packet_backlog
                /\ Return(c, "ok")
           \/ /\ hits = {} /\ Unavailable
              /\ Return(c, IF reader_error THEN "error" ELSE "closed")
              /\ UNCHANGED backlogs
    /\ UNCHANGED <<session, link, locking, calls, requests,
                   coalesced_updates, sent, reporting, arrivals, severed>>

-----------------------------------------------------------------------------
(* Report subscriptions *)

\* reports(): on a failed session the queue gets the error and is never
\* registered; otherwise it is, after the backlog if replay_backlog.
Subscribe(s, replay_backlog) ==
    /\ subscription[s] = "off"
    /\ IF reader_error
       THEN /\ items' = [items EXCEPT ![s] = <<ErrorItem>>]
            /\ subscription' = [subscription EXCEPT ![s] = "dead"]
            /\ UNCHANGED report_queues
       ELSE /\ items' = [items EXCEPT ![s] =
                    IF ~replay_backlog THEN <<>>
                    ELSE IF QueueSize[s] = 0 THEN message_backlog
                    ELSE Newest(message_backlog, QueueSize[s])]
            /\ subscription' = [subscription EXCEPT ![s] = "live"]
            /\ report_queues' = report_queues \cup {s}
    /\ since' = [since EXCEPT ![s] = Len(received)]
    /\ UNCHANGED <<session, link, locking, tasks, requests, backlogs, coalescing,
                   published, seen, arrivals, severed>>

\* ReportSubscription.__anext__(): a sentinel ends the iteration.
NextReport(s) ==
    /\ subscription[s] \in {"live", "dead", "closing"} /\ items[s] # <<>>
    /\ items' = [items EXCEPT ![s] = Tail(@)]
    /\ IF Head(items[s]) \in Sentinels
       THEN /\ subscription' = [subscription EXCEPT ![s] = "ended"]
            /\ UNCHANGED seen
       ELSE /\ seen' = [seen EXCEPT ![s] = Head(items[s])]
            /\ UNCHANGED subscription
    /\ UNCHANGED <<session, link, locking, tasks, requests, backlogs, coalescing,
                   report_queues, published, since, arrivals, severed>>

\* ReportSubscription.close() by the consumer, whose iterator may be waiting.
CloseSubscription(s) ==
    /\ subscription[s] = "live"
    /\ subscription' = [subscription EXCEPT ![s] = "closing"]
    /\ report_queues' = report_queues \ {s}
    /\ items' = [items EXCEPT ![s] = _put_report_item(@, EndOfReports, QueueSize[s])]
    /\ UNCHANGED <<session, link, locking, tasks, requests, backlogs, coalescing,
                   published, seen, since, arrivals, severed>>

-----------------------------------------------------------------------------
(* open() and close().  One task at a time runs either: the client and the  *)
(* controller call them from their own lifecycle methods.                    *)

\* Mutant: the writer task of the first open() is never replaced.
SessionUpReaderOnly ==
    /\ closed' = FALSE /\ reader_error' = FALSE /\ reader_task' = "running"
    /\ pc' = [pc EXCEPT ![Writer] = IF @ = "done" /\ opens <= 1 THEN "idle" ELSE @]
    /\ severed' = (severed /\ pc[Writer] # "done")

\* A connection is up: the flags are reset and the tasks that are not running
\* are started.
SessionUp ==
    /\ closed' = FALSE /\ reader_error' = FALSE /\ reader_task' = "running"
    /\ pc' = [pc EXCEPT ![Writer] = IF @ = "done" THEN "idle" ELSE @]
    /\ severed' = (severed /\ pc[Writer] # "done")

\* A connection kept by a failed session is closed first, and a connection
\* is opened if there is none.
Open ==
    /\ lifecycle = "idle" /\ opens < MaxOpens
    /\ opens' = opens + 1
    /\ \/ /\ transport = "open" /\ reader_error
          /\ transport' = "closing" /\ lifecycle' = "reopening"
          /\ UNCHANGED <<session, pc, severed>>
       \/ /\ transport # "open"
          /\ lifecycle' = "opening"
          /\ UNCHANGED <<session, pc, transport, severed>>
       \/ /\ transport = "open" /\ ~reader_error
          /\ SessionUp
          /\ UNCHANGED <<transport, lifecycle>>
    /\ UNCHANGED <<paused, locking, job, ticket, calls, requests, backlogs,
                   coalescing, reporting, arrivals>>

\* Connecting takes the loop long enough for a reader whose connection was
\* lost to see it.
Opened ==
    /\ lifecycle = "opening" /\ reader_task = "done"
    /\ lifecycle' = "idle"
    /\ \/ /\ transport' = "open" /\ paused' = FALSE
          /\ SessionUp
       \/ UNCHANGED <<transport, paused, session, pc, severed>>
    /\ UNCHANGED <<opens, locking, job, ticket, calls, requests, backlogs,
                   coalescing, reporting, arrivals>>

\* close(): the reader task is cancelled and awaited ...
Close ==
    /\ lifecycle = "idle"
    /\ closed' = TRUE /\ reader_task' = "done"
    /\ lifecycle' = "cancel_writer"
    /\ UNCHANGED <<reader_error, transport, paused, opens, locking, tasks, requests,
                   backlogs, coalescing, reporting, arrivals, severed>>

\* ... then the writer task; the update it was executing is cancelled ...
CancelWriter ==
    /\ lifecycle = "cancel_writer"
    /\ lifecycle' = "await_writer"
    /\ \/ /\ pc[Writer] \in {"done", "idle"}
          /\ pc' = [pc EXCEPT ![Writer] = "done"]
          /\ UNCHANGED <<locking, job, ticket, requests, coalesced_updates, updates>>
       \/ CancelTask(Writer)
    /\ UNCHANGED <<session, transport, paused, opens, calls, backlogs, sent,
                   reporting, arrivals, severed>>

\* ... and once it has ended, what is pending or queued fails, every
\* subscription ends, and the connection is closed ...
CloseSession ==
    /\ lifecycle = "await_writer" /\ pc[Writer] = "done"
    /\ _fail_pending
    /\ _fail_coalesced_updates
    /\ EndReports(EndOfReports)
    /\ IF transport = "open"
       THEN transport' = "closing" /\ lifecycle' = "closing"
       ELSE transport' = "none" /\ lifecycle' = "idle"
    /\ UNCHANGED <<session, paused, opens, locking, tasks, backlogs, sent,
                   subscription, published, seen, since, arrivals, severed>>

\* ... which ends when its buffer is flushed or the peer resets it.
ConnectionClosed ==
    /\ transport = "closing"
    /\ transport' = "none"
    /\ lifecycle' = IF lifecycle = "reopening" THEN "opening" ELSE "idle"
    /\ SnapWrites
    /\ UNCHANGED <<session, paused, opens, locking, job, ticket, calls,
                   requests, backlogs, coalescing, reporting, arrivals, severed>>

-----------------------------------------------------------------------------

Call(c) ==
    \E call \in Calls : \/ CallLocked(c, call)
                        \/ WriteMessage(c, call)
                        \/ CoalescedUpdate(c, call)
                        \/ CallRead(c, call)

\* What a task does when the loop runs it.
Step(a) == AcquireFails(a) \/ Acquire(a) \/ Drained(a) \/ WriteRaises(a) \/ Resume(a)

LifecycleStep == Opened \/ CancelWriter \/ CloseSession \/ ConnectionClosed

Next ==
    \/ \E c \in Callers : Call(c) \/ Cancel(c) \/ CoalescedResult(c) \/ Read(c)
    \/ \E a \in Actors : Step(a) \/ Timeout(a)
    \/ PopUpdate \/ WriterExits
    \/ ResumeWriting \/ ConnectionLost \/ ReaderFails
    \/ \E m \in Methods \cup {Malformed, Foreign} : Receive(m)
    \/ \E s \in Subscribers :
            \/ \E replay_backlog \in BOOLEAN : Subscribe(s, replay_backlog)
            \/ NextReport(s)
            \/ CloseSubscription(s)
    \/ Open \/ Close \/ LifecycleStep

Spec == Init /\ [][Next]_vars

-----------------------------------------------------------------------------
(* Fairness: the event loop runs every task that is ready, timers fire, and *)
(* a connection whose buffer is full is drained by the peer or reset.       *)

Fairness ==
    /\ \A a \in Actors : WF_vars(Step(a)) /\ WF_vars(Timeout(a))
    /\ \A c \in Callers : WF_vars(CoalescedResult(c)) /\ WF_vars(Read(c))
    /\ WF_vars(PopUpdate) /\ WF_vars(WriterExits)
    /\ WF_vars(ReaderFails) /\ WF_vars(ResumeWriting) /\ WF_vars(LifecycleStep)

FairSpec == Spec /\ Fairness

-----------------------------------------------------------------------------
(* Properties *)

Ids == 1 .. MaxMessages
UpdateIds == 1 .. MaxCalls * Cardinality(Callers)
Waiting(u) == u \in DOMAIN updates /\ updates[u].result = "waiting"
Points == {"done", "idle", "lock", "stalled", "drained", "cut", "snapped", "await",
           "queued", "reading"}
PointsOf(a) == Points \ IF a = Writer THEN {"queued", "reading"} ELSE {"done"}
Results == {"waiting", "ok", "timeout", "superseded", "error", "cancelled"}

FlagTypes ==
    /\ closed \in BOOLEAN /\ reader_error \in BOOLEAN
    /\ reader_task \in {"running", "done"}
    /\ transport \in {"none", "open", "lost", "closing"} /\ paused \in BOOLEAN
    /\ lifecycle \in {"idle", "opening", "reopening", "cancel_writer",
                      "await_writer", "closing"}
    /\ opens \in 0 .. MaxOpens /\ severed \in BOOLEAN

TaskTypes ==
    /\ lock \in Actors \cup {Nobody} /\ lock_waiters \in Seq(Actors)
    /\ pc \in [Actors -> Points] /\ \A a \in Actors : pc[a] \in PointsOf(a)
    /\ job \in [Actors -> CallType] /\ calls \in [Callers -> 0 .. MaxCalls]
    /\ future \in [Actors -> Ids \cup {Unset, Failed}] /\ pending \subseteq Actors

UpdateTypes ==
    /\ updates \in Seq([call : CallType, result : Results])
    /\ ticket \in [Actors -> 0 .. Len(updates)]
    /\ coalesced_updates \in Seq(1 .. Len(updates)) /\ sent \subseteq 0 .. Len(updates)

MessageTypes ==
    /\ received \in Seq(Methods \cup {Malformed, Foreign})
    /\ Len(received) <= MaxMessages
    /\ message_backlog \in Seq(Ids) /\ packet_backlog \in Seq(Ids)
    /\ published \subseteq Ids /\ answered \subseteq Ids

ReportTypes ==
    /\ report_queues \subseteq Subscribers
    /\ items \in [Subscribers -> Seq(Ids \cup Sentinels)]
    /\ subscription \in [Subscribers -> {"off", "live", "dead", "closing", "ended"}]
    /\ seen \in [Subscribers -> 0 .. MaxMessages]
    /\ since \in [Subscribers -> 0 .. MaxMessages]

\* Every variable holds a value of its type.
TypeOK == FlagTypes /\ TaskTypes /\ UpdateTypes /\ MessageTypes /\ ReportTypes

\* A request is in _pending only while its task holds the transaction lock,
\* so a message is matched against one request at most and nothing is left
\* behind by a time-out, a cancellation, an error or a close.
PendingOwnedByHolder == pending \subseteq {lock}

\* A task that awaits a response has an entry the dispatcher, the reader
\* error or close() will find: no interleaving strands it.
NoStrandedRequest ==
    \A a \in Actors : pc[a] = "await" /\ future[a] = Unset => a \in pending

\* The future of a coalesced update that is still waiting belongs to an entry
\* of the queue or to the update the writer is executing: no supersession,
\* cancellation, reader error or close leaves its caller without an answer.
NoStrandedUpdate ==
    \A u \in DOMAIN updates :
        updates[u].result = "waiting" =>
            \/ u \in Elements(coalesced_updates)
            \/ ticket[Writer] = u /\ pc[Writer] \notin {"idle", "done"}

\* A caller that was told None because a newer update replaced its own can
\* rely on it: the command is not written, before or after.
SupersededNeverSent == \A u \in sent : updates[u].result # "superseded"

\* A caller cancelled in _drain() took the writer's write with it, the
\* CancelledError ended the writer task, and no open() has started one since.
WriterSevered == severed /\ ~closed /\ pc[Writer] = "done"

\* An open session whose queue is not empty has a writer task to serve it,
\* however often the session failed, was closed or was reopened; the one
\* exception is a writer that was severed.
WriterServes ==
    ~closed /\ coalesced_updates # <<>> => pc[Writer] # "done" \/ WriterSevered

\* When close() has returned, or the reader has failed, no request is pending
\* and no update queued, whatever the callers did while it was under way.
DownSessionIsEmpty ==
    closed /\ lifecycle \notin {"cancel_writer", "await_writer"} =>
        pending = {} /\ coalesced_updates = <<>>

\* The response to a request goes to that request alone: no monitor finds it
\* in the backlog and no subscriber is sent it.
PrivateAnswers ==
    /\ answered \cap Elements(message_backlog) = {}
    /\ \A s \in Subscribers : answered \cap Elements(items[s]) = {}

\* A subscriber sees messages in the order they arrived, each once, across
\* the replay of the backlog and the overflow of its queue.
ReportsInOrder ==
    \A s \in Subscribers : \A j \in DOMAIN items[s] :
        items[s][j] \notin Sentinels =>
            /\ seen[s] < items[s][j]
            /\ \A i \in DOMAIN items[s] : i < j => items[s][i] < items[s][j]

\* A registered subscriber loses a message only from the old end of a queue
\* that is full of newer ones.
ReportsComplete ==
    \A s \in report_queues : \A id \in published :
        id > since[s] /\ id > seen[s] =>
            \/ id \in Elements(items[s])
            \/ /\ QueueSize[s] > 0 /\ Len(items[s]) = QueueSize[s]
               /\ \A newer \in Elements(items[s]) : id < newer

\* A subscription that is not registered any more has a sentinel at the end
\* of its queue until the iterator has consumed it: the iteration ends.
UnregisteredStreamsEnd ==
    \A s \in Subscribers :
        subscription[s] \in {"live", "dead", "closing"} /\ s \notin report_queues =>
            items[s] # <<>> /\ Last(items[s]) \in Sentinels

\* The coalesced updates implement LatestWins.
Phase(u) ==
    IF u \in sent THEN "sent"
    ELSE IF \/ u \in Elements(coalesced_updates)
            \/ pc[Writer] = "lock" /\ ticket[Writer] = u
    THEN "unsent" ELSE "dropped"

Abstract == INSTANCE LatestWins WITH
    key <- [u \in DOMAIN updates |-> updates[u].call.key],
    phase <- [u \in DOMAIN updates |-> Phase(u)]

LatestWinsSpec == Abstract!Spec

\* The README says that the latest-value helpers work "while never canceling a
\* command that has already started writing to the gateway".  Only close() may
\* cut the writer's write.
NeverCancelsStartedWrite ==
    [][pc[Writer] = "stalled" /\ lifecycle # "cancel_writer" => pc'[Writer] # "cut"]_vars

\* No call outlives the session for ever: once the session is down, every
\* call in progress ends unless the session comes up again.
CallsEnd ==
    \A c \in Callers :
        (closed /\ pc[c] # "idle") ~> (pc[c] = "idle" \/ ~closed)

\* Every coalesced update is answered: written, superseded, failed or
\* cancelled, however many newer updates come in and whoever else wants the
\* lock, unless a call without a time-out keeps it or the writer is severed.
KeptWithoutTimeout == lock # Nobody /\ ~job[lock].timed

UpdatesAnswered ==
    \A u \in UpdateIds :
        Waiting(u) ~> (~Waiting(u) \/ KeptWithoutTimeout \/ WriterSevered)

=============================================================================

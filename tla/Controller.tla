----------------------------- MODULE Controller ------------------------------
(***************************************************************************)
(* The push controller of controller.py: start(), stop(), rediscover() and *)
(* the report loop, over a client whose calls are modelled by how they     *)
(* end (session.py is modelled in Session), and a gateway that the         *)
(* controller sees through it.                                             *)
(*                                                                         *)
(* Of the runtime data one device value is kept, as the number of the      *)
(* version it shows: a report or a polled response carries the version the *)
(* gateway had when it sent it.                                            *)
(***************************************************************************)
EXTENDS Integers, Sequences, FiniteSets

CONSTANTS
    Apps,       \* the tasks of the application
    Loop,       \* the report loop task
    Nobody,     \* not a task: the transaction lock is free
    MaxVersion, \* bound: versions of the device value
    MaxCalls,   \* bound: calls the application makes
    MaxFaults,  \* bound: connections that fail and responses that come late
    MaxCancels  \* bound: cancellations of the application's tasks

Tasks == Apps \cup {Loop}

ASSUME TaskAssumption == Loop \notin Apps /\ Nobody \notin Tasks
ASSUME BoundAssumption ==
    /\ MaxVersion \in Nat \ {0} /\ MaxCalls \in Nat
    /\ MaxFaults \in Nat /\ MaxCancels \in Nat

VARIABLES
    running,        \* _running
    report_task,    \* _report_task is not None
    data,           \* the version in state.data, NoState before the first poll
    pc,             \* the point each task is suspended at
    op,             \* the operation each task executes
    restore,        \* of an application task: reporting_disabled or reporting_paused
    seed,           \* the version its poll has got so far
    link,           \* the connection, as the client knows it
    holder,         \* the task whose command is in progress
    backlog,        \* the versions in the session's message backlog
    queue,          \* the report subscription of the loop
    subscribed,     \* the session publishes to it
    commands,       \* commands on the way to the gateway
    wire,           \* messages on the way from it
    version,        \* the gateway's version of the device value
    reporting,      \* the gateway reports changes
    calls, faults, cancels, \* for the bounds
    disturbed,      \* history: since the last start(), a command that enables
                    \* reporting was lost, or its task or that of one that
                    \* disables it was cancelled
    stopped         \* history: stop() has returned, and no start() began since

controller == <<running, report_task, data>>
locals == <<op, restore, seed>>
session == <<link, holder, backlog, queue, subscribed>>
gateway == <<commands, wire, version, reporting>>
history == <<calls, faults, cancels, disturbed, stopped>>
vars == <<controller, pc, locals, session, gateway, history>>

NoState == -1
NoValue == 0        \* the poll of the value timed out

\* What a subscription yields beside versions.
EndOfReports == -1
ErrorItem == -2

\* transport.is_open: the stream works, or only the session has given it up.
IsOpen == link \in {"open", "broken", "closing"}

\* The points at which a task waits for the lock or for a command's response.
Commands == {"disable", "discover", "poll", "rest", "enable", "restore"}

\* The command sent at a point.
Sends(point) == IF point = "restore" THEN "enable" ELSE point

InProgress(operation) == \E a \in Apps : pc[a] # "idle" /\ op[a] = operation

Init ==
    /\ running = FALSE /\ report_task = FALSE /\ data = NoState
    /\ pc = [t \in Tasks |-> IF t = Loop THEN "done" ELSE "idle"]
    /\ op = [t \in Tasks |-> IF t = Loop THEN "loop" ELSE "none"]
    /\ restore = [t \in Tasks |-> FALSE] /\ seed = [t \in Tasks |-> NoValue]
    /\ link = "closed" /\ holder = Nobody
    /\ backlog = <<>> /\ queue = <<>> /\ subscribed = FALSE
    /\ commands = <<>> /\ wire = <<>> /\ version = 1 /\ reporting \in BOOLEAN
    /\ calls = 0 /\ faults = 0 /\ cancels = 0
    /\ disturbed = FALSE /\ stopped = FALSE

-----------------------------------------------------------------------------
(* Parts of the actions *)

Goto(t, point) == pc' = [pc EXCEPT ![t] = point]

\* client.close() up to its first suspension: the session is closed, the
\* connection still open.
BeginClose(t) ==
    /\ Goto(t, "closing")
    /\ link' = IF IsOpen THEN "closing" ELSE link

Release(t) == holder' = IF holder = t THEN Nobody ELSE holder

Unsubscribe == queue' = <<>> /\ subscribed' = FALSE

\* Mutant: the subscription starts with what comes next.
SubscribeAfterFailure ==
    /\ Goto(Loop, "iterating")
    /\ queue' = backlog
    /\ subscribed' = (link \notin {"broken", "lost"})

\* reports(replay_backlog=True): a failed session yields its error only.
Subscribe ==
    /\ Goto(Loop, "iterating")
    /\ IF link \in {"broken", "lost"}
       THEN queue' = <<ErrorItem>> /\ subscribed' = FALSE
       ELSE queue' = backlog /\ subscribed' = TRUE

\* Mutant: the loop does not look at _running again.
LoopForever ==
    \/ ~IsOpen /\ Goto(Loop, "open") /\ Unsubscribe
    \/ IsOpen /\ Subscribe

\* "while self._running", and the part of its body before a suspension.
LoopTop ==
    \/ ~running /\ Goto(Loop, "done") /\ Unsubscribe
    \/ running /\ ~IsOpen /\ Goto(Loop, "open") /\ Unsubscribe
    \/ running /\ IsOpen /\ Subscribe

\* Mutant: the failure of a rediscovery leaves it disabled.
RestoresStart(t) == restore[t] /\ IsOpen /\ op[t] = "start" /\ pc[t] # "restore"

\* Whether the task is in the part of start() or of rediscover() whose failure
\* enables reporting again if it has been disabled.
Restores(t) ==
    /\ restore[t] /\ IsOpen
    /\ \/ op[t] = "start" /\ pc[t] \in {"discover", "poll", "rest", "enable"}
       \/ op[t] = "rediscover" /\ pc[t] \in {"discover", "poll", "rest"}

\* A client call raises: the report loop, start() and stop() close the client.
Raised(t) ==
    \/ Restores(t) /\ Goto(t, "restore") /\ UNCHANGED link
    \/ ~Restores(t) /\ op[t] \in {"loop", "start", "stop"} /\ BeginClose(t)
    \/ ~Restores(t) /\ op[t] = "rediscover" /\ Goto(t, "idle") /\ UNCHANGED link

-----------------------------------------------------------------------------
(* The client's calls *)

\* client.open() connects unless the connection is up.  It takes the loop long
\* enough for a task whose command failed with the last connection to run.
OpenOk(t) ==
    /\ pc[t] = "open" /\ (holder = Nobody \/ link = "open")
    /\ link' = "open"
    /\ Goto(t, IF t = Loop THEN "enable" ELSE "disable")
    /\ UNCHANGED <<controller, locals, holder, backlog, queue, subscribed, gateway,
                   history>>

OpenFails(t) ==
    /\ pc[t] = "open" /\ link \notin {"open", "closing"}
    /\ link' = "closed"
    /\ Goto(t, IF t = Loop THEN "closing" ELSE "idle")
    /\ UNCHANGED <<controller, locals, holder, backlog, queue, subscribed, gateway,
                   history>>

\* The task gets the transaction lock and its command is written.
Command(t) ==
    /\ pc[t] \in Commands /\ holder = Nobody /\ link = "open"
    /\ holder' = t
    /\ commands' = Append(commands, Sends(pc[t]))
    /\ UNCHANGED <<controller, pc, locals, link, backlog, queue, subscribed, wire,
                   version, reporting, history>>

\* _notify_state() at the end of start(); a listener that raises fails it.
Started(a) ==
    /\ running' = TRUE
    /\ restore' = [restore EXCEPT ![a] = FALSE]
    /\ \/ /\ report_task' = TRUE
          /\ pc' = [pc EXCEPT ![a] = "idle", ![Loop] = "top"]
          /\ UNCHANGED link
       \/ BeginClose(a) /\ UNCHANGED report_task

\* The command of a task returns: v is the version its response carries, or
\* NoValue if it timed out.
Returned(t, v) ==
    \/ /\ op[t] = "loop"
       /\ Subscribe
       /\ UNCHANGED <<controller, restore, seed, link>>
    \/ /\ pc[t] = "disable" /\ op[t] \in {"start", "rediscover"}
       /\ restore' = [restore EXCEPT ![t] = TRUE]
       /\ Goto(t, "discover")
       /\ UNCHANGED <<controller, seed, link, queue, subscribed>>
    \/ /\ pc[t] = "discover"
       /\ Goto(t, "poll")
       /\ UNCHANGED <<controller, restore, seed, link, queue, subscribed>>
    \/ /\ pc[t] = "poll"
       /\ seed' = [seed EXCEPT ![t] = v]
       /\ Goto(t, "rest")
       /\ UNCHANGED <<controller, restore, link, queue, subscribed>>
    \/ /\ pc[t] = "rest"
       /\ data' = seed[t]
       /\ seed' = [seed EXCEPT ![t] = NoValue]
       /\ Goto(t, IF op[t] = "start" \/ restore[t] THEN "enable" ELSE "idle")
       /\ UNCHANGED <<running, report_task, restore, link, queue, subscribed>>
    \/ /\ pc[t] = "enable" /\ op[t] = "start"
       /\ Started(t)
       /\ UNCHANGED <<data, seed, queue, subscribed>>
    \/ /\ pc[t] \in {"enable", "restore"} /\ op[t] = "rediscover"
       /\ Goto(t, "idle")
       /\ UNCHANGED <<controller, restore, seed, link, queue, subscribed>>
    \/ /\ op[t] = "stop" \/ (op[t] = "start" /\ pc[t] = "restore")
       /\ BeginClose(t)
       /\ UNCHANGED <<controller, restore, seed, queue, subscribed>>

\* The session reads the next message.  It ends the command it answers; any
\* other message is published to the loop, and kept in the backlog.
Dispatch ==
    /\ wire # <<>> /\ link = "open"
    /\ wire' = Tail(wire)
    /\ LET message == Head(wire)
           answers == holder # Nobody /\ Sends(pc[holder]) = message.kind
       IN  \/ /\ answers
              /\ holder' = Nobody
              /\ Returned(holder, message.version)
              /\ UNCHANGED backlog
           \/ /\ ~answers
              /\ IF message.version = NoValue
                 THEN UNCHANGED <<backlog, queue>>
                 ELSE /\ backlog' = Append(backlog, message.version)
                      /\ queue' = IF subscribed THEN Append(queue, message.version) ELSE queue
              /\ UNCHANGED <<controller, pc, restore, seed, link, holder, subscribed>>
    /\ UNCHANGED <<op, commands, version, reporting, history>>

\* The time-out of a call: its command was lost before it reached the gateway,
\* or it is only late, and then its response is unmatched when it comes.
TimedOut(t) ==
    /\ holder = t /\ holder' = Nobody
    /\ Returned(t, NoValue)
    /\ \/ /\ commands # <<>> /\ commands' = SubSeq(commands, 1, Len(commands) - 1)
          /\ disturbed' = (disturbed \/ Sends(pc[t]) = "enable")
          /\ UNCHANGED faults
       \/ /\ faults < MaxFaults /\ faults' = faults + 1
          /\ UNCHANGED <<commands, disturbed>>
    /\ UNCHANGED <<op, backlog, wire, version, reporting, calls, cancels, stopped>>

\* The connection is down, or a response to the discovery does not parse.
CommandRaises(t) ==
    /\ pc[t] \in Commands
    /\ link # "open" \/ (holder = t /\ pc[t] = "discover")
    /\ Release(t)
    /\ Raised(t)
    /\ UNCHANGED <<controller, locals, backlog, queue, subscribed, gateway, history>>

\* Mutant: the report loop does not sleep before it goes on.
AfterCloseAlike(t) == "idle"

\* The report loop sleeps for reconnect_interval when it has closed the client.
AfterClose(t) == IF t = Loop THEN "sleep" ELSE "idle"

\* client.close() ends: the loop's subscription ends and the connection goes.
CloseEnds(t) ==
    /\ pc[t] = "closing"
    /\ link' = "closed"
    /\ wire' = <<>> /\ commands' = <<>>
    /\ queue' = IF subscribed THEN Append(queue, EndOfReports) ELSE queue
    /\ subscribed' = FALSE
    /\ Goto(t, AfterClose(t))
    /\ stopped' = (stopped \/ op[t] = "stop")
    /\ UNCHANGED <<controller, locals, holder, backlog, version, reporting, calls,
                   faults, cancels, disturbed>>

-----------------------------------------------------------------------------
(* The application *)

Starts(a, operation) ==
    /\ pc[a] = "idle" /\ calls < MaxCalls
    /\ calls' = calls + 1
    /\ op' = [op EXCEPT ![a] = operation]
    /\ UNCHANGED <<faults, cancels>>

\* The application calls start() and stop() one after the other: it cancels a
\* start() that it does not want to wait for.  rediscover() may overlap either.
\* A controller that is running stays as it is.
Start(a) ==
    /\ Starts(a, "start") /\ ~InProgress("start") /\ ~InProgress("stop")
    /\ Goto(a, IF running /\ data # NoState THEN "idle" ELSE "open")
    /\ restore' = [restore EXCEPT ![a] = FALSE]
    /\ stopped' = FALSE
    /\ disturbed' = (disturbed /\ running)
    /\ UNCHANGED <<controller, seed, session, gateway>>

\* Task.cancel() of the report loop, with the point it is at; a cancellation
\* inside client.close() may be swallowed there.
LoopCancelled(point) ==
    \/ point = pc[Loop] /\ (point \in {"closing", "done", "crashed"})
       /\ UNCHANGED <<queue, subscribed, holder>>
    \/ point = "done" /\ pc[Loop] \notin {"done", "crashed"}
       /\ Unsubscribe /\ Release(Loop)

\* What stop() does when the report loop has ended.
StopClient(a) ==
    IF IsOpen THEN Goto(a, "disable") /\ UNCHANGED link ELSE BeginClose(a)

Stop(a) ==
    /\ Starts(a, "stop") /\ ~InProgress("start") /\ ~InProgress("stop")
    /\ running' = FALSE /\ report_task' = FALSE
    /\ \/ /\ report_task
          /\ \E point \in {"done", "crashed", "closing"} :
                /\ LoopCancelled(point)
                /\ pc' = [pc EXCEPT ![Loop] = point, ![a] = "await_loop"]
          /\ UNCHANGED link
       \/ /\ ~report_task
          /\ StopClient(a)
          /\ UNCHANGED <<queue, subscribed, holder>>
    /\ UNCHANGED <<data, restore, seed, backlog, gateway, disturbed, stopped>>

\* Mutant: stop() does not wait for the report loop.
AwaitNothing(a) ==
    /\ pc[a] = "await_loop"
    /\ StopClient(a)
    /\ UNCHANGED <<controller, locals, holder, backlog, queue, subscribed, gateway,
                   history>>

\* "await task": the exception that ended the report loop ends stop() too.
AwaitLoop(a) ==
    /\ pc[a] = "await_loop"
    /\ \/ pc[Loop] = "done" /\ StopClient(a)
       \/ pc[Loop] = "crashed" /\ Goto(a, "idle") /\ UNCHANGED link
    /\ UNCHANGED <<controller, locals, holder, backlog, queue, subscribed, gateway,
                   history>>

Rediscover(a, pause_reporting) ==
    /\ Starts(a, "rediscover")
    /\ restore' = [restore EXCEPT ![a] = pause_reporting /\ running]
    /\ Goto(a, IF pause_reporting /\ running THEN "disable" ELSE "discover")
    /\ UNCHANGED <<controller, seed, session, gateway, disturbed, stopped>>

\* Task.cancel() of an application task.  Only errors are suppressed where
\* start() and stop() try to set the reporting state.
Cancel(a) ==
    /\ pc[a] # "idle" /\ cancels < MaxCancels
    /\ cancels' = cancels + 1
    /\ disturbed' = (disturbed \/ pc[a] \in {"disable", "enable", "restore"})
    /\ \/ /\ pc[a] \in Commands \cup {"open"}
          /\ Release(a)
          /\ IF op[a] = "stop" \/ pc[a] \in {"open", "restore"}
             THEN Goto(a, "idle") /\ UNCHANGED link
             ELSE Raised(a)
          /\ UNCHANGED <<queue, subscribed>>
       \/ /\ pc[a] = "closing"
          /\ Goto(a, "idle")
          /\ UNCHANGED <<link, holder, queue, subscribed>>
       \/ /\ pc[a] = "await_loop"
          /\ \E point \in {"done", "crashed", "closing"} :
                LoopCancelled(point) /\ Goto(Loop, point)
          /\ UNCHANGED link
    /\ UNCHANGED <<controller, locals, backlog, gateway, calls, faults, stopped>>

-----------------------------------------------------------------------------
(* The report loop *)

\* The new task runs, or reconnect_interval is over.
Turn ==
    /\ pc[Loop] \in {"top", "sleep"}
    /\ LoopTop
    /\ UNCHANGED <<controller, locals, link, holder, backlog, gateway, history>>

\* The next item of the subscription.  A listener that raises anything but an
\* OSError or a TekmarError ends the task; _running stays as it is.
Handle ==
    /\ pc[Loop] = "iterating" /\ queue # <<>>
    /\ LET item == Head(queue)
       IN  \/ /\ item = EndOfReports
              /\ LoopTop
              /\ UNCHANGED <<data, link>>
           \/ /\ item = ErrorItem
              /\ Unsubscribe
              /\ \/ BeginClose(Loop)
                 \/ Goto(Loop, "crashed") /\ UNCHANGED link
              /\ UNCHANGED data
           \/ /\ item \notin {EndOfReports, ErrorItem}
              /\ data' = item
              /\ \/ queue' = Tail(queue) /\ UNCHANGED <<pc, subscribed>>
                 \/ data' # data /\ Unsubscribe /\ Goto(Loop, "crashed")
              /\ UNCHANGED link
    /\ UNCHANGED <<running, report_task, locals, holder, backlog, gateway, history>>

-----------------------------------------------------------------------------
(* The gateway and the connection *)

\* The device value changes, and is reported if reporting is enabled.
Change ==
    /\ version < MaxVersion
    /\ version' = version + 1
    /\ wire' = IF reporting /\ link = "open"
               THEN Append(wire, [kind |-> "report", version |-> version']) ELSE wire
    /\ UNCHANGED <<controller, pc, locals, session, commands, reporting, history>>

\* The gateway executes the next command and answers it.
Serve ==
    /\ commands # <<>>
    /\ commands' = Tail(commands)
    /\ LET command == Head(commands)
       IN  /\ reporting' = IF command \in {"enable", "disable"}
                           THEN command = "enable" ELSE reporting
           /\ wire' = Append(wire, [kind |-> command,
                                    version |-> IF command = "poll" THEN version ELSE NoValue])
    /\ UNCHANGED <<controller, pc, locals, session, version, history>>

\* The connection is lost, or the session gives it up over a bad packet.
LinkFails ==
    /\ link = "open" /\ faults < MaxFaults
    /\ faults' = faults + 1
    /\ link' \in {"lost", "broken"}
    /\ wire' = <<>> /\ commands' = <<>>
    /\ queue' = IF subscribed THEN Append(queue, ErrorItem) ELSE queue
    /\ subscribed' = FALSE
    /\ UNCHANGED <<controller, pc, locals, holder, backlog, version, reporting, calls,
                   cancels, disturbed, stopped>>

-----------------------------------------------------------------------------

Step(t) == OpenOk(t) \/ OpenFails(t) \/ CommandRaises(t) \/ TimedOut(t) \/ CloseEnds(t)

Next ==
    \/ \E a \in Apps : \/ Start(a) \/ Stop(a) \/ AwaitLoop(a) \/ Cancel(a)
                       \/ \E pause_reporting \in BOOLEAN : Rediscover(a, pause_reporting)
    \/ \E t \in Tasks : Step(t) \/ Command(t)
    \/ Turn \/ Handle
    \/ Dispatch \/ Change \/ Serve \/ LinkFails

Spec == Init /\ [][Next]_vars

\* The event loop runs what is ready, timers fire (a command that the gateway
\* does not execute times out), asyncio's lock is FIFO, and the gateway accepts
\* a connection some time.
Fairness ==
    /\ \A t \in Tasks : WF_vars(Step(t)) /\ SF_vars(Command(t))
    /\ \A a \in Apps : WF_vars(AwaitLoop(a))
    /\ WF_vars(Turn) /\ WF_vars(Handle) /\ WF_vars(Dispatch)
    /\ SF_vars(OpenOk(Loop))

FairSpec == Spec /\ Fairness

-----------------------------------------------------------------------------
(* Properties *)

Messages == [kind : {"report"} \cup Commands, version : 0 .. MaxVersion]
Alive == pc[Loop] \notin {"done", "crashed"}

\* Every variable holds a value of its type.
TypeOK ==
    /\ running \in BOOLEAN /\ report_task \in BOOLEAN
    /\ data \in 0 .. MaxVersion \cup {NoState}
    /\ \A a \in Apps : pc[a] \in {"idle", "open", "closing", "await_loop"} \cup Commands
    /\ pc[Loop] \in {"done", "crashed", "top", "open", "enable", "iterating",
                     "closing", "sleep"}
    /\ op \in [Tasks -> {"none", "start", "stop", "rediscover", "loop"}]
    /\ restore \in [Tasks -> BOOLEAN] /\ seed \in [Tasks -> 0 .. MaxVersion]
    /\ link \in {"closed", "open", "lost", "broken", "closing"}
    /\ holder \in Tasks \cup {Nobody}
    /\ backlog \in Seq(1 .. MaxVersion) /\ subscribed \in BOOLEAN
    /\ queue \in Seq(1 .. MaxVersion \cup {EndOfReports, ErrorItem})
    /\ commands \in Seq(Commands) /\ wire \in Seq(Messages)
    /\ version \in 1 .. MaxVersion /\ reporting \in BOOLEAN
    /\ calls \in 0 .. MaxCalls /\ faults \in 0 .. MaxFaults
    /\ cancels \in 0 .. MaxCancels
    /\ disturbed \in BOOLEAN /\ stopped \in BOOLEAN

\* While the controller runs and no operation is under way, the gateway
\* reports: every rediscover() that paused it has restored it, whatever
\* failed, timed out or was cancelled, unless the command that enables it was.
ReportingOn ==
    /\ running /\ pc[Loop] = "iterating" /\ link = "open" /\ commands = <<>>
    /\ \A a \in Apps : pc[a] = "idle"
    /\ ~disturbed
    => reporting

\* When stop() has returned, and until the next start(), the report loop has ended and cannot bring the connection back.
StopIsFinal == stopped => ~running /\ ~Alive /\ link \notin {"open", "broken"}

\* The loop waits for reports only where something will end the wait: it is
\* subscribed, or the end of its stream is in its queue.
LoopIsNotDeaf ==
    pc[Loop] = "iterating" =>
        \/ subscribed /\ (link = "open" \/ \E t \in Tasks : pc[t] = "closing")
        \/ \E i \in DOMAIN queue : queue[i] \in {EndOfReports, ErrorItem}

\* stop() always returns or raises, even if its cancellation of the report
\* loop is swallowed while the loop closes the client.
StopEnds ==
    \A a \in Apps : (pc[a] # "idle" /\ op[a] = "stop") ~> (pc[a] = "idle")

\* A running controller whose loop has not died of an exception gets its
\* connection back.
Reconnects ==
    (running /\ Alive /\ link \in {"lost", "broken"})
        ~> (link = "open" \/ ~running \/ ~Alive)

\* "Reporting stays enabled by default so live report consumers do not miss
\* updates while topology is refreshed": the refresh does not take the value
\* back to an older one.
RediscoverMissesNothing ==
    [][\A a \in Apps :
        op[a] = "rediscover" /\ pc[a] = "rest" /\ pc'[a] # "rest" /\ data' # NoValue
            => data' >= data]_vars

=============================================================================

-------------------------- MODULE ControllerProofs --------------------------
(***************************************************************************)
(* For every number of tasks, calls, versions and events: start() and      *)
(* stop() exclude the report loop, which is what a stop() that has         *)
(* returned leaves behind; what the loop waits on; and who will enable     *)
(* reporting when it is off.                                               *)
(***************************************************************************)
EXTENDS Controller, SequenceTheorems, TLAPS

LoopPoints ==
    {"done", "crashed", "top", "open", "enable", "iterating", "closing", "sleep"}

\* The points of each operation of the application.
Points ==
    [none |-> {"idle"},
     start |-> {"idle", "open", "closing"} \cup Commands,
     stop |-> {"idle", "await_loop", "disable", "closing"},
     rediscover |-> {"idle"} \cup Commands]

Operations == {"none", "start", "stop", "rediscover"}

Placed ==
    /\ op \in [Tasks -> Operations \cup {"loop"}] /\ op[Loop] = "loop"
    /\ pc \in [Tasks -> LoopPoints \cup {"idle", "await_loop"} \cup Commands]
    /\ pc[Loop] \in LoopPoints
    /\ \A a \in Apps : op[a] \in Operations /\ pc[a] \in Points[op[a]]

\* The task is in a start() or a stop().
Active(a) == op[a] \in {"start", "stop"} /\ pc[a] # "idle"

\* start() and stop() exclude each other and, but for a stop() that waits for it
\* to end, the report loop (controller.py:116-165).
Exclusive ==
    /\ \A a, b \in Apps : Active(a) /\ Active(b) => a = b
    /\ \A a \in Apps : Active(a) => ~report_task
    /\ Alive => report_task \/ \E a \in Apps : pc[a] = "await_loop"

RunningInv ==
    /\ report_task => running
    /\ running => data # NoState
    /\ \A a \in Apps :
        /\ op[a] = "start" /\ pc[a] \notin {"idle", "closing"} => ~running
        /\ op[a] = "start" /\ pc[a] = "enable" => data # NoState
        /\ op[a] = "stop" /\ pc[a] # "idle" => ~running

ControlInv == Placed /\ Exclusive /\ RunningInv

\* The task with the lock waits for a response to the command it wrote last.
HolderInv ==
    holder # Nobody =>
        /\ pc[holder] \in Commands
        /\ commands # <<>> => commands[Len(commands)] = Sends(pc[holder])

-----------------------------------------------------------------------------
(* What a step does to the control of the tasks *)

\* Where a task may go: start() gets to its last command with data, and a loop
\* that has ended does not come back.
Goes(t, point) ==
    IF t = Loop
    THEN point \in LoopPoints /\ (~Alive => point \in {"done", "crashed"})
    ELSE /\ pc[t] # "idle" /\ point \in Points[op[t]]
         /\ op[t] = "start" /\ point = "enable" => data' # NoState
         /\ op[t] = "start" /\ pc[t] = "closing" => point \in {"idle", "closing"}
         /\ pc[t] = "await_loop" => point = "await_loop" \/ ~Alive
         /\ pc[t] # "await_loop" => point # "await_loop"

Moves(t, point) ==
    /\ Goto(t, point) /\ Goes(t, point)
    /\ UNCHANGED <<op, running, report_task>>
    /\ data # NoState => data' # NoState

\* A task that is at a point of start() or stop() after the wait is alone.
LEMMA LoopIsDown ==
    ASSUME ControlInv, NEW a \in Apps, Active(a), pc[a] # "await_loop"
    PROVE  ~Alive
<1> SUFFICES ASSUME Alive PROVE FALSE
    OBVIOUS
<1>1. PICK b \in Apps : pc[b] = "await_loop"
    BY DEF ControlInv, Exclusive
<1>2. op[b] = "stop"
    BY <1>1 DEF ControlInv, Placed, Points, Operations, Commands
<1> QED  BY <1>1, <1>2 DEF ControlInv, Exclusive, Active

LEMMA PointsOf ==
    ASSUME NEW operation \in Operations
    PROVE  Points[operation] \subseteq {"idle", "open", "closing", "await_loop"} \cup Commands
<1>1. CASE operation = "none"
    BY <1>1 DEF Points
<1>2. CASE operation = "start"
    BY <1>2 DEF Points
<1>3. CASE operation = "stop"
    BY <1>3 DEF Points, Commands
<1>4. CASE operation = "rediscover"
    BY <1>4 DEF Points
<1> QED  BY <1>1, <1>2, <1>3, <1>4 DEF Operations

LEMMA MovesControl ==
    ASSUME ControlInv, NEW t \in Tasks, NEW point, Moves(t, point)
    PROVE  ControlInv'
<1> USE TaskAssumption DEF Tasks
<1>1. /\ pc' = [pc EXCEPT ![t] = point] /\ Goes(t, point)
      /\ op' = op /\ running' = running /\ report_task' = report_task
      /\ data # NoState => data' # NoState
    BY DEF Moves, Goto
<1>2. /\ pc \in [Tasks -> LoopPoints \cup {"idle", "await_loop"} \cup Commands]
      /\ op \in [Tasks -> Operations \cup {"loop"}]
    BY DEF ControlInv, Placed
<1>3. \A b \in Tasks : pc'[b] = IF b = t THEN point ELSE pc[b]
    BY <1>1, <1>2
<1>4. Placed'
    <2>1. point \in LoopPoints \cup {"idle", "await_loop"} \cup Commands
        <3>1. CASE t = Loop
            BY <1>1, <3>1 DEF Goes
        <3>2. CASE t # Loop
            <4>1. op[t] \in Operations /\ point \in Points[op[t]]
                BY <1>1, <3>2 DEF Goes, ControlInv, Placed
            <4> QED  BY <4>1, PointsOf DEF LoopPoints
        <3> QED  BY <3>1, <3>2
    <2>2. pc' \in [Tasks -> LoopPoints \cup {"idle", "await_loop"} \cup Commands]
        BY <1>1, <1>2, <2>1
    <2>3. pc'[Loop] \in LoopPoints
        BY <1>1, <1>3 DEF Goes, ControlInv, Placed
    <2>4. \A a \in Apps : pc'[a] \in Points[op[a]]
        BY <1>1, <1>3 DEF Goes, ControlInv, Placed
    <2> QED  BY <1>1, <2>2, <2>3, <2>4 DEF ControlInv, Placed
<1>5. \A a \in Apps : Active(a)' => Active(a)
    BY <1>1, <1>3 DEF Active, Goes
<1>6. Exclusive'
    <2>1. Alive' => Alive
        BY <1>1, <1>3 DEF Alive, Goes
    <2>2. Alive' => report_task' \/ \E a \in Apps : pc'[a] = "await_loop"
        BY <1>1, <1>3, <2>1 DEF ControlInv, Exclusive, Goes
    <2> QED  BY <1>1, <1>5, <2>2 DEF ControlInv, Exclusive
<1>7. RunningInv'
    <2>1. \A a \in Apps : op[a] = "start" /\ pc'[a] \notin {"idle", "closing"} => ~running
        BY <1>1, <1>3 DEF ControlInv, RunningInv, Goes
    <2>2. \A a \in Apps : op[a] = "start" /\ pc'[a] = "enable" => data' # NoState
        BY <1>1, <1>3 DEF ControlInv, RunningInv, Goes
    <2>3. \A a \in Apps : op[a] = "stop" /\ pc'[a] # "idle" => ~running
        BY <1>1, <1>3 DEF ControlInv, RunningInv, Goes
    <2> QED  BY <1>1, <2>1, <2>2, <2>3 DEF ControlInv, RunningInv
<1> QED  BY <1>4, <1>6, <1>7 DEF ControlInv

LEMMA StaysControl ==
    ASSUME ControlInv, UNCHANGED <<pc, op, controller>>
    PROVE  ControlInv'
BY DEF ControlInv, Placed, Exclusive, Active, Alive, RunningInv, controller

-----------------------------------------------------------------------------
(* Types: the variables but pc and op, which Placed is about *)

Item == 1 .. MaxVersion \cup {EndOfReports, ErrorItem}

\* What the tasks write.
TasksOK ==
    /\ running \in BOOLEAN /\ report_task \in BOOLEAN
    /\ data \in 0 .. MaxVersion \cup {NoState}
    /\ restore \in [Tasks -> BOOLEAN] /\ seed \in [Tasks -> 0 .. MaxVersion]
    /\ link \in {"closed", "open", "lost", "broken", "closing"}
    /\ queue \in Seq(Item) /\ subscribed \in BOOLEAN

\* What the session and the gateway write.
MessagesOK ==
    /\ holder \in Tasks \cup {Nobody} /\ backlog \in Seq(1 .. MaxVersion)
    /\ commands \in Seq(Commands) /\ wire \in Seq(Messages)
    /\ version \in 1 .. MaxVersion /\ reporting \in BOOLEAN

HistoryOK ==
    /\ calls \in 0 .. MaxCalls /\ faults \in 0 .. MaxFaults
    /\ cancels \in 0 .. MaxCancels
    /\ disturbed \in BOOLEAN /\ stopped \in BOOLEAN

DataOK == TasksOK /\ MessagesOK /\ HistoryOK

LEMMA TypeParts == Placed /\ DataOK => TypeOK
<1> SUFFICES ASSUME Placed, DataOK PROVE TypeOK
    OBVIOUS
<1>1. \A a \in Apps : pc[a] \in {"idle", "open", "closing", "await_loop"} \cup Commands
    <2> SUFFICES ASSUME NEW a \in Apps
                 PROVE  pc[a] \in {"idle", "open", "closing", "await_loop"} \cup Commands
        OBVIOUS
    <2>1. op[a] \in Operations /\ pc[a] \in Points[op[a]]
        BY DEF Placed
    <2> QED  BY <2>1 DEF Operations, Points, Commands
<1>2. op \in [Tasks -> {"none", "start", "stop", "rediscover", "loop"}]
    BY DEF Placed, Operations
<1> QED  BY <1>1, <1>2 DEF TypeOK, Placed, DataOK, TasksOK, MessagesOK, HistoryOK, LoopPoints, Item

-----------------------------------------------------------------------------
(* The returns of a command *)

\* At the end of start() no other task starts or stops, and there is no loop.
LEMMA StartedControl ==
    ASSUME ControlInv, NEW a \in Apps, pc[a] = "enable", op[a] = "start",
           Started(a), UNCHANGED <<op, data>>
    PROVE  ControlInv'
<1> USE TaskAssumption DEF Tasks
<1>1. Active(a) /\ ~Alive /\ data # NoState /\ ~report_task
    BY LoopIsDown DEF ControlInv, Exclusive, RunningInv, Active
<1>2. \A b \in Apps : Active(b) => b = a
    BY <1>1 DEF ControlInv, Exclusive
<1>3. running' = TRUE
    BY DEF Started
<1>4. /\ pc \in [Tasks -> LoopPoints \cup {"idle", "await_loop"} \cup Commands]
      /\ op \in [Tasks -> Operations \cup {"loop"}]
    BY DEF ControlInv, Placed
<1>7. {"idle", "closing"} \subseteq Points["start"]
    BY DEF Points
<1>5. CASE report_task' = TRUE /\ pc' = [pc EXCEPT ![a] = "idle", ![Loop] = "top"]
    <2>1. \A b \in Tasks : pc'[b] = IF b = a THEN "idle" ELSE IF b = Loop THEN "top" ELSE pc[b]
        BY <1>4, <1>5
    <2>2. pc' \in [Tasks -> LoopPoints \cup {"idle", "await_loop"} \cup Commands]
        BY <1>4, <1>5 DEF LoopPoints
    <2>3. Placed'
        BY <1>7, <2>1, <2>2 DEF ControlInv, Placed, LoopPoints
    <2>4. \A b \in Apps : ~Active(b)'
        BY <1>2, <2>1 DEF Active
    <2>5. Exclusive'
        BY <1>5, <2>4 DEF Exclusive
    <2>6. RunningInv'
        BY <1>1, <1>3, <2>4 DEF RunningInv, Active
    <2> QED  BY <2>3, <2>5, <2>6 DEF ControlInv
<1>6. CASE BeginClose(a) /\ report_task' = report_task
    <2>1. pc' = [pc EXCEPT ![a] = "closing"]
        BY <1>6 DEF BeginClose, Goto
    <2>2. \A b \in Tasks : pc'[b] = IF b = a THEN "closing" ELSE pc[b]
        BY <1>4, <2>1
    <2>3. pc' \in [Tasks -> LoopPoints \cup {"idle", "await_loop"} \cup Commands]
        BY <1>4, <2>1 DEF LoopPoints
    <2>4. Placed'
        BY <1>7, <2>2, <2>3 DEF ControlInv, Placed
    <2>5. \A b \in Apps : Active(b)' => b = a
        BY <1>2, <2>2 DEF Active
    <2>6. Exclusive'
        BY <1>1, <1>6, <2>2, <2>5 DEF Exclusive, Alive
    <2>7. RunningInv'
        BY <1>1, <1>3, <1>6, <2>2, <2>5 DEF RunningInv, Active
    <2> QED  BY <2>4, <2>6, <2>7 DEF ControlInv
<1> QED  BY <1>5, <1>6 DEF Started

LEMMA ReturnedControl ==
    ASSUME ControlInv, DataOK, NEW t \in Tasks, pc[t] \in Commands,
           NEW v, Returned(t, v), op' = op
    PROVE  ControlInv'
<1> USE TaskAssumption DEF Tasks
<1>1. op[t] = "loop" <=> t = Loop
    BY DEF ControlInv, Placed, Operations
<1>2. t # Loop => op[t] \in Operations /\ pc[t] \in Points[op[t]]
    BY DEF ControlInv, Placed
<1>3. pc[t] \notin {"idle", "closing", "await_loop", "done", "crashed"}
    BY DEF Commands
<1>4. CASE op[t] = "loop" /\ Subscribe /\ UNCHANGED controller
    <2>1. Alive
        BY <1>1, <1>3, <1>4 DEF Alive
    <2>2. Moves(Loop, "iterating")
        BY <1>4, <2>1 DEF Moves, Goes, Subscribe, controller, LoopPoints
    <2> QED  BY <2>2, MovesControl
<1>5. ASSUME NEW point \in {"idle", "discover", "poll", "rest", "closing"},
             t # Loop, point \in Points[op[t]], Goto(t, point), UNCHANGED controller
      PROVE  ControlInv'
    <2>1. Moves(t, point)
        BY <1>2, <1>3, <1>5 DEF Moves, Goes, controller
    <2> QED  BY <2>1, MovesControl
<1>6. CASE pc[t] = "rest"
    <2>1. t # Loop /\ op[t] \in {"start", "rediscover"}
        BY <1>2, <1>6 DEF ControlInv, Placed, Points, LoopPoints, Operations
    <2>2. PICK point \in {"enable", "idle"} : Goto(t, point) /\ data' = seed[t]
        BY <1>1, <1>6, <2>1 DEF Returned
    <2>3. data' # NoState
        BY <2>2 DEF DataOK, TasksOK, NoState
    <2>4. UNCHANGED <<running, report_task>>
        BY <1>1, <1>6, <2>1 DEF Returned
    <2>5. Moves(t, point)
        BY <1>3, <2>1, <2>2, <2>3, <2>4 DEF Moves, Goes, Points, Commands
    <2> QED  BY <2>5, MovesControl
<1>7. CASE pc[t] = "enable" /\ op[t] = "start" /\ Started(t) /\ data' = data
    BY <1>1, <1>7, StartedControl
<1>8. CASE \/ pc[t] = "disable" /\ op[t] \in {"start", "rediscover"}
           \/ pc[t] = "discover"
           \/ pc[t] = "poll"
           \/ pc[t] \in {"enable", "restore"} /\ op[t] = "rediscover"
           \/ op[t] = "stop"
           \/ pc[t] = "restore" /\ op[t] = "start"
    <2>1. t # Loop
        BY <1>1, <1>8 DEF ControlInv, Placed, LoopPoints
    <2>2. CASE op[t] = "none"
        BY <1>2, <1>3, <2>1, <2>2 DEF Points
    <2>3. CASE op[t] = "stop"
        <3>1. pc[t] = "disable"
            BY <1>2, <1>3, <2>1, <2>3 DEF Points
        <3>2. Goto(t, "closing") /\ UNCHANGED controller
            BY <1>1, <2>1, <2>3, <3>1 DEF Returned, BeginClose
        <3> QED  BY <1>5, <2>1, <2>3, <3>2 DEF Points
    <2>4. CASE op[t] = "start"
        <3>1. PICK point \in {"discover", "poll", "rest", "closing"} :
                    Goto(t, point) /\ UNCHANGED controller
            BY <1>1, <1>8, <2>1, <2>4 DEF Returned, BeginClose
        <3>2. point \in Points[op[t]]
            BY <2>4 DEF Points, Commands
        <3> QED  BY <1>5, <2>1, <3>1, <3>2
    <2>5. CASE op[t] = "rediscover"
        <3>1. PICK point \in {"discover", "poll", "rest", "idle"} :
                    Goto(t, point) /\ UNCHANGED controller
            BY <1>1, <1>8, <2>1, <2>5 DEF Returned, BeginClose
        <3>2. point \in Points[op[t]]
            BY <2>5 DEF Points, Commands
        <3> QED  BY <1>5, <2>1, <3>1, <3>2
    <2> QED  BY <1>2, <2>1, <2>2, <2>3, <2>4, <2>5 DEF Operations
<1> QED  BY <1>4, <1>6, <1>7, <1>8 DEF Returned

-----------------------------------------------------------------------------
(* The steps of the control *)

LEMMA InitControl == Init => ControlInv
<1> SUFFICES ASSUME Init PROVE ControlInv
    OBVIOUS
<1> USE TaskAssumption DEF Tasks
<1>1. pc = [t \in Tasks |-> IF t = Loop THEN "done" ELSE "idle"]
    BY DEF Init
<1>2. op = [t \in Tasks |-> IF t = Loop THEN "loop" ELSE "none"]
    BY DEF Init
<1>3. running = FALSE /\ report_task = FALSE
    BY DEF Init
<1>4. "idle" \in Points["none"]
    BY DEF Points
<1>5. Placed
    BY <1>1, <1>2, <1>4 DEF Placed, LoopPoints, Operations
<1>6. \A a \in Apps : op[a] = "none" /\ pc[a] = "idle"
    BY <1>1, <1>2
<1>7. ~Alive
    BY <1>1 DEF Alive
<1> QED  BY <1>3, <1>5, <1>6, <1>7 DEF ControlInv, Exclusive, RunningInv, Active

\* A call of an idle task: only a start() that has something to start needs to be
\* alone.
LEMMA BeginsControl ==
    ASSUME ControlInv, NEW a \in Apps, pc[a] = "idle",
           NEW operation \in {"start", "rediscover"}, NEW point \in Points[operation],
           op' = [op EXCEPT ![a] = operation], Goto(a, point), UNCHANGED controller,
           operation = "start" => \/ point = "idle"
                                  \/ /\ point = "open" /\ ~running
                                     /\ \A b \in Apps : ~Active(b)
    PROVE  ControlInv'
<1> USE TaskAssumption DEF Tasks
<1>1. /\ pc \in [Tasks -> LoopPoints \cup {"idle", "await_loop"} \cup Commands]
      /\ op \in [Tasks -> Operations \cup {"loop"}]
    BY DEF ControlInv, Placed
<1>2. /\ \A b \in Tasks : pc'[b] = IF b = a THEN point ELSE pc[b]
      /\ \A b \in Tasks : op'[b] = IF b = a THEN operation ELSE op[b]
    BY <1>1 DEF Goto
<1>3. operation \in Operations /\ point \in LoopPoints \cup {"idle"} \cup Commands
    <2>1. CASE operation = "start"
        BY <2>1 DEF Points, Operations, LoopPoints
    <2>2. CASE operation = "rediscover"
        BY <2>2 DEF Points, Operations, LoopPoints
    <2> QED  BY <2>1, <2>2
<1>4. Placed'
    <2>1. pc' \in [Tasks -> LoopPoints \cup {"idle", "await_loop"} \cup Commands]
        BY <1>1, <1>3 DEF Goto
    <2>2. op' \in [Tasks -> Operations \cup {"loop"}]
        BY <1>1, <1>3
    <2> QED  BY <1>2, <1>3, <2>1, <2>2 DEF ControlInv, Placed
<1>5. running' = running /\ report_task' = report_task /\ data' = data
    BY DEF controller
<1>6. \A b \in Apps : Active(b)' => Active(b) \/ (b = a /\ operation = "start" /\ point = "open")
    BY <1>2 DEF Active
<1>7. Exclusive'
    <2>1. Alive' = Alive
        BY <1>2 DEF Alive
    <2>2. \A b \in Apps : pc[b] = "await_loop" => pc'[b] = "await_loop"
        BY <1>2
    <2> QED  BY <1>5, <1>6, <2>1, <2>2 DEF ControlInv, Exclusive, RunningInv
<1>8. RunningInv'
    BY <1>2, <1>5 DEF ControlInv, RunningInv
<1> QED  BY <1>4, <1>7, <1>8 DEF ControlInv

LEMMA StartControl ==
    ASSUME ControlInv, NEW a \in Apps, Start(a)
    PROVE  ControlInv'
<1>1. /\ pc[a] = "idle" /\ op' = [op EXCEPT ![a] = "start"] /\ UNCHANGED controller
      /\ \A b \in Apps : ~Active(b)
    BY DEF Start, Starts, InProgress, Active
<1>2. PICK point \in {"idle", "open"} :
            Goto(a, point) /\ (point = "open" => ~(running /\ data # NoState))
    BY DEF Start
<1>3. point = "open" => ~running
    BY <1>2 DEF ControlInv, RunningInv
<1>4. point \in Points["start"]
    BY DEF Points
<1> QED  BY <1>1, <1>2, <1>3, <1>4, BeginsControl

LEMMA RediscoverControl ==
    ASSUME ControlInv, NEW a \in Apps, NEW pause_reporting, Rediscover(a, pause_reporting)
    PROVE  ControlInv'
<1>1. pc[a] = "idle" /\ op' = [op EXCEPT ![a] = "rediscover"] /\ UNCHANGED controller
    BY DEF Rediscover, Starts
<1>2. PICK point \in {"disable", "discover"} : Goto(a, point)
    BY DEF Rediscover
<1>3. point \in Points["rediscover"]
    BY DEF Points, Commands
<1> QED  BY <1>1, <1>2, <1>3, BeginsControl

LEMMA StopControl ==
    ASSUME ControlInv, NEW a \in Apps, Stop(a)
    PROVE  ControlInv'
<1> USE TaskAssumption DEF Tasks
<1>1. /\ pc[a] = "idle" /\ op' = [op EXCEPT ![a] = "stop"]
      /\ \A b \in Apps : ~Active(b)
      /\ running' = FALSE /\ report_task' = FALSE /\ data' = data
    BY DEF Stop, Starts, InProgress, Active
<1>2. /\ pc \in [Tasks -> LoopPoints \cup {"idle", "await_loop"} \cup Commands]
      /\ op \in [Tasks -> Operations \cup {"loop"}]
    BY DEF ControlInv, Placed
<1>3. \A b \in Apps : pc[b] # "await_loop"
    <2> SUFFICES ASSUME NEW b \in Apps, pc[b] = "await_loop" PROVE FALSE
        OBVIOUS
    <2>1. op[b] = "stop"
        BY DEF ControlInv, Placed, Points, Operations, Commands
    <2> QED  BY <1>1, <2>1 DEF Active
<1>4. \E point \in {"await_loop", "disable", "closing"}, end \in LoopPoints :
        /\ pc' = [pc EXCEPT ![Loop] = end, ![a] = point]
        /\ point # "await_loop" => end = pc[Loop] /\ ~report_task
    <2>1. pc[Loop] \in LoopPoints /\ a # Loop
        BY DEF ControlInv, Placed
    <2>2. CASE ~report_task /\ StopClient(a)
        <3>1. PICK point \in {"disable", "closing"} : pc' = [pc EXCEPT ![a] = point]
            BY <2>2 DEF StopClient, BeginClose, Goto
        <3>2. pc' = [pc EXCEPT ![Loop] = pc[Loop], ![a] = point]
            BY <1>2, <2>1, <3>1
        <3> QED  BY <2>1, <2>2, <3>2
    <2>3. CASE \E point \in {"done", "crashed", "closing"} :
                    pc' = [pc EXCEPT ![Loop] = point, ![a] = "await_loop"]
        BY <2>3 DEF LoopPoints
    <2> QED  BY <2>2, <2>3 DEF Stop
<1>5. PICK point \in {"await_loop", "disable", "closing"}, end \in LoopPoints :
        /\ pc' = [pc EXCEPT ![Loop] = end, ![a] = point]
        /\ point # "await_loop" => end = pc[Loop] /\ ~report_task
    BY <1>4
<1>6. /\ \A b \in Tasks : pc'[b] = IF b = a THEN point ELSE IF b = Loop THEN end ELSE pc[b]
      /\ \A b \in Tasks : op'[b] = IF b = a THEN "stop" ELSE op[b]
    BY <1>1, <1>2, <1>5
<1>7. Placed'
    <2>1. point \in Points["stop"] /\ "stop" \in Operations
        BY DEF Points, Operations
    <2>2. pc' \in [Tasks -> LoopPoints \cup {"idle", "await_loop"} \cup Commands]
        BY <1>2, <1>5 DEF LoopPoints, Commands
    <2>3. op' \in [Tasks -> Operations \cup {"loop"}]
        BY <1>1, <1>2, <2>1
    <2> QED  BY <1>6, <2>1, <2>2, <2>3 DEF ControlInv, Placed
<1>8. \A b \in Apps : Active(b)' => b = a
    BY <1>1, <1>6 DEF Active
<1>9. Exclusive'
    <2>1. Alive' => pc'[a] = "await_loop"
        BY <1>3, <1>6, <1>5 DEF Alive, ControlInv, Exclusive
    <2> QED  BY <1>1, <1>8, <2>1 DEF Exclusive
<1>10. RunningInv'
    BY <1>1, <1>6, <1>8 DEF RunningInv, Active
<1> QED  BY <1>7, <1>9, <1>10 DEF ControlInv

LEMMA OpenControl ==
    ASSUME ControlInv, NEW t \in Tasks, OpenOk(t) \/ OpenFails(t)
    PROVE  ControlInv'
<1> USE TaskAssumption DEF Tasks
<1>1. pc[t] = "open" /\ UNCHANGED <<op, controller>>
    BY DEF OpenOk, OpenFails, locals
<1>2. CASE t = Loop
    <2>1. PICK point \in {"enable", "closing"} : Goto(Loop, point)
        BY <1>2 DEF OpenOk, OpenFails
    <2>2. Moves(Loop, point)
        BY <1>1, <1>2, <2>1 DEF Moves, Goes, controller, LoopPoints, Alive
    <2> QED  BY <2>2, MovesControl
<1>3. CASE t # Loop
    <2>1. PICK point \in {"disable", "idle"} : Goto(t, point)
        BY <1>3 DEF OpenOk, OpenFails
    <2>2. op[t] = "start"
        <3>1. op[t] \in Operations /\ pc[t] \in Points[op[t]]
            BY <1>3 DEF ControlInv, Placed
        <3> QED  BY <1>1, <3>1 DEF Points, Operations, Commands
    <2>3. Moves(t, point)
        BY <1>1, <1>3, <2>1, <2>2 DEF Moves, Goes, controller, Points, Commands
    <2> QED  BY <2>3, MovesControl
<1> QED  BY <1>2, <1>3

\* A failed or cancelled command.
LEMMA RaisedControl ==
    ASSUME ControlInv, NEW t \in Tasks, pc[t] \in Commands, Raised(t),
           UNCHANGED <<op, controller>>
    PROVE  ControlInv'
<1> USE TaskAssumption DEF Tasks
<1>1. op[t] = "loop" <=> t = Loop
    BY DEF ControlInv, Placed, Operations
<1>2. pc[t] \notin {"idle", "closing", "await_loop", "done", "crashed"}
    BY DEF Commands
<1>3. CASE t = Loop
    <2>1. Goto(Loop, "closing")
        BY <1>1, <1>3 DEF Raised, Restores, BeginClose
    <2>2. Moves(Loop, "closing")
        BY <1>2, <1>3, <2>1 DEF Moves, Goes, Alive, LoopPoints, controller
    <2> QED  BY <2>2, MovesControl
<1>4. CASE t # Loop
    <2>1. op[t] \in Operations /\ pc[t] \in Points[op[t]]
        BY <1>4 DEF ControlInv, Placed
    <2>2. PICK point \in {"restore", "closing", "idle"} :
            /\ Goto(t, point)
            /\ point = "restore" => op[t] \in {"start", "rediscover"}
            /\ point = "closing" => op[t] \in {"start", "stop"}
            /\ point = "idle" => op[t] = "rediscover"
        BY <1>1, <1>4 DEF Raised, Restores, BeginClose
    <2>3. point \in Points[op[t]]
        BY <2>2 DEF Points, Commands
    <2>4. Moves(t, point)
        BY <1>2, <1>4, <2>2, <2>3 DEF Moves, Goes, controller
    <2> QED  BY <2>4, MovesControl
<1> QED  BY <1>3, <1>4

LEMMA CommandRaisesControl ==
    ASSUME ControlInv, NEW t \in Tasks, CommandRaises(t)
    PROVE  ControlInv'
BY RaisedControl DEF CommandRaises, locals

LEMMA TimedOutControl ==
    ASSUME ControlInv, DataOK, HolderInv, NEW t \in Tasks, TimedOut(t)
    PROVE  ControlInv'
<1>1. pc[t] \in Commands
    BY TaskAssumption DEF TimedOut, HolderInv
<1> QED  BY <1>1, ReturnedControl DEF TimedOut

LEMMA DispatchControl ==
    ASSUME ControlInv, DataOK, HolderInv, Dispatch
    PROVE  ControlInv'
<1>1. PICK t : t = holder
    OBVIOUS
<1>2. PICK v : v = Head(wire).version
    OBVIOUS
<1>3. CASE holder # Nobody /\ Returned(t, v)
    <2>1. pc[t] \in Commands /\ t \in Tasks
        BY <1>1, <1>3 DEF HolderInv, DataOK, MessagesOK
    <2>2. op' = op
        BY DEF Dispatch
    <2> QED  BY <1>3, <2>1, <2>2, ReturnedControl
<1>4. CASE UNCHANGED <<controller, pc>>
    BY <1>4, StaysControl DEF Dispatch
<1> QED  BY <1>1, <1>2, <1>3, <1>4 DEF Dispatch

LEMMA CloseEndsControl ==
    ASSUME ControlInv, NEW t \in Tasks, CloseEnds(t)
    PROVE  ControlInv'
<1> USE TaskAssumption DEF Tasks
<1>1. pc[t] = "closing" /\ Goto(t, AfterClose(t)) /\ UNCHANGED <<op, controller>>
    BY DEF CloseEnds, locals
<1>2. CASE t = Loop
    <2>1. Moves(Loop, "sleep")
        BY <1>1, <1>2 DEF Moves, Goes, AfterClose, Alive, LoopPoints, controller
    <2> QED  BY <2>1, MovesControl
<1>3. CASE t # Loop
    <2>1. op[t] \in Operations /\ pc[t] \in Points[op[t]]
        BY <1>3 DEF ControlInv, Placed
    <2>2. "idle" \in Points[op[t]]
        BY <2>1 DEF Points, Operations
    <2>3. Moves(t, "idle")
        BY <1>1, <1>3, <2>2 DEF Moves, Goes, AfterClose, controller
    <2> QED  BY <2>3, MovesControl
<1> QED  BY <1>2, <1>3

LEMMA AwaitLoopControl ==
    ASSUME ControlInv, NEW a \in Apps, AwaitLoop(a)
    PROVE  ControlInv'
<1>1. /\ pc[a] = "await_loop" /\ ~Alive /\ UNCHANGED <<op, controller>>
    BY DEF AwaitLoop, Alive, locals
<1>2. PICK point \in {"disable", "closing", "idle"} : Goto(a, point)
    BY DEF AwaitLoop, StopClient, BeginClose
<1>3. op[a] = "stop"
    BY <1>1 DEF ControlInv, Placed, Points, Operations, Commands
<1>4. point \in Points[op[a]]
    BY <1>3 DEF Points
<1>5. Moves(a, point)
    BY <1>1, <1>2, <1>3, <1>4, TaskAssumption DEF Moves, Goes, controller
<1> QED  BY <1>5, MovesControl DEF Tasks

LEMMA CancelControl ==
    ASSUME ControlInv, NEW a \in Apps, Cancel(a)
    PROVE  ControlInv'
<1> USE TaskAssumption DEF Tasks
<1>1. pc[a] # "idle" /\ a # Loop /\ UNCHANGED <<op, controller>>
    BY DEF Cancel, locals
<1>2. op[a] \in Operations /\ pc[a] \in Points[op[a]]
    BY DEF ControlInv, Placed
<1>3. CASE pc[a] \in Commands /\ Raised(a)
    BY <1>1, <1>3, RaisedControl
<1>4. CASE pc[a] # "await_loop" /\ Goto(a, "idle")
    <2>1. "idle" \in Points[op[a]]
        BY <1>2 DEF Points, Operations
    <2>2. Moves(a, "idle")
        BY <1>1, <1>4, <2>1 DEF Moves, Goes, controller
    <2> QED  BY <2>2, MovesControl
<1>5. CASE \E point \in {"done", "crashed", "closing"} :
                LoopCancelled(point) /\ Goto(Loop, point)
    <2>1. PICK point \in {"done", "crashed", "closing"} :
                LoopCancelled(point) /\ Goto(Loop, point)
        BY <1>5
    <2>2. Moves(Loop, point)
        BY <1>1, <2>1 DEF LoopCancelled, Moves, Goes, Alive, LoopPoints, controller
    <2> QED  BY <2>2, MovesControl
<1> QED  BY <1>3, <1>4, <1>5 DEF Cancel, Commands

\* A step of the loop, which it takes while it is alive.
LEMMA LoopControl ==
    ASSUME ControlInv, DataOK, Turn \/ Handle
    PROVE  ControlInv'
<1>1. Alive /\ UNCHANGED <<op, running, report_task>>
    BY DEF Turn, Handle, Alive, controller, locals
<1>2. data # NoState => data' # NoState
    BY DEF Turn, Handle, controller, NoState, EndOfReports
<1>3. pc' = pc \/ \E point \in LoopPoints : Goto(Loop, point)
    BY DEF Turn, Handle, LoopTop, Subscribe, BeginClose, LoopPoints
<1>4. CASE pc' = pc
    BY <1>1, <1>2, <1>4 DEF ControlInv, Placed, Exclusive, RunningInv, Active, Alive
<1>5. CASE \E point \in LoopPoints : Goto(Loop, point)
    <2>1. PICK point \in LoopPoints : Goto(Loop, point)
        BY <1>5
    <2>2. Moves(Loop, point)
        BY <1>1, <1>2, <2>1 DEF Moves, Goes
    <2> QED  BY <2>2, MovesControl DEF Tasks
<1> QED  BY <1>3, <1>4, <1>5

LEMMA NextControl ==
    ASSUME ControlInv, DataOK, HolderInv, [Next]_vars
    PROVE  ControlInv'
<1>1. ASSUME NEW a \in Apps, NEW pause_reporting,
             \/ Start(a) \/ Stop(a) \/ AwaitLoop(a) \/ Cancel(a)
             \/ Rediscover(a, pause_reporting)
      PROVE  ControlInv'
    BY <1>1, StartControl, StopControl, AwaitLoopControl, CancelControl, RediscoverControl
<1>2. ASSUME NEW t \in Tasks, Step(t)
      PROVE  ControlInv'
    BY <1>2, OpenControl, CommandRaisesControl, TimedOutControl, CloseEndsControl DEF Step
<1>3. ASSUME NEW t \in Tasks, Command(t)
      PROVE  ControlInv'
    BY <1>3, StaysControl DEF Command, locals
<1>4. CASE Change \/ Serve \/ LinkFails \/ UNCHANGED vars
    BY <1>4, StaysControl DEF Change, Serve, LinkFails, locals, vars
<1> QED  BY <1>1, <1>2, <1>3, <1>4, LoopControl, DispatchControl DEF Next

-----------------------------------------------------------------------------
(* The holder of the transaction lock *)

\* The holder stays, and waits, while nothing is written behind its command.
HolderStays ==
    holder' # Nobody => /\ holder' = holder /\ pc'[holder] = pc[holder]
                        /\ commands' \in {commands, <<>>, Tail(commands)}

LEMMA HolderKept ==
    ASSUME HolderInv, DataOK, HolderStays
    PROVE  HolderInv'
<1> SUFFICES ASSUME holder' # Nobody
             PROVE  /\ pc'[holder'] \in Commands
                    /\ commands' # <<>> => commands'[Len(commands')] = Sends(pc'[holder'])
    BY DEF HolderInv
<1>1. /\ holder' = holder /\ pc'[holder'] = pc[holder] /\ pc[holder] \in Commands
      /\ commands' \in {commands, <<>>, Tail(commands)}
    BY DEF HolderInv, HolderStays
<1>2. commands \in Seq(Commands)
    BY DEF DataOK, MessagesOK
<1>3. CASE commands' = Tail(commands) /\ commands # <<>> /\ commands' # <<>>
    <2>1. commands'[Len(commands')] = commands[Len(commands)]
        BY <1>2, <1>3
    <2> QED  BY <1>1, <1>3, <2>1 DEF HolderInv, Sends
<1>4. CASE commands' = Tail(commands) /\ commands = <<>>
    <2>1. Tail(<<>>) = <<>>
        OBVIOUS
    <2> QED  BY <1>1, <1>4, <2>1
<1> QED  BY <1>1, <1>3, <1>4 DEF HolderInv, Sends

\* A task that goes on from a point that is not a command's does not hold the lock.
LEMMA HolderElsewhere ==
    ASSUME HolderInv, DataOK, NEW t \in Tasks, pc[t] \notin Commands, NEW point,
           Placed, Goto(t, point), holder' = holder,
           commands' \in {commands, <<>>, Tail(commands)}
    PROVE  HolderStays
<1>1. holder # Nobody => holder \in Tasks /\ holder # t
    BY DEF HolderInv, DataOK, MessagesOK
<1>2. holder # Nobody => pc'[holder] = pc[holder]
    BY <1>1 DEF Goto, Placed
<1> QED  BY <1>2 DEF HolderStays

LEMMA HolderReleased ==
    ASSUME HolderInv, DataOK, NEW t \in Tasks, NEW point, Placed, Goto(t, point),
           Release(t), UNCHANGED commands
    PROVE  HolderStays
<1>1. holder' # Nobody => holder' = holder /\ holder \in Tasks /\ holder # t
    BY DEF Release, DataOK, MessagesOK
<1>2. holder' # Nobody => pc'[holder] = pc[holder]
    BY <1>1 DEF Goto, Placed
<1> QED  BY <1>1, <1>2 DEF HolderStays

LEMMA CommandHolder ==
    ASSUME DataOK, NEW t \in Tasks, Command(t)
    PROVE  HolderInv'
<1>1. pc[t] \in Commands /\ holder' = t /\ pc' = pc /\ commands \in Seq(Commands)
    BY DEF Command, DataOK, MessagesOK
<1>2. Sends(pc[t]) \in Commands
    BY <1>1 DEF Sends, Commands
<1>3. commands' = Append(commands, Sends(pc[t]))
    BY DEF Command
<1>4. commands'[Len(commands')] = Sends(pc[t])
    BY <1>1, <1>2, <1>3
<1> QED  BY <1>1, <1>4 DEF HolderInv, Sends

LEMMA RaisedGoes ==
    ASSUME NEW t, Raised(t)
    PROVE  \E point : Goto(t, point)
BY DEF Raised, BeginClose

LEMMA StopHolder ==
    ASSUME ControlInv, DataOK, HolderInv, NEW a \in Apps, Stop(a)
    PROVE  HolderStays
<1> USE TaskAssumption DEF Tasks
<1>1. pc[a] = "idle" /\ commands' = commands
    BY DEF Stop, Starts, gateway
<1>2. holder # Nobody => holder \in Tasks /\ holder # a
    BY <1>1 DEF HolderInv, DataOK, MessagesOK, Commands
<1>3. pc \in [Tasks -> LoopPoints \cup {"idle", "await_loop"} \cup Commands]
    BY DEF ControlInv, Placed
<1>4. CASE StopClient(a) /\ holder' = holder
    <2>1. \E point : Goto(a, point)
        BY <1>4 DEF StopClient, BeginClose
    <2>2. holder # Nobody => pc'[holder] = pc[holder]
        BY <1>2, <1>3, <2>1 DEF Goto
    <2> QED  BY <1>1, <1>4, <2>2 DEF HolderStays
<1>5. CASE \E point \in {"done", "crashed", "closing"} :
                /\ LoopCancelled(point)
                /\ pc' = [pc EXCEPT ![Loop] = point, ![a] = "await_loop"]
    <2>1. PICK point \in {"done", "crashed", "closing"} :
                /\ LoopCancelled(point)
                /\ pc' = [pc EXCEPT ![Loop] = point, ![a] = "await_loop"]
        BY <1>5
    <2>2. holder' # Nobody => holder' = holder
        BY <2>1 DEF LoopCancelled, Release
    <2>3. holder' # Nobody => pc'[holder] = pc[holder]
        <3>1. CASE point = pc[Loop]
            BY <1>2, <1>3, <2>1, <2>2, <3>1
        <3>2. CASE Release(Loop)
            BY <1>2, <1>3, <2>1, <2>2, <3>2 DEF Release
        <3> QED  BY <2>1, <3>1, <3>2 DEF LoopCancelled
    <2> QED  BY <1>1, <2>2, <2>3 DEF HolderStays
<1> QED  BY <1>4, <1>5 DEF Stop

LEMMA CancelHolder ==
    ASSUME ControlInv, DataOK, HolderInv, NEW a \in Apps, Cancel(a)
    PROVE  HolderStays
<1> USE TaskAssumption DEF Tasks
<1>1. commands' = commands /\ Placed
    BY DEF Cancel, gateway, ControlInv
<1>2. CASE Release(a) /\ (Goto(a, "idle") \/ Raised(a))
    <2>1. \E point : Goto(a, point)
        BY <1>2, RaisedGoes
    <2> QED  BY <1>1, <1>2, <2>1, HolderReleased
<1>3. CASE pc[a] = "closing" /\ Goto(a, "idle") /\ holder' = holder
    BY <1>1, <1>3, HolderElsewhere DEF Commands
<1>4. CASE \E point \in {"done", "crashed", "closing"} :
                LoopCancelled(point) /\ Goto(Loop, point)
    <2>1. PICK point \in {"done", "crashed", "closing"} :
                LoopCancelled(point) /\ Goto(Loop, point)
        BY <1>4
    <2>2. CASE Release(Loop)
        BY <1>1, <2>1, <2>2, HolderReleased
    <2>3. CASE pc[Loop] = point /\ holder' = holder
        BY <1>1, <2>1, <2>3, HolderElsewhere DEF Commands
    <2> QED  BY <2>1, <2>2, <2>3 DEF LoopCancelled
<1> QED  BY <1>2, <1>3, <1>4 DEF Cancel

LEMMA HolderStep ==
    ASSUME ControlInv, DataOK, HolderInv, [Next]_vars, ~\E t \in Tasks : Command(t)
    PROVE  HolderStays
<1> USE TaskAssumption DEF Tasks
<1>1. Placed
    BY DEF ControlInv
<1>2. ASSUME NEW a \in Apps, Start(a) \/ \E pause \in BOOLEAN : Rediscover(a, pause)
      PROVE  HolderStays
    <2>1. /\ pc[a] \notin Commands /\ holder' = holder /\ commands' = commands
          /\ \E point : Goto(a, point)
        BY <1>2 DEF Start, Rediscover, Starts, session, gateway, Commands
    <2> QED  BY <1>1, <2>1, HolderElsewhere
<1>3. ASSUME NEW a \in Apps, AwaitLoop(a)
      PROVE  HolderStays
    <2>1. /\ pc[a] \notin Commands /\ holder' = holder /\ commands' = commands
          /\ \E point : Goto(a, point)
        BY <1>3 DEF AwaitLoop, StopClient, BeginClose, gateway, Commands
    <2> QED  BY <1>1, <2>1, HolderElsewhere
<1>4. ASSUME NEW t \in Tasks, OpenOk(t) \/ OpenFails(t) \/ CloseEnds(t)
      PROVE  HolderStays
    <2>1. /\ pc[t] \notin Commands /\ holder' = holder /\ commands' \in {commands, <<>>}
          /\ \E point : Goto(t, point)
        BY <1>4 DEF OpenOk, OpenFails, CloseEnds, gateway, Commands
    <2> QED  BY <1>1, <2>1, HolderElsewhere
<1>5. ASSUME NEW t \in Tasks, CommandRaises(t)
      PROVE  HolderStays
    <2>1. Release(t) /\ commands' = commands /\ \E point : Goto(t, point)
        BY <1>5, RaisedGoes DEF CommandRaises, gateway
    <2> QED  BY <1>1, <2>1, HolderReleased
<1>6. CASE Turn \/ Handle
    <2>1. /\ pc[Loop] \notin Commands /\ holder' = holder /\ commands' = commands
        BY <1>6 DEF Turn, Handle, gateway, Commands
    <2>2. pc' = pc \/ \E point : Goto(Loop, point)
        BY <1>6 DEF Turn, Handle, LoopTop, Subscribe, BeginClose
    <2> QED  BY <1>1, <2>1, <2>2, HolderElsewhere DEF HolderStays
<1>7. CASE Dispatch \/ \E t \in Tasks : TimedOut(t)
    <2>1. holder' = Nobody \/ UNCHANGED <<holder, pc, commands>>
        BY <1>7 DEF Dispatch, TimedOut
    <2> QED  BY <2>1 DEF HolderStays
<1>8. CASE Change \/ Serve \/ LinkFails \/ UNCHANGED vars
    <2>1. /\ holder' = holder /\ pc' = pc
          /\ commands' \in {commands, <<>>, Tail(commands)}
        BY <1>8 DEF Change, Serve, LinkFails, vars, session, gateway
    <2> QED  BY <2>1 DEF HolderStays
<1> QED  BY <1>2, <1>3, <1>4, <1>5, <1>6, <1>7, <1>8, StopHolder, CancelHolder
        DEF Next, Step

LEMMA NextHolder ==
    ASSUME ControlInv, DataOK, HolderInv, [Next]_vars
    PROVE  HolderInv'
BY HolderStep, HolderKept, CommandHolder

-----------------------------------------------------------------------------
(* The types of what a step writes *)

LEMMA SeqOfMore ==
    ASSUME NEW S, NEW T, S \subseteq T, NEW s \in Seq(S)
    PROVE  s \in Seq(T)
<1>1. PICK n \in Nat : s \in [1 .. n -> S]
    BY SeqDef
<1>2. s \in [1 .. n -> T]
    BY <1>1
<1> QED  BY <1>2, SeqDef

LEMMA SubscribeOK ==
    ASSUME DataOK, Subscribe
    PROVE  queue' \in Seq(Item) /\ subscribed' \in BOOLEAN
<1>1. backlog \in Seq(Item)
    <2>1. backlog \in Seq(1 .. MaxVersion) /\ 1 .. MaxVersion \subseteq Item
        BY DEF DataOK, MessagesOK, Item
    <2> QED  BY <2>1, SeqOfMore
<1>2. <<ErrorItem>> \in Seq(Item)
    BY DEF Item
<1> QED  BY <1>1, <1>2 DEF Subscribe, DataOK, TasksOK

LEMMA ReturnedOK ==
    ASSUME DataOK, NEW t \in Tasks, NEW v \in 0 .. MaxVersion, Returned(t, v)
    PROVE  TasksOK'
<1> USE DEF DataOK, TasksOK, MessagesOK, HistoryOK, Item, controller, BeginClose, Goto
<1>1. CASE UNCHANGED <<controller, restore, seed, link>> /\ Subscribe
    BY <1>1, SubscribeOK
<1>2. CASE /\ UNCHANGED <<controller, seed, queue, subscribed>>
           /\ restore' = restore \/ restore' = [restore EXCEPT ![t] = TRUE]
           /\ link' = link \/ BeginClose(t)
    BY <1>2
<1>3. CASE /\ seed' = [seed EXCEPT ![t] = v]
           /\ UNCHANGED <<controller, restore, link, queue, subscribed>>
    BY <1>3
<1>4. CASE /\ data' = seed[t] /\ seed' = [seed EXCEPT ![t] = NoValue]
           /\ UNCHANGED <<running, report_task, restore, link, queue, subscribed>>
    <2>1. NoValue \in 0 .. MaxVersion
        BY BoundAssumption DEF NoValue
    <2> QED  BY <1>4, <2>1
<1>5. CASE Started(t) /\ UNCHANGED <<data, seed, queue, subscribed>>
    BY <1>5 DEF Started
<1> QED  BY <1>1, <1>2, <1>3, <1>4, <1>5 DEF Returned

\* The session's view of a message.
LEMMA MessageOK ==
    ASSUME DataOK, wire # <<>>
    PROVE  /\ Head(wire).version \in 0 .. MaxVersion
           /\ Tail(wire) \in Seq(Messages)
<1>1. Head(wire) \in Messages /\ Tail(wire) \in Seq(Messages)
    BY DEF DataOK, TasksOK, MessagesOK, HistoryOK
<1> QED  BY <1>1 DEF Messages

LEMMA DispatchTypes ==
    ASSUME DataOK, Dispatch
    PROVE  DataOK'
<1>1. Head(wire).version \in 0 .. MaxVersion /\ Tail(wire) \in Seq(Messages)
    BY MessageOK DEF Dispatch
<1>2. PICK t, v : t = holder /\ v = Head(wire).version
    OBVIOUS
<1>3. HistoryOK'
    BY DEF Dispatch, DataOK, HistoryOK, history
<1>4. CASE holder # Nobody /\ holder' = Nobody /\ Returned(t, v) /\ backlog' = backlog
    <2>1. TasksOK'
        BY <1>1, <1>2, <1>4, ReturnedOK DEF DataOK, TasksOK, MessagesOK, HistoryOK
    <2>2. MessagesOK'
        BY <1>1, <1>4 DEF Dispatch, DataOK, TasksOK, MessagesOK, HistoryOK
    <2> QED  BY <1>3, <2>1, <2>2 DEF DataOK
<1>5. CASE /\ UNCHANGED <<controller, pc, restore, seed, link, holder, subscribed>>
           /\ IF v = NoValue
              THEN UNCHANGED <<backlog, queue>>
              ELSE /\ backlog' = Append(backlog, v)
                   /\ queue' = IF subscribed THEN Append(queue, v) ELSE queue
    <2>1. v # NoValue => v \in 1 .. MaxVersion /\ v \in Item
        BY <1>1, <1>2 DEF Item, NoValue
    <2>2. backlog' \in Seq(1 .. MaxVersion)
        <3>1. backlog \in Seq(1 .. MaxVersion)
            BY DEF DataOK, MessagesOK
        <3>2. CASE v = NoValue
            BY <1>5, <3>1, <3>2
        <3>3. CASE v # NoValue
            <4>1. Append(backlog, v) \in Seq(1 .. MaxVersion)
                BY <2>1, <3>1, <3>3, AppendProperties
            <4> QED  BY <1>5, <3>3, <4>1
        <3> QED  BY <3>2, <3>3
    <2>3. queue' \in Seq(Item)
        <3>1. queue \in Seq(Item)
            BY DEF DataOK, TasksOK
        <3>2. CASE v = NoValue
            BY <1>5, <3>1, <3>2
        <3>3. CASE v # NoValue
            <4>1. Append(queue, v) \in Seq(Item)
                BY <2>1, <3>1, <3>3, AppendProperties
            <4> QED  BY <1>5, <3>1, <3>3, <4>1
        <3> QED  BY <3>2, <3>3
    <2>4. TasksOK'
        BY <1>5, <2>3 DEF DataOK, TasksOK, MessagesOK, HistoryOK, controller
    <2>5. MessagesOK'
        BY <1>1, <1>5, <2>2 DEF Dispatch, DataOK, TasksOK, MessagesOK, HistoryOK
    <2> QED  BY <1>3, <2>4, <2>5 DEF DataOK
<1> QED  BY <1>2, <1>4, <1>5 DEF Dispatch

LEMMA TimedOutTypes ==
    ASSUME DataOK, NEW t \in Tasks, TimedOut(t)
    PROVE  DataOK'
<1>1. TasksOK'
    <2>1. NoValue \in 0 .. MaxVersion
        BY BoundAssumption DEF NoValue
    <2> QED  BY <2>1, ReturnedOK DEF TimedOut
<1>2. commands' \in Seq(Commands)
    <2>1. commands \in Seq(Commands)
        BY DEF DataOK, MessagesOK
    <2>2. commands # <<>> => SubSeq(commands, 1, Len(commands) - 1) \in Seq(Commands)
        BY <2>1
    <2> QED  BY <2>1, <2>2 DEF TimedOut
<1>3. MessagesOK'
    BY <1>2 DEF TimedOut, DataOK, MessagesOK
<1>4. HistoryOK'
    <2>1. disturbed' \in BOOLEAN
        BY DEF TimedOut, DataOK, HistoryOK
    <2> QED  BY <2>1, BoundAssumption DEF TimedOut, DataOK, HistoryOK
<1> QED  BY <1>1, <1>3, <1>4 DEF DataOK

LEMMA TaskStepTypes ==
    ASSUME DataOK, NEW t \in Tasks,
           OpenOk(t) \/ OpenFails(t) \/ CommandRaises(t) \/ Command(t)
    PROVE  DataOK'
<1> USE DEF Goto, BeginClose, Release, controller, locals, gateway, history
<1>1. TasksOK'
    BY DEF OpenOk, OpenFails, CommandRaises, Raised, Command, DataOK, TasksOK
<1>2. commands' \in Seq(Commands)
    <2>1. commands \in Seq(Commands)
        BY DEF DataOK, MessagesOK
    <2>2. CASE Command(t)
        <3>1. Sends(pc[t]) \in Commands
            BY <2>2 DEF Command, Sends, Commands
        <3>2. Append(commands, Sends(pc[t])) \in Seq(Commands)
            BY <2>1, <3>1, AppendProperties
        <3> QED  BY <2>2, <3>2 DEF Command
    <2> QED  BY <2>1, <2>2 DEF OpenOk, OpenFails, CommandRaises
<1>3. MessagesOK'
    BY <1>2 DEF OpenOk, OpenFails, CommandRaises, Command, DataOK, MessagesOK
<1>4. HistoryOK'
    BY DEF OpenOk, OpenFails, CommandRaises, Command, DataOK, HistoryOK
<1> QED  BY <1>1, <1>3, <1>4 DEF DataOK

\* The end of a stream is queued behind what is in it.
LEMMA EndingOK ==
    ASSUME DataOK, NEW item \in {EndOfReports, ErrorItem},
           queue' = IF subscribed THEN Append(queue, item) ELSE queue
    PROVE  queue' \in Seq(Item)
<1>1. queue \in Seq(Item) /\ item \in Item
    BY DEF DataOK, TasksOK, Item
<1>2. Append(queue, item) \in Seq(Item)
    BY <1>1, AppendProperties
<1> QED  BY <1>1, <1>2

LEMMA CloseEndsTypes ==
    ASSUME DataOK, NEW t \in Tasks, CloseEnds(t)
    PROVE  DataOK'
<1>1. queue' \in Seq(Item)
    BY EndingOK DEF CloseEnds
<1>2. TasksOK'
    BY <1>1 DEF CloseEnds, DataOK, TasksOK, controller, locals
<1>3. MessagesOK'
    BY DEF CloseEnds, DataOK, MessagesOK
<1>4. HistoryOK'
    BY DEF CloseEnds, DataOK, HistoryOK
<1> QED  BY <1>2, <1>3, <1>4 DEF DataOK

LEMMA LinkFailsTypes ==
    ASSUME DataOK, LinkFails
    PROVE  DataOK'
<1>1. queue' \in Seq(Item)
    BY EndingOK DEF LinkFails
<1>2. TasksOK'
    BY <1>1 DEF LinkFails, DataOK, TasksOK, controller, locals
<1>3. MessagesOK'
    BY DEF LinkFails, DataOK, MessagesOK
<1>4. HistoryOK'
    BY BoundAssumption DEF LinkFails, DataOK, HistoryOK
<1> QED  BY <1>2, <1>3, <1>4 DEF DataOK

LEMMA StartTypes ==
    ASSUME DataOK, NEW a \in Apps, Start(a)
    PROVE  DataOK'
<1>1. TasksOK'
    <2>1. restore' \in [Tasks -> BOOLEAN]
        BY DEF Start, DataOK, TasksOK
    <2> QED  BY <2>1 DEF Start, session, controller, DataOK, TasksOK
<1>2. MessagesOK'
    BY DEF Start, session, gateway, DataOK, MessagesOK
<1>3. HistoryOK'
    <2>1. disturbed' \in BOOLEAN
        BY DEF Start
    <2>2. calls < MaxCalls /\ calls' = calls + 1
        BY DEF Start, Starts
    <2>3. UNCHANGED <<faults, cancels>>
        BY DEF Start, Starts
    <2>4. stopped' \in BOOLEAN
        BY DEF Start
    <2>5. calls' \in 0 .. MaxCalls
        BY <2>2, BoundAssumption DEF DataOK, HistoryOK
    <2> QED  BY <2>1, <2>3, <2>4, <2>5 DEF DataOK, HistoryOK
<1> QED  BY <1>1, <1>2, <1>3 DEF DataOK

LEMMA RediscoverTypes ==
    ASSUME DataOK, NEW a \in Apps, NEW pause_reporting \in BOOLEAN,
           Rediscover(a, pause_reporting)
    PROVE  DataOK'
<1>1. TasksOK'
    <2>1. restore' \in [Tasks -> BOOLEAN]
        BY DEF Rediscover, DataOK, TasksOK
    <2> QED  BY <2>1 DEF Rediscover, session, controller, DataOK, TasksOK
<1>2. MessagesOK'
    BY DEF Rediscover, session, gateway, DataOK, MessagesOK
<1>3. HistoryOK'
    BY BoundAssumption DEF Rediscover, Starts, DataOK, HistoryOK
<1> QED  BY <1>1, <1>2, <1>3 DEF DataOK

\* What a cancelled loop leaves of its subscription.
LEMMA LoopCancelledOK ==
    ASSUME DataOK, NEW point, LoopCancelled(point)
    PROVE  /\ queue' \in Seq(Item) /\ subscribed' \in BOOLEAN
           /\ holder' \in Tasks \cup {Nobody}
<1>1. queue' = queue \/ queue' = <<>>
    BY DEF LoopCancelled, Unsubscribe
<1>2. queue \in Seq(Item) /\ <<>> \in Seq(Item)
    BY DEF DataOK, TasksOK
<1>3. subscribed' \in BOOLEAN
    BY DEF LoopCancelled, Unsubscribe, DataOK, TasksOK
<1>4. holder' \in Tasks \cup {Nobody}
    BY DEF LoopCancelled, Release, DataOK, MessagesOK
<1> QED  BY <1>1, <1>2, <1>3, <1>4

LEMMA StopTypes ==
    ASSUME DataOK, NEW a \in Apps, Stop(a)
    PROVE  DataOK'
<1>1. /\ queue' \in Seq(Item) /\ subscribed' \in BOOLEAN
      /\ holder' \in Tasks \cup {Nobody}
    <2>1. CASE UNCHANGED <<queue, subscribed, holder>>
        BY <2>1 DEF DataOK, TasksOK, MessagesOK
    <2>2. CASE \E point : LoopCancelled(point)
        BY <2>2, LoopCancelledOK
    <2> QED  BY <2>1, <2>2 DEF Stop
<1>2. link' \in {link, "closing"}
    BY DEF Stop, StopClient, BeginClose
<1>3. TasksOK'
    BY <1>1, <1>2 DEF Stop, DataOK, TasksOK
<1>4. MessagesOK'
    BY <1>1 DEF Stop, gateway, DataOK, MessagesOK
<1>5. HistoryOK'
    BY BoundAssumption DEF Stop, Starts, DataOK, HistoryOK
<1> QED  BY <1>3, <1>4, <1>5 DEF DataOK

LEMMA AwaitLoopTypes ==
    ASSUME DataOK, NEW a \in Apps, AwaitLoop(a)
    PROVE  DataOK'
<1>1. link' \in {link, "closing"}
    BY DEF AwaitLoop, StopClient, BeginClose
<1>2. TasksOK'
    BY <1>1 DEF AwaitLoop, controller, locals, DataOK, TasksOK
<1>3. MessagesOK' /\ HistoryOK'
    BY DEF AwaitLoop, gateway, history, DataOK, MessagesOK, HistoryOK
<1> QED  BY <1>2, <1>3 DEF DataOK

LEMMA CancelTypes ==
    ASSUME DataOK, NEW a \in Apps, Cancel(a)
    PROVE  DataOK'
<1>1. /\ queue' \in Seq(Item) /\ subscribed' \in BOOLEAN
      /\ holder' \in Tasks \cup {Nobody}
    <2>1. CASE UNCHANGED <<queue, subscribed>> /\ (Release(a) \/ holder' = holder)
        BY <2>1 DEF Release, DataOK, TasksOK, MessagesOK
    <2>2. CASE \E point : LoopCancelled(point)
        BY <2>2, LoopCancelledOK
    <2> QED  BY <2>1, <2>2 DEF Cancel
<1>2. link' \in {link, "closing"}
    BY DEF Cancel, Raised, BeginClose
<1>3. TasksOK'
    BY <1>1, <1>2 DEF Cancel, controller, locals, DataOK, TasksOK
<1>4. MessagesOK'
    BY <1>1 DEF Cancel, gateway, DataOK, MessagesOK
<1>5. HistoryOK'
    <2>1. disturbed' \in BOOLEAN
        BY DEF Cancel
    <2> QED  BY <2>1, BoundAssumption DEF Cancel, DataOK, HistoryOK
<1> QED  BY <1>3, <1>4, <1>5 DEF DataOK

LEMMA LoopTypes ==
    ASSUME DataOK, Turn \/ Handle
    PROVE  DataOK'
<1>1. queue' \in Seq(Item) /\ subscribed' \in BOOLEAN
    <2>1. queue \in Seq(Item) /\ subscribed \in BOOLEAN /\ <<>> \in Seq(Item)
        BY DEF DataOK, TasksOK
    <2>2. queue # <<>> => Tail(queue) \in Seq(Item)
        BY <2>1
    <2> QED  BY <2>1, <2>2, SubscribeOK DEF Turn, Handle, LoopTop, Unsubscribe
<1>2. data' = data \/ data' \in 1 .. MaxVersion
    <2>1. queue # <<>> => Head(queue) \in Item
        BY DEF DataOK, TasksOK
    <2> QED  BY <2>1 DEF Turn, Handle, Item, controller
<1>3. TasksOK'
    BY <1>1, <1>2 DEF Turn, Handle, DataOK, TasksOK, controller, locals, BeginClose, Goto
<1>4. MessagesOK' /\ HistoryOK'
    BY DEF Turn, Handle, DataOK, MessagesOK, HistoryOK, gateway, history
<1> QED  BY <1>3, <1>4 DEF DataOK

LEMMA GatewayTypes ==
    ASSUME DataOK, Change \/ Serve
    PROVE  DataOK'
<1>1. TasksOK' /\ HistoryOK'
    BY DEF Change, Serve, DataOK, TasksOK, HistoryOK, controller, locals, session, history
<1>2. version' \in 1 .. MaxVersion /\ version \in 0 .. MaxVersion
    BY BoundAssumption DEF Change, Serve, DataOK, MessagesOK
<1>3. wire \in Seq(Messages) /\ commands \in Seq(Commands)
    BY DEF DataOK, MessagesOK
<1>4. MessagesOK'
    <2>1. CASE Change
        <3>1. [kind |-> "report", version |-> version'] \in Messages
            BY <1>2 DEF Messages
        <3>2. Append(wire, [kind |-> "report", version |-> version']) \in Seq(Messages)
            BY <1>3, <3>1, AppendProperties
        <3> QED  BY <1>2, <1>3, <2>1, <3>2 DEF Change, DataOK, MessagesOK, session
    <2>2. CASE Serve
        <3>1. Head(commands) \in Commands /\ Tail(commands) \in Seq(Commands)
            BY <1>3, <2>2 DEF Serve
        <3> DEFINE message == [kind |-> Head(commands),
                               version |-> IF Head(commands) = "poll" THEN version ELSE NoValue]
        <3>2. message \in Messages
            BY <1>2, <3>1, BoundAssumption DEF Messages, NoValue
        <3>3. Append(wire, message) \in Seq(Messages)
            BY <1>3, <3>2, AppendProperties
        <3>4. wire' = Append(wire, message)
            BY <2>2 DEF Serve
        <3> QED  BY <1>2, <2>2, <3>1, <3>3, <3>4 DEF Serve, DataOK, MessagesOK, session
    <2> QED  BY <2>1, <2>2
<1> QED  BY <1>1, <1>4 DEF DataOK

LEMMA NextTypes ==
    ASSUME DataOK, [Next]_vars
    PROVE  DataOK'
<1>1. CASE UNCHANGED vars
    BY <1>1 DEF DataOK, TasksOK, MessagesOK, HistoryOK, vars, controller, locals, session,
        gateway, history
<1>2. ASSUME NEW a \in Apps, NEW pause_reporting \in BOOLEAN,
             \/ Start(a) \/ Stop(a) \/ AwaitLoop(a) \/ Cancel(a)
             \/ Rediscover(a, pause_reporting)
      PROVE  DataOK'
    BY <1>2, StartTypes, StopTypes, AwaitLoopTypes, CancelTypes, RediscoverTypes
<1>3. ASSUME NEW t \in Tasks, Step(t) \/ Command(t)
      PROVE  DataOK'
    BY <1>3, TaskStepTypes, TimedOutTypes, CloseEndsTypes DEF Step
<1> QED  BY <1>1, <1>2, <1>3, LoopTypes, DispatchTypes, GatewayTypes, LinkFailsTypes DEF Next

LEMMA InitTypes == Init => DataOK
<1> SUFFICES ASSUME Init PROVE DataOK
    OBVIOUS
<1>1. TasksOK
    <2>1. running \in BOOLEAN /\ report_task \in BOOLEAN /\ subscribed \in BOOLEAN
        BY DEF Init
    <2>2. /\ data \in 0 .. MaxVersion \cup {NoState} /\ queue \in Seq(Item)
          /\ link \in {"closed", "open", "lost", "broken", "closing"}
        BY DEF Init
    <2>3. restore \in [Tasks -> BOOLEAN]
        BY DEF Init
    <2>4. seed \in [Tasks -> 0 .. MaxVersion]
        BY BoundAssumption DEF Init, NoValue
    <2> QED  BY <2>1, <2>2, <2>3, <2>4 DEF TasksOK
<1>2. MessagesOK
    BY BoundAssumption DEF Init, MessagesOK
<1>3. HistoryOK
    <2>1. disturbed \in BOOLEAN /\ stopped \in BOOLEAN
        BY DEF Init
    <2>2. calls \in 0 .. MaxCalls /\ faults \in 0 .. MaxFaults /\ cancels \in 0 .. MaxCancels
        BY BoundAssumption DEF Init
    <2> QED  BY <2>1, <2>2 DEF HistoryOK
<1> QED  BY <1>1, <1>2, <1>3 DEF DataOK

Basis == ControlInv /\ HolderInv /\ DataOK

LEMMA BasisInvariant == Spec => []Basis
<1>1. Init => Basis
    <2>1. Init => HolderInv
        BY DEF Init, HolderInv
    <2> QED  BY <2>1, InitControl, InitTypes DEF Basis
<1>2. Basis /\ [Next]_vars => Basis'
    BY NextControl, NextHolder, NextTypes DEF Basis
<1> QED  BY <1>1, <1>2, PTL DEF Spec

\* Every variable of the controller keeps its type, and each task stays at the
\* points of its operation (controller.py:116-234).
THEOREM ControllerTypeCorrect == Spec => []TypeOK
<1>1. Basis => TypeOK
    BY TypeParts DEF Basis, ControlInv
<1> QED  BY <1>1, BasisInvariant, PTL

-----------------------------------------------------------------------------
(* What stop() leaves *)

\* Until the next start() nobody is in one, who could connect or make a loop.
StoppedInv ==
    stopped =>
        /\ ~running /\ ~Alive /\ link \notin {"open", "broken"}
        /\ \A a \in Apps : op[a] = "start" => pc[a] = "idle"

\* A step that begins nothing.
BeginsNothing ==
    /\ running' => running
    /\ Alive' => Alive
    /\ link' \in {"open", "broken"} => link \in {"open", "broken"}
    /\ \A a \in Apps : op'[a] = "start" /\ pc'[a] # "idle" => op[a] = "start" /\ pc[a] # "idle"

LEMMA BeginsNothingStopped ==
    ASSUME StoppedInv, BeginsNothing, stopped' => stopped
    PROVE  StoppedInv'
BY DEF StoppedInv, BeginsNothing

\* A task that moves on without a start() of its own.
LEMMA MoveBeginsNothing ==
    ASSUME Placed, NEW t \in Tasks, NEW point, Goto(t, point), pc[t] # "idle",
           op' = op, running' => running, t = Loop => Alive,
           link' \in {"open", "broken"} => link \in {"open", "broken"}
    PROVE  BeginsNothing
<1> USE TaskAssumption DEF Tasks
<1>1. \A b \in Tasks : pc'[b] = IF b = t THEN point ELSE pc[b]
    BY DEF Goto, Placed
<1>2. Alive' => Alive
    BY <1>1 DEF Alive
<1> QED  BY <1>1, <1>2 DEF BeginsNothing

LEMMA StayBeginsNothing ==
    ASSUME UNCHANGED <<pc, op, running>>,
           link' \in {"open", "broken"} => link \in {"open", "broken"}
    PROVE  BeginsNothing
BY DEF BeginsNothing, Alive

LEMMA ReturnedBeginsNothing ==
    ASSUME Basis, StoppedInv, stopped, NEW t \in Tasks, pc[t] \in Commands,
           NEW v, Returned(t, v), op' = op
    PROVE  BeginsNothing
<1> USE TaskAssumption DEF Tasks
<1>1. Placed /\ (op[t] = "loop" <=> t = Loop)
    BY DEF Basis, ControlInv, Placed, Operations
<1>2. pc[t] # "idle" /\ op[t] # "start"
    BY <1>1 DEF StoppedInv, Commands
<1>3. t = Loop => Alive
    BY DEF Commands, Alive
<1>4. /\ running' = running /\ link' \in {link, "closing"}
      /\ \E point : Goto(t, point)
    BY <1>1, <1>2 DEF Returned, Subscribe, BeginClose, controller
<1> QED  BY <1>1, <1>2, <1>3, <1>4, MoveBeginsNothing

LEMMA StoppedStep ==
    ASSUME Basis, StoppedInv, stopped, [Next]_vars, stopped'
    PROVE  BeginsNothing
<1> USE TaskAssumption DEF Tasks
<1>1. Placed /\ ~Alive /\ ~running /\ ~report_task
    BY DEF Basis, ControlInv, Exclusive, RunningInv, StoppedInv
<1>2. pc[Loop] \in {"done", "crashed"}
    BY <1>1 DEF Alive
<1>3. ASSUME NEW a \in Apps, Start(a)
      PROVE  FALSE
    BY <1>3 DEF Start
<1>4. ASSUME NEW a \in Apps, NEW pause_reporting, Rediscover(a, pause_reporting)
      PROVE  BeginsNothing
    <2>1. PICK point : Goto(a, point)
        BY <1>4 DEF Rediscover
    <2>2. /\ \A b \in Tasks : pc'[b] = IF b = a THEN point ELSE pc[b]
          /\ \A b \in Tasks : op'[b] = IF b = a THEN "rediscover" ELSE op[b]
        BY <1>1, <1>4, <2>1 DEF Rediscover, Starts, Goto, Placed
    <2>3. running' = running /\ link' = link /\ Alive' = Alive
        BY <1>4, <2>2 DEF Rediscover, controller, session, Alive
    <2> QED  BY <2>2, <2>3 DEF BeginsNothing
<1>5. ASSUME NEW a \in Apps, Stop(a)
      PROVE  BeginsNothing
    <2>1. StopClient(a) /\ running' = FALSE
        BY <1>1, <1>5 DEF Stop
    <2>2. PICK point : Goto(a, point) /\ link' \in {link, "closing"}
        BY <2>1 DEF StopClient, BeginClose
    <2>3. /\ \A b \in Tasks : pc'[b] = IF b = a THEN point ELSE pc[b]
          /\ \A b \in Tasks : op'[b] = IF b = a THEN "stop" ELSE op[b]
        BY <1>1, <1>5, <2>2 DEF Stop, Starts, Goto, Placed
    <2>4. Alive' = Alive
        BY <2>3 DEF Alive
    <2> QED  BY <2>1, <2>2, <2>3, <2>4 DEF BeginsNothing
<1>6. ASSUME NEW a \in Apps, AwaitLoop(a)
      PROVE  BeginsNothing
    <2>1. /\ pc[a] # "idle" /\ op' = op /\ running' = running
          /\ link' \in {link, "closing"} /\ \E point : Goto(a, point)
        BY <1>6 DEF AwaitLoop, StopClient, BeginClose, controller, locals
    <2> QED  BY <1>1, <2>1, MoveBeginsNothing
<1>7. ASSUME NEW a \in Apps, Cancel(a)
      PROVE  BeginsNothing
    <2>1. /\ pc[a] # "idle" /\ op' = op /\ running' = running
          /\ link' \in {link, "closing"}
        BY <1>7 DEF Cancel, Raised, BeginClose, controller, locals
    <2>2. CASE \E point : Goto(a, point)
        BY <1>1, <2>1, <2>2, MoveBeginsNothing
    <2>3. CASE \E point : LoopCancelled(point) /\ Goto(Loop, point)
        <3>1. pc' = pc
            BY <1>1, <1>2, <2>3 DEF LoopCancelled, Goto, Placed
        <3> QED  BY <2>1, <3>1, StayBeginsNothing
    <2> QED  BY <1>7, <2>2, <2>3, RaisedGoes DEF Cancel
<1>8. ASSUME NEW t \in Tasks, OpenOk(t) \/ OpenFails(t)
      PROVE  FALSE
    <2>1. pc[t] = "open" /\ t # Loop
        BY <1>2, <1>8 DEF OpenOk, OpenFails
    <2>2. op[t] \in Operations /\ pc[t] \in Points[op[t]]
        BY <1>1, <2>1 DEF Placed
    <2>3. op[t] = "start"
        BY <2>1, <2>2 DEF Points, Operations, Commands
    <2> QED  BY <2>1, <2>3 DEF StoppedInv
<1>9. ASSUME NEW t \in Tasks, CommandRaises(t)
      PROVE  BeginsNothing
    <2>1. /\ pc[t] # "idle" /\ t # Loop /\ op' = op /\ running' = running
          /\ link' \in {link, "closing"} /\ \E point : Goto(t, point)
        BY <1>2, <1>9, RaisedGoes
            DEF CommandRaises, Raised, BeginClose, controller, locals, Commands
    <2> QED  BY <1>1, <2>1, MoveBeginsNothing
<1>10. ASSUME NEW t \in Tasks, TimedOut(t)
       PROVE  BeginsNothing
    <2>1. pc[t] \in Commands /\ op' = op /\ Returned(t, NoValue)
        BY <1>10 DEF TimedOut, Basis, HolderInv
    <2> QED  BY <2>1, ReturnedBeginsNothing
<1>11. ASSUME NEW t \in Tasks, CloseEnds(t)
       PROVE  BeginsNothing
    <2>1. /\ pc[t] # "idle" /\ t # Loop /\ op' = op /\ running' = running
          /\ link' = "closed" /\ \E point : Goto(t, point)
        BY <1>2, <1>11 DEF CloseEnds, controller, locals
    <2> QED  BY <1>1, <2>1, MoveBeginsNothing
<1>12. CASE Dispatch
    <2>1. PICK t, v : t = holder /\ v = Head(wire).version
        OBVIOUS
    <2>2. CASE holder # Nobody /\ Returned(t, v)
        <3>1. pc[t] \in Commands /\ t \in Tasks /\ op' = op
            BY <1>12, <2>1, <2>2 DEF Dispatch, Basis, HolderInv, DataOK, MessagesOK
        <3> QED  BY <2>2, <3>1, ReturnedBeginsNothing
    <2>3. CASE UNCHANGED <<controller, pc, link>>
        BY <1>12, <2>3, StayBeginsNothing DEF Dispatch, controller
    <2> QED  BY <1>12, <2>1, <2>2, <2>3 DEF Dispatch
<1>13. CASE Turn \/ Handle
    BY <1>2, <1>13 DEF Turn, Handle
<1>14. CASE (\E t \in Tasks : Command(t)) \/ Change \/ Serve \/ LinkFails \/ UNCHANGED vars
    <2>1. /\ UNCHANGED <<pc, op, running>>
          /\ link' \in {"open", "broken"} => link \in {"open", "broken"}
        BY <1>14 DEF Command, Change, Serve, LinkFails, controller, locals, session, vars
    <2> QED  BY <2>1, StayBeginsNothing
<1> QED  BY <1>3, <1>4, <1>5, <1>6, <1>7, <1>8, <1>9, <1>10, <1>11, <1>12, <1>13, <1>14
        DEF Next, Step

\* stop() returns when nobody else is in a start() or a stop(), and its loop has ended.
LEMMA StopReturns ==
    ASSUME Basis, NEW t \in Tasks, CloseEnds(t), op[t] = "stop"
    PROVE  StoppedInv'
<1> USE TaskAssumption DEF Tasks
<1>1. t \in Apps /\ pc[t] = "closing" /\ Active(t)
    BY DEF CloseEnds, Active, Basis, ControlInv, Placed
<1>2. ~Alive /\ ~running
    BY <1>1, LoopIsDown DEF Basis, ControlInv, RunningInv
<1>3. \A b \in Apps : op[b] = "start" => pc[b] = "idle"
    BY <1>1 DEF Basis, ControlInv, Exclusive, Active
<1>4. /\ pc' = [pc EXCEPT ![t] = "idle"] /\ op' = op /\ running' = running
      /\ link' = "closed"
    BY <1>1 DEF CloseEnds, Goto, AfterClose, controller, locals
<1>5. \A b \in Tasks : pc'[b] = IF b = t THEN "idle" ELSE pc[b]
    BY <1>4 DEF Basis, ControlInv, Placed
<1>6. ~Alive'
    BY <1>1, <1>2, <1>5 DEF Alive
<1> QED  BY <1>2, <1>3, <1>4, <1>5, <1>6 DEF StoppedInv

LEMMA StoppedNext ==
    ASSUME Basis, StoppedInv, [Next]_vars
    PROVE  StoppedInv'
<1>1. CASE stopped
    <2>1. CASE stopped'
        BY <1>1, <2>1, StoppedStep, BeginsNothingStopped
    <2> QED  BY <2>1 DEF StoppedInv
<1>2. CASE ~stopped
    <2>1. stopped' => \E t \in Tasks : CloseEnds(t) /\ op[t] = "stop"
        <3> SUFFICES ASSUME stopped', ~\E t \in Tasks : CloseEnds(t)
                     PROVE  FALSE
            BY <1>2 DEF CloseEnds
        <3>1. stopped' = FALSE \/ stopped' = stopped
            BY DEF Next, Step, Start, Stop, AwaitLoop, Cancel, Rediscover, OpenOk, OpenFails,
                CommandRaises, TimedOut, Command, Turn, Handle, Dispatch, Change, Serve,
                LinkFails, history, vars
        <3> QED  BY <1>2, <3>1
    <2> QED  BY <2>1, StopReturns DEF StoppedInv
<1> QED  BY <1>1, <1>2

\* When stop() has returned, the report loop has ended and nothing brings the
\* connection back until the next start() (controller.py:152-165, 218-234).
THEOREM StopEndsReporting == Spec => []StopIsFinal
<1>1. Init => StoppedInv
    BY DEF Init, StoppedInv
<1>2. Basis /\ StoppedInv /\ [Next]_vars => StoppedInv'
    BY StoppedNext
<1>3. StoppedInv => StopIsFinal
    BY DEF StoppedInv, StopIsFinal
<1> QED  BY <1>1, <1>2, <1>3, BasisInvariant, PTL DEF Spec

-----------------------------------------------------------------------------
(* What the loop waits on *)

\* The connection has not been closed: it is up, or has failed.
Connected == link \in {"open", "lost", "broken"}

\* Something in the loop's queue ends its iteration.
Ended == \E i \in DOMAIN queue : queue[i] \in {EndOfReports, ErrorItem}

\* start() at a command other than the one its failure sends.
StartCommands == Commands \ {"restore"}

\* Only the loop itself, or start() and stop() when there is no loop, close the
\* connection; so a loop that iterates has one that is up, or has failed and
\* then said so (controller.py:218-234; session.py:399-417, 574-583).
StreamInv ==
    /\ \A a \in Apps : op[a] = "start" /\ pc[a] \in StartCommands => Connected
    /\ pc[Loop] \in {"top", "enable", "iterating"} => Connected
    /\ pc[Loop] = "sleep" => link = "closed"
    /\ pc[Loop] = "iterating" => (subscribed /\ link = "open") \/ Ended

LEMMA EndedAppend ==
    ASSUME DataOK, NEW item \in Item, queue' = Append(queue, item),
           Ended \/ item \in {EndOfReports, ErrorItem}
    PROVE  Ended'
<1>1. queue \in Seq(Item)
    BY DEF DataOK, TasksOK
<1>2. /\ DOMAIN queue = 1 .. Len(queue) /\ Len(queue) \in Nat
      /\ DOMAIN queue' = 1 .. (Len(queue) + 1)
      /\ \A i \in 1 .. Len(queue) : queue'[i] = queue[i]
      /\ queue'[Len(queue) + 1] = item
    BY <1>1, AppendProperties, LenProperties
<1>3. CASE Ended
    BY <1>2, <1>3 DEF Ended
<1>4. CASE item \in {EndOfReports, ErrorItem}
    BY <1>2, <1>4 DEF Ended
<1> QED  BY <1>3, <1>4

LEMMA EndedTail ==
    ASSUME DataOK, queue # <<>>, queue' = Tail(queue), Ended,
           Head(queue) \notin {EndOfReports, ErrorItem}
    PROVE  Ended'
<1>1. queue \in Seq(Item)
    BY DEF DataOK, TasksOK
<1>2. PICK i \in 1 .. Len(queue) : queue[i] \in {EndOfReports, ErrorItem}
    BY <1>1 DEF Ended
<1>3. i # 1
    BY <1>1, <1>2
<1>4. i - 1 \in DOMAIN queue' /\ queue'[i - 1] = queue[i]
    BY <1>1, <1>2, <1>3
<1> QED  BY <1>2, <1>4 DEF Ended

\* A step of a task that is alone.
LEMMA AloneStream ==
    ASSUME ControlInv, NEW a \in Apps, Active(a), pc[a] # "await_loop",
           NEW point, Goto(a, point), op' = op,
           op[a] = "start" /\ point \in StartCommands => Connected'
    PROVE  StreamInv'
<1> USE TaskAssumption DEF Tasks
<1>1. \A b \in Tasks : pc'[b] = IF b = a THEN point ELSE pc[b]
    BY DEF Goto, ControlInv, Placed
<1>2. pc'[Loop] \in {"done", "crashed"}
    BY <1>1, LoopIsDown DEF Alive
<1>3. \A b \in Apps : Active(b) => b = a
    BY DEF ControlInv, Exclusive
<1>4. ASSUME NEW b \in Apps, op'[b] = "start", pc'[b] \in StartCommands
      PROVE  Connected'
    <2>1. b = a
        BY <1>1, <1>3, <1>4 DEF Active, StartCommands, Commands
    <2> QED  BY <1>1, <1>4, <2>1
<1> QED  BY <1>2, <1>4 DEF StreamInv

\* A step of the loop.
LEMMA LoopStream ==
    ASSUME ControlInv, Alive, NEW point, Goto(Loop, point), op' = op,
           point \in {"top", "enable", "iterating"} => Connected',
           point = "sleep" => link' = "closed",
           point = "iterating" => (subscribed' /\ link' = "open") \/ Ended'
    PROVE  StreamInv'
<1> USE TaskAssumption DEF Tasks
<1>1. \A b \in Tasks : pc'[b] = IF b = Loop THEN point ELSE pc[b]
    BY DEF Goto, ControlInv, Placed
<1>2. \A b \in Apps : ~(op'[b] = "start" /\ pc'[b] \in StartCommands)
    BY <1>1, LoopIsDown DEF Active, StartCommands, Commands
<1> QED  BY <1>1, <1>2 DEF StreamInv

\* A step that is about neither the loop nor a start().
LEMMA SameStream ==
    ASSUME StreamInv, pc'[Loop] = pc[Loop], UNCHANGED <<link, queue, subscribed>>,
           \A b \in Apps : op'[b] = "start" /\ pc'[b] \in StartCommands
                            => op[b] = "start" /\ pc[b] \in StartCommands
    PROVE  StreamInv'
BY DEF StreamInv, Connected, Ended

LEMMA UntouchedStream ==
    ASSUME StreamInv, UNCHANGED <<pc, op, link, queue, subscribed>>
    PROVE  StreamInv'
BY SameStream

\* A step of a rediscover().
LEMMA RediscoverStream ==
    ASSUME StreamInv, Placed, NEW a \in Apps, NEW point, Goto(a, point),
           op[a] = "rediscover", UNCHANGED <<op, link, queue, subscribed>>
    PROVE  StreamInv'
<1> USE TaskAssumption DEF Tasks
<1>1. \A b \in Tasks : pc'[b] = IF b = a THEN point ELSE pc[b]
    BY DEF Goto, Placed
<1> QED  BY <1>1, SameStream

LEMMA SubscribeStream ==
    ASSUME ControlInv, Alive, Connected, Subscribe, UNCHANGED <<op, link>>
    PROVE  StreamInv'
<1>1. (subscribed' /\ link' = "open") \/ Ended'
    <2>1. CASE link \in {"broken", "lost"}
        <3>1. queue' = <<ErrorItem>>
            BY <2>1 DEF Subscribe
        <3>2. 1 \in DOMAIN queue' /\ queue'[1] = ErrorItem
            BY <3>1
        <3> QED  BY <3>2 DEF Ended
    <2>2. CASE link = "open"
        BY <2>2 DEF Subscribe
    <2> QED  BY <2>1, <2>2 DEF Connected
<1>2. Goto(Loop, "iterating") /\ Connected'
    BY DEF Subscribe, Connected
<1> QED  BY <1>1, <1>2, LoopStream

LEMMA LoopTopStream ==
    ASSUME ControlInv, Alive, Connected \/ link = "closed", LoopTop, UNCHANGED <<op, link>>
    PROVE  StreamInv'
<1>1. CASE Goto(Loop, "done") \/ Goto(Loop, "open")
    BY <1>1, LoopStream
<1>2. CASE IsOpen /\ Subscribe
    BY <1>2, SubscribeStream DEF IsOpen, Connected
<1> QED  BY <1>1, <1>2 DEF LoopTop

LEMMA ReturnedStream ==
    ASSUME Basis, StreamInv, NEW t \in Tasks, pc[t] \in Commands, NEW v,
           Returned(t, v), op' = op
    PROVE  StreamInv'
<1> USE TaskAssumption DEF Tasks
<1>1. Placed /\ ControlInv /\ (op[t] = "loop" <=> t = Loop)
    BY DEF Basis, ControlInv, Placed, Operations
<1>2. CASE t = Loop
    <2>1. pc[Loop] = "enable" /\ Alive
        BY <1>1, <1>2 DEF Placed, LoopPoints, Commands, Alive
    <2>2. Subscribe /\ link' = link
        BY <1>1, <1>2, <2>1 DEF Returned
    <2> QED  BY <1>1, <2>1, <2>2, SubscribeStream DEF StreamInv
<1>3. CASE t # Loop
    <2>1. op[t] \in Operations /\ pc[t] \in Points[op[t]] /\ t \in Apps
        BY <1>1, <1>3 DEF Placed
    <2>2. CASE op[t] = "none"
        BY <2>1, <2>2 DEF Points, Commands
    <2>3. CASE op[t] = "rediscover"
        <3>1. UNCHANGED <<link, queue, subscribed>> /\ \E point : Goto(t, point)
            BY <2>3 DEF Returned
        <3> QED  BY <1>1, <2>1, <2>3, <3>1, RediscoverStream
    <2>4. CASE op[t] = "stop"
        <3>1. pc[t] = "disable"
            BY <2>1, <2>4 DEF Points, Commands
        <3>2. Goto(t, "closing") /\ Active(t)
            BY <2>4, <3>1 DEF Returned, BeginClose, Active
        <3> QED  BY <1>1, <2>1, <2>4, <3>1, <3>2, AloneStream
    <2>5. CASE op[t] = "start"
        <3>1. Active(t) /\ pc[t] # "await_loop"
            BY <2>5 DEF Active, Commands
        <3>2. CASE Goto(t, "closing")
            BY <1>1, <2>1, <3>1, <3>2, AloneStream DEF StartCommands, Commands
        <3>3. CASE pc[t] # "restore" /\ link' = link /\ \E point : Goto(t, point)
            <4>1. Connected'
                BY <2>1, <2>5, <3>3 DEF StreamInv, StartCommands, Connected
            <4> QED  BY <1>1, <2>1, <3>1, <3>3, <4>1, AloneStream
        <3>4. CASE /\ pc[t] = "enable" /\ link' = link
                   /\ pc' = [pc EXCEPT ![t] = "idle", ![Loop] = "top"]
            <4>1. Connected'
                BY <2>1, <2>5, <3>4 DEF StreamInv, StartCommands, Connected, Commands
            <4>2. \A b \in Tasks : pc'[b] = IF b = t THEN "idle" ELSE IF b = Loop THEN "top"
                                             ELSE pc[b]
                BY <1>1, <3>4 DEF Placed
            <4> QED  BY <1>1, <4>1, <4>2 DEF StreamInv
        <3> QED  BY <2>5, <3>2, <3>3, <3>4 DEF Returned, Started, BeginClose
    <2> QED  BY <2>1, <2>2, <2>3, <2>4, <2>5 DEF Operations
<1> QED  BY <1>2, <1>3

LEMMA RaisedStream ==
    ASSUME Basis, StreamInv, NEW t \in Tasks, pc[t] \in Commands, Raised(t),
           UNCHANGED <<op, queue, subscribed>>
    PROVE  StreamInv'
<1> USE TaskAssumption DEF Tasks
<1>1. Placed /\ ControlInv /\ (op[t] = "loop" <=> t = Loop)
    BY DEF Basis, ControlInv, Placed, Operations
<1>2. CASE t = Loop
    <2>1. Goto(Loop, "closing") /\ Alive
        BY <1>1, <1>2 DEF Raised, Restores, BeginClose, Alive, Commands
    <2> QED  BY <1>1, <2>1, LoopStream
<1>3. CASE t \in Apps /\ op[t] = "rediscover"
    <2>1. link' = link /\ \E point : Goto(t, point)
        BY <1>3 DEF Raised
    <2> QED  BY <1>1, <1>3, <2>1, RediscoverStream
<1>4. CASE t \in Apps /\ op[t] # "rediscover"
    <2>1. PICK point \in {"restore", "closing"} : Goto(t, point)
        BY <1>1, <1>4 DEF Raised, BeginClose
    <2>2. op[t] \in Operations /\ pc[t] \in Points[op[t]]
        BY <1>1, <1>4 DEF Placed
    <2>3. Active(t) /\ pc[t] # "await_loop"
        BY <1>4, <2>2 DEF Active, Operations, Points, Commands
    <2> QED  BY <1>1, <1>4, <2>1, <2>3, AloneStream DEF StartCommands, Commands
<1> QED  BY <1>2, <1>3, <1>4

LEMMA StopStream ==
    ASSUME Basis, StreamInv, NEW a \in Apps, Stop(a)
    PROVE  StreamInv'
<1> USE TaskAssumption DEF Tasks
<1>1. Placed /\ ControlInv /\ \A b \in Apps : ~Active(b)
    BY DEF Basis, ControlInv, Stop, Starts, InProgress, Active
<1>2. \A b \in Tasks : op'[b] = IF b = a THEN "stop" ELSE op[b]
    BY <1>1 DEF Stop, Starts, Placed
<1>3. ASSUME pc'[Loop] \in {"done", "crashed", "closing"},
             \A b \in Apps : b # a => pc'[b] = pc[b]
      PROVE  StreamInv'
    <2>1. \A b \in Apps : ~(op'[b] = "start" /\ pc'[b] \in StartCommands)
        BY <1>1, <1>2, <1>3 DEF Active, StartCommands, Commands
    <2> QED  BY <1>3, <2>1 DEF StreamInv
<1>4. CASE \E point, end : /\ end \in {"done", "crashed", "closing"}
                           /\ pc' = [pc EXCEPT ![Loop] = end, ![a] = point]
    <2>1. PICK point, end : /\ end \in {"done", "crashed", "closing"}
                            /\ pc' = [pc EXCEPT ![Loop] = end, ![a] = point]
        BY <1>4
    <2>2. pc'[Loop] = end /\ \A b \in Apps : b # a => pc'[b] = pc[b]
        BY <1>1, <2>1 DEF Placed
    <2> QED  BY <1>3, <2>1, <2>2
<1>5. CASE ~report_task /\ StopClient(a)
    <2>1. ~Alive
        <3>1. \A b \in Apps : pc[b] # "await_loop"
            <4> SUFFICES ASSUME NEW b \in Apps, pc[b] = "await_loop" PROVE FALSE
                OBVIOUS
            <4>1. op[b] = "stop"
                BY <1>1 DEF Placed, Points, Operations, Commands
            <4> QED  BY <1>1, <4>1 DEF Active
        <3> QED  BY <1>1, <1>5, <3>1 DEF ControlInv, Exclusive
    <2>2. \E point : pc' = [pc EXCEPT ![a] = point]
        BY <1>5 DEF StopClient, BeginClose, Goto
    <2>3. pc'[Loop] = pc[Loop] /\ \A b \in Apps : b # a => pc'[b] = pc[b]
        BY <1>1, <2>2 DEF Placed
    <2> QED  BY <1>3, <2>1, <2>3 DEF Alive
<1> QED  BY <1>4, <1>5 DEF Stop

LEMMA ApplicationStream ==
    ASSUME Basis, StreamInv, NEW a \in Apps, NEW pause_reporting,
           \/ Start(a) \/ AwaitLoop(a) \/ Cancel(a)
           \/ Rediscover(a, pause_reporting)
    PROVE  StreamInv'
<1> USE TaskAssumption DEF Tasks
<1>1. Placed /\ ControlInv
    BY DEF Basis, ControlInv
<1>2. CASE Start(a) \/ Rediscover(a, pause_reporting)
    <2>1. UNCHANGED <<link, queue, subscribed>>
        BY <1>2 DEF Start, Rediscover, session
    <2>2. PICK point, operation :
            /\ Goto(a, point) /\ op' = [op EXCEPT ![a] = operation]
            /\ operation # "start" \/ point \in {"idle", "open"}
        BY <1>2 DEF Start, Rediscover, Starts
    <2>3. \A b \in Tasks : pc'[b] = IF b = a THEN point ELSE pc[b]
        BY <1>1, <2>2 DEF Goto, Placed
    <2>4. \A b \in Tasks : op'[b] = IF b = a THEN operation ELSE op[b]
        BY <1>1, <2>2 DEF Placed
    <2> QED  BY <2>1, <2>2, <2>3, <2>4, SameStream DEF StartCommands, Commands
<1>3. CASE AwaitLoop(a)
    <2>1. PICK point : Goto(a, point) /\ op' = op
        BY <1>3 DEF AwaitLoop, StopClient, BeginClose, locals
    <2>2. \A b \in Tasks : pc'[b] = IF b = a THEN point ELSE pc[b]
        BY <1>1, <2>1 DEF Goto, Placed
    <2>3. op[a] = "stop" /\ Active(a)
        BY <1>1, <1>3 DEF AwaitLoop, Placed, Points, Operations, Commands, Active
    <2>4. \A b \in Apps : ~(op'[b] = "start" /\ pc'[b] \in StartCommands)
        BY <1>1, <2>1, <2>2, <2>3 DEF ControlInv, Exclusive, Active, StartCommands, Commands
    <2>5. pc'[Loop] \in {"done", "crashed"}
        BY <1>3, <2>2 DEF AwaitLoop
    <2> QED  BY <2>4, <2>5 DEF StreamInv
<1>4. CASE Cancel(a) /\ pc[a] \in Commands /\ Raised(a) /\ UNCHANGED <<queue, subscribed>>
    BY <1>4, RaisedStream DEF Cancel, locals
<1>5. CASE Cancel(a) /\ Goto(a, "idle") /\ UNCHANGED <<link, queue, subscribed>>
    <2>1. \A b \in Tasks : pc'[b] = IF b = a THEN "idle" ELSE pc[b]
        BY <1>1, <1>5 DEF Goto, Placed
    <2>2. op' = op
        BY <1>5 DEF Cancel, locals
    <2> QED  BY <1>5, <2>1, <2>2, SameStream DEF StartCommands, Commands
<1>6. CASE /\ Cancel(a) /\ link' = link
           /\ \E point \in {"done", "crashed", "closing"} : Goto(Loop, point)
    <2>1. PICK point \in {"done", "crashed", "closing"} : Goto(Loop, point)
        BY <1>6
    <2>2. \A b \in Tasks : pc'[b] = IF b = Loop THEN point ELSE pc[b]
        BY <1>1, <2>1 DEF Goto, Placed
    <2>3. op' = op
        BY <1>6 DEF Cancel, locals
    <2> QED  BY <1>6, <2>2, <2>3 DEF StreamInv, Connected
<1> QED  BY <1>2, <1>3, <1>4, <1>5, <1>6 DEF Cancel

LEMMA TaskStream ==
    ASSUME Basis, StreamInv, NEW t \in Tasks, Step(t)
    PROVE  StreamInv'
<1> USE TaskAssumption DEF Tasks
<1>1. Placed /\ ControlInv
    BY DEF Basis, ControlInv
<1>2. CASE OpenOk(t) \/ OpenFails(t)
    <2>1. pc[t] = "open" /\ op' = op
        BY <1>2 DEF OpenOk, OpenFails, locals
    <2>2. CASE t = Loop
        <3>1. Alive
            BY <2>1, <2>2 DEF Alive
        <3>2. \/ Goto(Loop, "enable") /\ link' = "open"
              \/ Goto(Loop, "closing")
            BY <1>2, <2>2 DEF OpenOk, OpenFails
        <3> QED  BY <1>1, <2>1, <3>1, <3>2, LoopStream DEF Connected
    <2>3. CASE t # Loop
        <3>1. op[t] \in Operations /\ pc[t] \in Points[op[t]] /\ t \in Apps
            BY <1>1, <2>3 DEF Placed
        <3>2. Active(t) /\ pc[t] # "await_loop"
            BY <2>1, <3>1 DEF Active, Operations, Points, Commands
        <3>3. \/ Goto(t, "disable") /\ link' = "open"
              \/ Goto(t, "idle")
            BY <1>2, <2>3 DEF OpenOk, OpenFails
        <3> QED  BY <1>1, <2>1, <3>1, <3>2, <3>3, AloneStream
                 DEF Connected, StartCommands, Commands
    <2> QED  BY <2>2, <2>3
<1>3. CASE CommandRaises(t)
    BY <1>3, RaisedStream DEF CommandRaises, locals
<1>4. CASE TimedOut(t)
    <2>1. pc[t] \in Commands /\ op' = op /\ Returned(t, NoValue)
        BY <1>4 DEF TimedOut, Basis, HolderInv
    <2> QED  BY <2>1, ReturnedStream
<1>5. CASE CloseEnds(t)
    <2>1. pc[t] = "closing" /\ op' = op /\ link' = "closed"
        BY <1>5 DEF CloseEnds, locals
    <2>2. CASE t = Loop
        <3>1. Alive /\ Goto(Loop, "sleep")
            BY <1>5, <2>1, <2>2 DEF Alive, CloseEnds, AfterClose
        <3> QED  BY <1>1, <2>1, <3>1, LoopStream
    <2>3. CASE t # Loop
        <3>1. op[t] \in Operations /\ pc[t] \in Points[op[t]] /\ t \in Apps
            BY <1>1, <2>3 DEF Placed
        <3>2. Active(t) /\ pc[t] # "await_loop"
            BY <2>1, <3>1 DEF Active, Operations, Points, Commands
        <3>3. Goto(t, "idle")
            BY <1>5, <2>3 DEF CloseEnds, AfterClose
        <3> QED  BY <1>1, <2>1, <3>1, <3>2, <3>3, AloneStream DEF StartCommands, Commands
    <2> QED  BY <2>2, <2>3
<1> QED  BY <1>2, <1>3, <1>4, <1>5 DEF Step

LEMMA HandleStream ==
    ASSUME Basis, StreamInv, Turn \/ Handle
    PROVE  StreamInv'
<1>1. ControlInv /\ DataOK
    BY DEF Basis
<1>2. Alive /\ op' = op
    BY DEF Turn, Handle, Alive, locals
<1>3. CASE LoopTop /\ link' = link
    <2>1. Connected \/ link = "closed"
        BY DEF Turn, Handle, StreamInv
    <2> QED  BY <1>1, <1>2, <1>3, <2>1, LoopTopStream
<1>4. CASE Goto(Loop, "crashed") \/ Goto(Loop, "closing")
    BY <1>1, <1>2, <1>4, LoopStream
<1>5. CASE /\ UNCHANGED <<pc, op, link, subscribed>>
           /\ queue # <<>> /\ queue' = Tail(queue)
           /\ Head(queue) \notin {EndOfReports, ErrorItem}
    <2>1. Ended => Ended'
        BY <1>1, <1>5, EndedTail
    <2> QED  BY <1>5, <2>1 DEF StreamInv, Connected
<1> QED  BY <1>2, <1>3, <1>4, <1>5 DEF Turn, Handle, BeginClose

LEMMA EnvironmentStream ==
    ASSUME Basis, StreamInv,
           Dispatch \/ LinkFails \/ Change \/ Serve \/ \E t \in Tasks : Command(t)
    PROVE  StreamInv'
<1>1. ControlInv /\ DataOK
    BY DEF Basis
<1>2. CASE Change \/ Serve \/ \E t \in Tasks : Command(t)
    BY <1>2, UntouchedStream DEF Change, Serve, Command, session, locals
<1>3. CASE Dispatch
    <2>1. PICK t, v : t = holder /\ v = Head(wire).version
        OBVIOUS
    <2>2. CASE holder # Nobody /\ Returned(t, v)
        <3>1. pc[t] \in Commands /\ t \in Tasks /\ op' = op
            BY <1>3, <2>1, <2>2 DEF Dispatch, Basis, HolderInv, DataOK, MessagesOK
        <3> QED  BY <2>2, <3>1, ReturnedStream
    <2>3. CASE UNCHANGED <<pc, link, subscribed, queue>>
        BY <1>3, <2>3, UntouchedStream DEF Dispatch
    <2>4. CASE UNCHANGED <<pc, link, subscribed>> /\ v # NoValue /\ queue' = Append(queue, v)
        <3>1. v \in Item
            BY <1>1, <1>3, <2>1, <2>4, MessageOK DEF Dispatch, Item, NoValue
        <3>2. Ended => Ended'
            BY <1>1, <2>4, <3>1, EndedAppend
        <3> QED  BY <1>3, <2>4, <3>2 DEF Dispatch, StreamInv, Connected
    <2> QED  BY <1>3, <2>1, <2>2, <2>3, <2>4 DEF Dispatch
<1>4. CASE LinkFails
    <2>1. /\ link = "open" /\ Connected' /\ UNCHANGED <<pc, op>>
          /\ queue' = IF subscribed THEN Append(queue, ErrorItem) ELSE queue
        BY <1>4 DEF LinkFails, locals, Connected
    <2>2. subscribed => Ended'
        BY <1>1, <2>1, EndedAppend DEF Item
    <2>3. ~subscribed /\ Ended => Ended'
        BY <2>1 DEF Ended
    <2> QED  BY <2>1, <2>2, <2>3 DEF StreamInv
<1> QED  BY <1>2, <1>3, <1>4

LEMMA StreamInvariant == Spec => []StreamInv
<1>1. Init => StreamInv
    <2> SUFFICES ASSUME Init PROVE StreamInv
        OBVIOUS
    <2>1. \A t \in Tasks : pc[t] = IF t = Loop THEN "done" ELSE "idle"
        BY DEF Init
    <2> QED  BY <2>1, TaskAssumption DEF StreamInv, StartCommands, Commands, Tasks
<1>2. Basis /\ StreamInv /\ [Next]_vars => StreamInv'
    <2> SUFFICES ASSUME Basis, StreamInv, [Next]_vars PROVE StreamInv'
        OBVIOUS
    <2>1. CASE UNCHANGED vars
        BY <2>1, UntouchedStream DEF vars, locals, session
    <2> QED  BY <2>1, StopStream, ApplicationStream, TaskStream, HandleStream, EnvironmentStream
             DEF Next
<1> QED  BY <1>1, <1>2, BasisInvariant, PTL DEF Spec

\* The report loop never waits on a stream that nobody will end: it is subscribed
\* to a session that is up, or the end is in its queue (controller.py:218-234).
THEOREM LoopHears == Spec => []LoopIsNotDeaf
<1>1. StreamInv => LoopIsNotDeaf
    BY DEF StreamInv, LoopIsNotDeaf, Ended
<1> QED  BY <1>1, StreamInvariant, PTL

-----------------------------------------------------------------------------
(* Whether the gateway will report *)

\* When the gateway has executed what is on the way to it, it reports.
Enabled ==
    \/ \E i \in DOMAIN commands :
        /\ commands[i] = "enable"
        /\ \A j \in DOMAIN commands : j > i => commands[j] # "disable"
    \/ /\ reporting
       /\ \A j \in DOMAIN commands : commands[j] # "disable"

\* A rediscover() that has paused reporting, or is about to, and not restored it.
Pauses(a) == op[a] = "rediscover" /\ restore[a] /\ pc[a] # "idle"

\* The loop takes reports from a connection that is up.
Listens ==
    running /\ ~disturbed /\ pc[Loop] \in {"top", "iterating"} /\ link = "open"

\* Only a rediscover() that will restore it disables reporting.
RestoreInv == \A a \in Apps : op[a] = "rediscover" /\ pc[a] = "disable" => restore[a]

\* Who waits for the response to an enabling command has written it.
SentInv == holder # Nobody /\ Sends(pc[holder]) = "enable" /\ link = "open" => Enabled

\* While the loop listens the gateway reports, or a rediscover() that will enable
\* reporting is under way (controller.py:131-148, 184-212, 218-223).
PausedOrOn == Listens => Enabled \/ \E a \in Apps : Pauses(a)

ReportingInv == RestoreInv /\ SentInv /\ PausedOrOn

LEMMA EnabledSame ==
    ASSUME Enabled, UNCHANGED <<commands, reporting>>
    PROVE  Enabled'
BY DEF Enabled

LEMMA EnabledAppend ==
    ASSUME DataOK, NEW command \in Commands, commands' = Append(commands, command),
           reporting' = reporting, command = "enable" \/ (Enabled /\ command # "disable")
    PROVE  Enabled'
<1>1. commands \in Seq(Commands)
    BY DEF DataOK, MessagesOK
<1>2. /\ DOMAIN commands = 1 .. Len(commands) /\ Len(commands) \in Nat
      /\ DOMAIN commands' = 1 .. (Len(commands) + 1)
      /\ \A i \in 1 .. Len(commands) : commands'[i] = commands[i]
      /\ commands'[Len(commands) + 1] = command
    BY <1>1, AppendProperties, LenProperties
<1>3. CASE command = "enable"
    <2>1. \A j \in DOMAIN commands' : ~(j > Len(commands) + 1)
        BY <1>2
    <2> QED  BY <1>2, <1>3, <2>1 DEF Enabled
<1>4. CASE Enabled /\ command # "disable"
    <2>1. CASE \E i \in DOMAIN commands :
                /\ commands[i] = "enable"
                /\ \A j \in DOMAIN commands : j > i => commands[j] # "disable"
        <3>1. PICK i \in DOMAIN commands :
                /\ commands[i] = "enable"
                /\ \A j \in DOMAIN commands : j > i => commands[j] # "disable"
            BY <2>1
        <3>2. i \in DOMAIN commands' /\ commands'[i] = "enable"
            BY <1>2, <3>1
        <3>3. \A j \in DOMAIN commands' : j > i => commands'[j] # "disable"
            BY <1>2, <1>4, <3>1
        <3> QED  BY <3>2, <3>3 DEF Enabled
    <2>2. CASE reporting /\ \A j \in DOMAIN commands : commands[j] # "disable"
        <3>1. \A j \in DOMAIN commands' : commands'[j] # "disable"
            BY <1>2, <1>4, <2>2
        <3> QED  BY <2>2, <3>1 DEF Enabled
    <2> QED  BY <1>4, <2>1, <2>2 DEF Enabled
<1> QED  BY <1>3, <1>4

LEMMA EnabledServe ==
    ASSUME DataOK, Enabled, Serve
    PROVE  Enabled'
<1>1. commands \in Seq(Commands) /\ commands # <<>> /\ commands' = Tail(commands)
    BY DEF DataOK, MessagesOK, Serve
<1>2. /\ DOMAIN commands = 1 .. Len(commands) /\ Len(commands) \in Nat \ {0}
      /\ DOMAIN commands' = 1 .. (Len(commands) - 1)
      /\ \A i \in 1 .. (Len(commands) - 1) : commands'[i] = commands[i + 1]
      /\ Head(commands) = commands[1]
    BY <1>1
<1>3. reporting' = IF Head(commands) \in {"enable", "disable"}
                   THEN Head(commands) = "enable" ELSE reporting
    BY DEF Serve
<1>4. CASE \E i \in DOMAIN commands :
            /\ commands[i] = "enable"
            /\ \A j \in DOMAIN commands : j > i => commands[j] # "disable"
    <2>1. PICK i \in DOMAIN commands :
            /\ commands[i] = "enable"
            /\ \A j \in DOMAIN commands : j > i => commands[j] # "disable"
        BY <1>4
    <2>2. CASE i = 1
        <3>1. reporting'
            BY <1>2, <1>3, <2>1, <2>2
        <3>2. \A j \in DOMAIN commands' : commands'[j] # "disable"
            BY <1>2, <2>1, <2>2
        <3> QED  BY <3>1, <3>2 DEF Enabled
    <2>3. CASE i # 1
        <3>1. i - 1 \in DOMAIN commands' /\ commands'[i - 1] = "enable"
            BY <1>2, <2>1, <2>3
        <3>2. \A j \in DOMAIN commands' : j > i - 1 => commands'[j] # "disable"
            BY <1>2, <2>1
        <3> QED  BY <3>1, <3>2 DEF Enabled
    <2> QED  BY <2>2, <2>3
<1>5. CASE reporting /\ \A j \in DOMAIN commands : commands[j] # "disable"
    <2>1. \A j \in DOMAIN commands' : commands'[j] # "disable"
        BY <1>2, <1>5
    <2>2. Head(commands) # "disable"
        BY <1>2, <1>5
    <2>3. reporting'
        BY <1>3, <1>5, <2>2
    <2> QED  BY <2>1, <2>3 DEF Enabled
<1> QED  BY <1>4, <1>5 DEF Enabled

\* A command that is lost takes with it what it would have done.
LEMMA EnabledLost ==
    ASSUME DataOK, Enabled, commands # <<>>, commands[Len(commands)] # "enable",
           commands' = SubSeq(commands, 1, Len(commands) - 1), reporting' = reporting
    PROVE  Enabled'
<1>1. commands \in Seq(Commands)
    BY DEF DataOK, MessagesOK
<1>2. /\ DOMAIN commands = 1 .. Len(commands) /\ Len(commands) \in Nat \ {0}
      /\ DOMAIN commands' = 1 .. (Len(commands) - 1)
      /\ \A i \in 1 .. (Len(commands) - 1) : commands'[i] = commands[i]
    BY <1>1
<1>3. CASE \E i \in DOMAIN commands :
            /\ commands[i] = "enable"
            /\ \A j \in DOMAIN commands : j > i => commands[j] # "disable"
    <2>1. PICK i \in DOMAIN commands :
            /\ commands[i] = "enable"
            /\ \A j \in DOMAIN commands : j > i => commands[j] # "disable"
        BY <1>3
    <2>2. i \in DOMAIN commands' /\ commands'[i] = "enable"
        BY <1>2, <2>1
    <2>3. \A j \in DOMAIN commands' : j > i => commands'[j] # "disable"
        BY <1>2, <2>1
    <2> QED  BY <2>2, <2>3 DEF Enabled
<1>4. CASE reporting /\ \A j \in DOMAIN commands : commands[j] # "disable"
    <2>1. \A j \in DOMAIN commands' : commands'[j] # "disable"
        BY <1>2, <1>4
    <2> QED  BY <1>4, <2>1 DEF Enabled
<1> QED  BY <1>3, <1>4 DEF Enabled

\* Nothing but a command and the loss of one changes what will be.
LEMMA EnabledKept ==
    ASSUME Basis, [Next]_vars, ~\E t \in Tasks : Command(t), link' = "open", Enabled
    PROVE  Enabled' \/ (disturbed' /\ holder' = Nobody)
<1>1. DataOK /\ HolderInv
    BY DEF Basis
<1>2. CASE UNCHANGED <<commands, reporting>>
    BY <1>2, EnabledSame
<1>3. CASE Serve
    BY <1>1, <1>3, EnabledServe
<1>4. ASSUME NEW t \in Tasks, TimedOut(t)
      PROVE  Enabled' \/ (disturbed' /\ holder' = Nobody)
    <2>1. /\ holder = t /\ holder # Nobody /\ holder' = Nobody /\ reporting' = reporting
        BY <1>4, TaskAssumption DEF TimedOut
    <2>2. CASE commands' = commands
        BY <2>1, <2>2, <1>2
    <2>3. CASE /\ commands # <<>> /\ commands' = SubSeq(commands, 1, Len(commands) - 1)
               /\ disturbed' = (disturbed \/ Sends(pc[t]) = "enable")
        <3>1. commands[Len(commands)] = Sends(pc[t])
            BY <1>1, <2>1, <2>3 DEF HolderInv
        <3>2. CASE Sends(pc[t]) = "enable"
            BY <2>1, <2>3, <3>2
        <3>3. CASE Sends(pc[t]) # "enable"
            BY <1>1, <2>1, <2>3, <3>1, <3>3, EnabledLost
        <3> QED  BY <3>2, <3>3
    <2> QED  BY <1>4, <2>2, <2>3 DEF TimedOut
<1>5. ASSUME NEW a \in Apps, NEW pause_reporting,
             \/ Start(a) \/ Stop(a) \/ AwaitLoop(a) \/ Cancel(a)
             \/ Rediscover(a, pause_reporting)
      PROVE  UNCHANGED <<commands, reporting>>
    BY <1>5 DEF Start, Stop, AwaitLoop, Cancel, Rediscover, gateway
<1>6. ASSUME NEW t \in Tasks, OpenOk(t) \/ OpenFails(t) \/ CommandRaises(t)
      PROVE  UNCHANGED <<commands, reporting>>
    BY <1>6 DEF OpenOk, OpenFails, CommandRaises, gateway
<1>7. (\A t \in Tasks : ~CloseEnds(t)) /\ ~LinkFails
    BY DEF CloseEnds, LinkFails
<1>8. CASE Turn \/ Handle \/ Dispatch \/ Change \/ UNCHANGED vars
    <2>1. UNCHANGED <<commands, reporting>>
        BY <1>8 DEF Turn, Handle, Dispatch, Change, gateway, vars
    <2> QED  BY <1>2, <2>1
<1> QED  BY <1>2, <1>3, <1>4, <1>5, <1>6, <1>7, <1>8 DEF Next, Step

\* The connection comes up while nobody waits for a response.
LEMMA OpensUnwatched ==
    ASSUME [Next]_vars, ~\E t \in Tasks : Command(t), link' = "open", holder' # Nobody
    PROVE  link = "open"
<1>1. ASSUME NEW a \in Apps, NEW pause_reporting,
             \/ Start(a) \/ Stop(a) \/ AwaitLoop(a) \/ Cancel(a)
             \/ Rediscover(a, pause_reporting)
      PROVE  link = "open"
    BY <1>1 DEF Start, Stop, AwaitLoop, Cancel, Rediscover, StopClient, Raised, BeginClose,
        session
<1>2. ASSUME NEW t \in Tasks, OpenOk(t) \/ OpenFails(t)
      PROVE  link = "open"
    BY <1>2 DEF OpenOk, OpenFails
<1>3. ASSUME NEW t \in Tasks, CommandRaises(t) \/ TimedOut(t) \/ CloseEnds(t)
      PROVE  link = "open"
    BY <1>3 DEF CommandRaises, Raised, BeginClose, TimedOut, CloseEnds
<1>4. CASE Turn \/ Handle \/ Dispatch \/ Change \/ Serve \/ LinkFails \/ UNCHANGED vars
    BY <1>4 DEF Turn, Handle, Dispatch, Change, Serve, LinkFails, BeginClose, session, vars
<1> QED  BY <1>1, <1>2, <1>3, <1>4 DEF Next, Step

LEMMA SentStep ==
    ASSUME Basis, SentInv, [Next]_vars
    PROVE  SentInv'
<1>1. ControlInv /\ DataOK /\ HolderInv
    BY DEF Basis
<1>2. ASSUME NEW t \in Tasks, Command(t)
      PROVE  SentInv'
    <2>1. /\ holder' = t /\ pc' = pc /\ reporting' = reporting /\ pc[t] \in Commands
          /\ commands' = Append(commands, Sends(pc[t]))
        BY <1>2 DEF Command
    <2>2. Sends(pc[t]) \in Commands
        BY <2>1 DEF Sends, Commands
    <2>3. Sends(pc[t]) = "enable" => Enabled'
        BY <1>1, <2>1, <2>2, EnabledAppend
    <2> QED  BY <2>1, <2>3 DEF SentInv, Sends
<1>3. CASE ~\E t \in Tasks : Command(t)
    <2> SUFFICES ASSUME holder' # Nobody, Sends(pc'[holder']) = "enable", link' = "open"
                 PROVE  Enabled'
        BY DEF SentInv, Sends
    <2>1. holder' = holder /\ pc'[holder'] = pc[holder]
        BY <1>1, <1>3, HolderStep DEF HolderStays
    <2>2. link = "open"
        BY <1>3, OpensUnwatched
    <2>3. Enabled
        BY <2>1, <2>2 DEF SentInv
    <2> QED  BY <1>3, <2>3, EnabledKept
<1> QED  BY <1>2, <1>3

\* A step but the beginning of a call: no rediscover() comes to disable reporting,
\* or forgets that it has to restore it.
Restoring ==
    \A a \in Apps :
        op'[a] = "rediscover" =>
            /\ op[a] = "rediscover" /\ (restore[a] => restore'[a])
            /\ pc'[a] = "disable" => pc[a] = "disable"

LEMMA GoesRestoring ==
    ASSUME Placed, DataOK, NEW t \in Tasks, NEW point, Goto(t, point), op' = op,
           t \in Apps /\ op[t] = "rediscover" => point # "disable",
           \/ restore' = restore
           \/ \E value : /\ restore' = [restore EXCEPT ![t] = value]
                         /\ op[t] = "rediscover" => value = TRUE
    PROVE  Restoring
<1>1. \A b \in Apps : pc'[b] = IF b = t THEN point ELSE pc[b]
    BY DEF Goto, Placed, Tasks
<1>2. restore \in [Tasks -> BOOLEAN]
    BY DEF DataOK, TasksOK
<1>3. \A b \in Apps : op[b] = "rediscover" /\ restore[b] => restore'[b]
    <2> SUFFICES ASSUME NEW b \in Apps, op[b] = "rediscover", restore[b], restore' # restore
                 PROVE  restore'[b]
        OBVIOUS
    <2>1. PICK value : /\ restore' = [restore EXCEPT ![t] = value]
                       /\ op[t] = "rediscover" => value = TRUE
        OBVIOUS
    <2>2. CASE b = t
        <3>1. restore'[b] = value
            BY <1>2, <2>1, <2>2
        <3> QED  BY <2>1, <2>2, <3>1
    <2>3. CASE b # t
        <3>1. restore'[b] = restore[b]
            BY <1>2, <2>1, <2>3 DEF Tasks
        <3> QED  BY <3>1
    <2> QED  BY <2>2, <2>3
<1> QED  BY <1>1, <1>3 DEF Restoring

LEMMA StaysRestoring ==
    ASSUME UNCHANGED <<pc, op, restore>>
    PROVE  Restoring
BY DEF Restoring

LEMMA ReturnedRestoring ==
    ASSUME Basis, NEW t \in Tasks, pc[t] \in Commands, NEW v, Returned(t, v), op' = op
    PROVE  Restoring
<1> USE TaskAssumption DEF Tasks
<1>1. Placed /\ DataOK /\ (op[t] = "loop" <=> t = Loop)
    BY DEF Basis, ControlInv, Placed, Operations
<1>2. CASE restore' = restore /\ \E point : Goto(t, point) /\ point # "disable"
    BY <1>1, <1>2, GoesRestoring
<1>3. CASE restore' = [restore EXCEPT ![t] = TRUE] /\ Goto(t, "discover")
    BY <1>1, <1>3, GoesRestoring
<1>4. CASE op[t] = "start" /\ Started(t)
    <2>1. t \in Apps
        BY <1>1, <1>4
    <2>2. restore' = [restore EXCEPT ![t] = FALSE]
        BY <1>4 DEF Started
    <2>3. CASE Goto(t, "closing")
        BY <1>1, <1>4, <2>2, <2>3, GoesRestoring
    <2>4. CASE pc' = [pc EXCEPT ![t] = "idle", ![Loop] = "top"]
        <3>1. \A b \in Apps : pc'[b] = IF b = t THEN "idle" ELSE pc[b]
            BY <1>1, <2>4 DEF Placed
        <3>2. \A b \in Apps : b # t => restore'[b] = restore[b]
            BY <1>1, <2>2 DEF DataOK, TasksOK
        <3> QED  BY <1>4, <2>1, <3>1, <3>2 DEF Restoring
    <2> QED  BY <1>4, <2>3, <2>4 DEF Started, BeginClose
<1>5. CASE op[t] = "loop"
    BY <1>1, <1>2, <1>5 DEF Returned, Subscribe, Placed, Points, LoopPoints, Operations, Commands
<1> QED  BY <1>2, <1>3, <1>4, <1>5 DEF Returned, BeginClose

LEMMA RestoringStep ==
    ASSUME Basis, [Next]_vars,
           ~\E a \in Apps : \/ Start(a) \/ Stop(a)
                            \/ \E pause_reporting \in BOOLEAN : Rediscover(a, pause_reporting)
    PROVE  Restoring
<1> USE TaskAssumption DEF Tasks
<1>1. Placed /\ DataOK /\ ControlInv
    BY DEF Basis, ControlInv
<1>2. CASE Turn \/ Handle
    <2>1. UNCHANGED <<op, restore>>
        BY <1>2 DEF Turn, Handle, locals
    <2>2. pc' = pc \/ \E point : Goto(Loop, point)
        BY <1>2 DEF Turn, Handle, LoopTop, Subscribe, BeginClose
    <2> QED  BY <1>1, <2>1, <2>2, GoesRestoring, StaysRestoring
<1>3. ASSUME NEW a \in Apps, AwaitLoop(a)
      PROVE  Restoring
    <2>1. UNCHANGED <<op, restore>> /\ op[a] = "stop"
        BY <1>1, <1>3 DEF AwaitLoop, locals, Placed, Points, Operations, Commands
    <2>2. \E point : Goto(a, point)
        BY <1>3 DEF AwaitLoop, StopClient, BeginClose
    <2> QED  BY <1>1, <2>1, <2>2, GoesRestoring
<1>4. ASSUME NEW t \in Tasks, Raised(t) \/ Goto(t, "idle"), UNCHANGED <<op, restore>>
      PROVE  Restoring
    <2>1. PICK point : Goto(t, point) /\ point # "disable"
        BY <1>4 DEF Raised, BeginClose
    <2> QED  BY <1>1, <1>4, <2>1, GoesRestoring
<1>5. ASSUME NEW a \in Apps, Cancel(a)
      PROVE  Restoring
    <2>1. UNCHANGED <<op, restore>>
        BY <1>5 DEF Cancel, locals
    <2>2. CASE \E point : Goto(Loop, point)
        BY <1>1, <2>1, <2>2, GoesRestoring
    <2> QED  BY <1>4, <1>5, <2>1, <2>2 DEF Cancel
<1>6. ASSUME NEW t \in Tasks, CommandRaises(t)
      PROVE  Restoring
    BY <1>4, <1>6 DEF CommandRaises, locals
<1>7. ASSUME NEW t \in Tasks, OpenOk(t) \/ OpenFails(t)
      PROVE  Restoring
    <2>1. UNCHANGED <<op, restore>> /\ pc[t] = "open" /\ \E point : Goto(t, point)
        BY <1>7 DEF OpenOk, OpenFails, locals
    <2>2. t \in Apps => op[t] # "rediscover"
        BY <1>1, <2>1 DEF Placed, Points, Commands
    <2> QED  BY <1>1, <2>1, <2>2, GoesRestoring
<1>8. ASSUME NEW t \in Tasks, CloseEnds(t)
      PROVE  Restoring
    <2>1. UNCHANGED <<op, restore>> /\ Goto(t, AfterClose(t)) /\ AfterClose(t) # "disable"
        BY <1>8 DEF CloseEnds, AfterClose, locals
    <2> QED  BY <1>1, <2>1, GoesRestoring
<1>9. ASSUME NEW t \in Tasks, TimedOut(t)
      PROVE  Restoring
    <2>1. pc[t] \in Commands /\ op' = op /\ Returned(t, NoValue)
        BY <1>9 DEF TimedOut, Basis, HolderInv
    <2> QED  BY <2>1, ReturnedRestoring
<1>10. CASE Dispatch
    <2>1. PICK t, v : t = holder /\ v = Head(wire).version
        OBVIOUS
    <2>2. CASE holder # Nobody /\ Returned(t, v)
        <3>1. pc[t] \in Commands /\ t \in Tasks /\ op' = op
            BY <1>10, <2>1, <2>2 DEF Dispatch, Basis, HolderInv, DataOK, MessagesOK
        <3> QED  BY <2>2, <3>1, ReturnedRestoring
    <2>3. CASE UNCHANGED <<pc, restore>>
        BY <1>10, <2>3, StaysRestoring DEF Dispatch
    <2> QED  BY <1>10, <2>1, <2>2, <2>3 DEF Dispatch
<1>11. CASE (\E t \in Tasks : Command(t)) \/ Change \/ Serve \/ LinkFails \/ UNCHANGED vars
    <2>1. UNCHANGED <<pc, op, restore>>
        BY <1>11 DEF Command, Change, Serve, LinkFails, locals, vars
    <2> QED  BY <2>1, StaysRestoring
<1> QED  BY <1>2, <1>3, <1>5, <1>6, <1>7, <1>8, <1>9, <1>10, <1>11 DEF Next, Step

LEMMA RestoreStep ==
    ASSUME Basis, RestoreInv, [Next]_vars
    PROVE  RestoreInv'
<1> USE TaskAssumption DEF Tasks
<1>1. Placed /\ DataOK
    BY DEF Basis, ControlInv
<1>2. ASSUME NEW a \in Apps, NEW operation, op' = [op EXCEPT ![a] = operation],
             operation = "rediscover" /\ pc'[a] = "disable" => restore'[a],
             \A b \in Apps : b # a => pc'[b] = pc[b] /\ restore'[b] = restore[b]
      PROVE  RestoreInv'
    <2>1. \A b \in Tasks : op'[b] = IF b = a THEN operation ELSE op[b]
        BY <1>1, <1>2 DEF Placed
    <2> QED  BY <1>2, <2>1 DEF RestoreInv
<1>3. restore \in [Tasks -> BOOLEAN]
    BY <1>1 DEF DataOK, TasksOK
<1>4. ASSUME NEW a \in Apps, Start(a)
      PROVE  RestoreInv'
    <2>1. /\ op' = [op EXCEPT ![a] = "start"] /\ restore' = [restore EXCEPT ![a] = FALSE]
          /\ \E point : Goto(a, point)
        BY <1>4 DEF Start, Starts
    <2>2. \A b \in Apps : b # a => pc'[b] = pc[b] /\ restore'[b] = restore[b]
        BY <1>1, <1>3, <2>1 DEF Goto, Placed
    <2> QED  BY <1>2, <2>1, <2>2
<1>5. ASSUME NEW a \in Apps, Stop(a)
      PROVE  RestoreInv'
    <2>1. op' = [op EXCEPT ![a] = "stop"] /\ restore' = restore
        BY <1>5 DEF Stop, Starts
    <2>2. \A b \in Apps : b # a => pc'[b] = pc[b]
        <3>1. \/ \E point : pc' = [pc EXCEPT ![a] = point]
              \/ \E point, end : pc' = [pc EXCEPT ![Loop] = end, ![a] = point]
            BY <1>5 DEF Stop, StopClient, BeginClose, Goto
        <3> QED  BY <1>1, <3>1 DEF Placed
    <2> QED  BY <1>2, <2>1, <2>2
<1>6. ASSUME NEW a \in Apps, NEW pause_reporting \in BOOLEAN, Rediscover(a, pause_reporting)
      PROVE  RestoreInv'
    <2>1. /\ op' = [op EXCEPT ![a] = "rediscover"]
          /\ restore' = [restore EXCEPT ![a] = pause_reporting /\ running]
          /\ Goto(a, IF pause_reporting /\ running THEN "disable" ELSE "discover")
        BY <1>6 DEF Rediscover, Starts
    <2>2. \A b \in Apps : b # a => pc'[b] = pc[b] /\ restore'[b] = restore[b]
        BY <1>1, <1>3, <2>1 DEF Goto, Placed
    <2>3. pc'[a] = "disable" => restore'[a]
        <3>1. pc'[a] = IF pause_reporting /\ running THEN "disable" ELSE "discover"
            BY <1>1, <2>1 DEF Goto, Placed
        <3>2. restore'[a] = (pause_reporting /\ running)
            BY <1>3, <2>1
        <3> QED  BY <3>1, <3>2
    <2> QED  BY <1>2, <2>1, <2>2, <2>3
<1>7. CASE Restoring
    BY <1>7 DEF Restoring, RestoreInv
<1> QED  BY <1>4, <1>5, <1>6, <1>7, RestoringStep

\* The loop goes on listening, whoever pauses goes on pausing.
LEMMA ListensOn ==
    ASSUME PausedOrOn, Listens, Enabled => Enabled',
           \A a \in Apps : Pauses(a) => Pauses(a)' \/ Enabled'
    PROVE  Enabled' \/ \E a \in Apps : Pauses(a)'
BY DEF PausedOrOn

\* The loop listens, or the task that moves is the loop.
LEMMA ListensBefore ==
    ASSUME Placed, Listens', NEW t \in Apps, NEW point, Goto(t, point),
           running' = running, disturbed => disturbed', link = "open"
    PROVE  Listens
<1>1. pc'[Loop] = pc[Loop]
    BY TaskAssumption DEF Goto, Placed, Tasks
<1> QED  BY <1>1 DEF Listens

LEMMA ReturnedListens ==
    ASSUME Basis, StreamInv, ReportingInv, NEW t \in Tasks, t = holder, pc[t] \in Commands,
           NEW v, Returned(t, v), op' = op, Listens', disturbed => disturbed',
           Enabled => Enabled'
    PROVE  Enabled' \/ \E a \in Apps : Pauses(a)'
<1> USE TaskAssumption DEF Tasks
<1>1. Placed /\ ControlInv /\ DataOK /\ (op[t] = "loop" <=> t = Loop)
    BY DEF Basis, ControlInv, Placed, Operations
<1>2. link' \in {link, "closing"} /\ link' = "open"
    BY DEF Returned, Started, BeginClose, Subscribe, Listens
<1>3. link = "open"
    BY <1>2
<1>4. CASE Sends(pc[t]) = "enable"
    BY <1>3, <1>4 DEF ReportingInv, SentInv
<1>5. CASE Sends(pc[t]) # "enable"
    <2>1. pc[t] \in {"disable", "discover", "poll", "rest"}
        BY <1>5 DEF Sends, Commands
    <2>2. t # Loop /\ t \in Apps
        BY <1>1, <2>1 DEF Placed, LoopPoints
    <2>3. op[t] \in Operations /\ pc[t] \in Points[op[t]]
        BY <1>1, <2>2 DEF Placed
    <2>4. running' = running /\ \E point : Goto(t, point)
        BY <1>1, <2>1, <2>2 DEF Returned, BeginClose, controller
    <2>5. Listens
        BY <1>1, <1>3, <2>2, <2>4, ListensBefore
    <2>6. op[t] \notin {"start", "stop"}
        <3> SUFFICES ASSUME op[t] \in {"start", "stop"} PROVE FALSE
            OBVIOUS
        <3>1. Active(t) /\ pc[t] # "await_loop"
            BY <2>1 DEF Active
        <3>2. ~Alive
            BY <1>1, <2>2, <3>1, LoopIsDown
        <3> QED  BY <2>5, <3>2 DEF Listens, Alive
    <2>7. op[t] = "rediscover"
        BY <2>1, <2>3, <2>6 DEF Operations, Points
    <2>8. PICK point : /\ Goto(t, point)
                       /\ restore' = restore \/ restore' = [restore EXCEPT ![t] = TRUE]
                       /\ restore[t] => point # "idle"
        BY <2>1, <2>2, <2>7 DEF Returned
    <2>9. \A b \in Apps : pc'[b] = IF b = t THEN point ELSE pc[b]
        BY <1>1, <2>8 DEF Goto, Placed
    <2>10. \A b \in Apps : restore[b] => restore'[b]
        <3>1. restore \in [Tasks -> BOOLEAN]
            BY <1>1 DEF DataOK, TasksOK
        <3> QED  BY <2>8, <3>1
    <2>11. \A b \in Apps : Pauses(b) => Pauses(b)'
        BY <2>8, <2>9, <2>10 DEF Pauses
    <2> QED  BY <2>5, <2>11, ListensOn DEF ReportingInv
<1> QED  BY <1>4, <1>5

\* A failed or cancelled task of a rediscover() that has paused reporting turns to
\* restoring it, if the connection is up.
LEMMA RaisedListens ==
    ASSUME Basis, StreamInv, ReportingInv, NEW t \in Tasks,
           pc[t] \in {"discover", "poll", "rest"}, Raised(t), UNCHANGED <<op, restore, running>>,
           Listens', disturbed => disturbed', Enabled => Enabled'
    PROVE  Enabled' \/ \E a \in Apps : Pauses(a)'
<1> USE TaskAssumption DEF Tasks
<1>1. Placed /\ ControlInv /\ (op[t] = "loop" <=> t = Loop)
    BY DEF Basis, ControlInv, Placed, Operations
<1>2. t \in Apps
    BY <1>1 DEF Placed, LoopPoints
<1>3. link = "open" /\ IsOpen
    BY DEF Raised, BeginClose, Listens, IsOpen
<1>4. PICK point : Goto(t, point) /\ (op[t] = "rediscover" /\ restore[t] => point = "restore")
    BY <1>1, <1>2, <1>3 DEF Raised, Restores, BeginClose
<1>5. Listens
    BY <1>1, <1>2, <1>3, <1>4, ListensBefore
<1>6. \A b \in Apps : pc'[b] = IF b = t THEN point ELSE pc[b]
    BY <1>1, <1>4 DEF Goto, Placed
<1>7. \A b \in Apps : Pauses(b) => Pauses(b)'
    BY <1>4, <1>6 DEF Pauses
<1> QED  BY <1>5, <1>7, ListensOn DEF ReportingInv

LEMMA CommandListens ==
    ASSUME Basis, ReportingInv, NEW t \in Tasks, Command(t), Listens'
    PROVE  Enabled' \/ \E a \in Apps : Pauses(a)'
<1> USE TaskAssumption DEF Tasks
<1>1. Placed /\ ControlInv /\ DataOK
    BY DEF Basis, ControlInv
<1>2. /\ UNCHANGED <<pc, op, restore, running, disturbed, link, reporting>>
      /\ pc[t] \in Commands /\ commands' = Append(commands, Sends(pc[t]))
    BY DEF Command, controller, locals, history
<1>3. Listens /\ \A a \in Apps : Pauses(a) => Pauses(a)'
    BY <1>2 DEF Listens, Pauses
<1>4. Sends(pc[t]) \in Commands
    BY <1>2 DEF Sends, Commands
<1>5. CASE Sends(pc[t]) # "disable"
    <2>1. Enabled => Enabled'
        BY <1>1, <1>2, <1>4, <1>5, EnabledAppend
    <2> QED  BY <1>3, <2>1, ListensOn DEF ReportingInv
<1>6. CASE Sends(pc[t]) = "disable"
    <2>1. pc[t] = "disable" /\ t # Loop /\ t \in Apps
        BY <1>1, <1>6 DEF Sends, Placed, LoopPoints
    <2>2. op[t] \in Operations /\ pc[t] \in Points[op[t]]
        BY <1>1, <2>1 DEF Placed
    <2>3. op[t] \notin {"start", "stop"}
        <3> SUFFICES ASSUME op[t] \in {"start", "stop"} PROVE FALSE
            OBVIOUS
        <3>1. Active(t) /\ pc[t] # "await_loop"
            BY <2>1 DEF Active
        <3> QED  BY <1>1, <1>3, <2>1, <3>1, LoopIsDown DEF Listens, Alive
    <2>4. op[t] = "rediscover"
        BY <2>1, <2>2, <2>3 DEF Operations, Points
    <2>5. Pauses(t)
        BY <2>1, <2>4 DEF ReportingInv, RestoreInv, Pauses
    <2> QED  BY <1>3, <2>1, <2>5
<1> QED  BY <1>5, <1>6

\* A call that begins makes no loop listen, and ends nothing that pauses.
LEMMA BeginsListens ==
    ASSUME Basis, ReportingInv, NEW a \in Apps, NEW pause_reporting \in BOOLEAN,
           Start(a) \/ Rediscover(a, pause_reporting), Listens', Enabled => Enabled'
    PROVE  Enabled' \/ \E b \in Apps : Pauses(b)'
<1> USE TaskAssumption DEF Tasks
<1>1. Placed /\ DataOK
    BY DEF Basis, ControlInv
<1>2. pc[a] = "idle" /\ running' = running /\ link' = link
    BY DEF Start, Rediscover, Starts, controller, session
<1>3. PICK point, operation, value :
        /\ Goto(a, point) /\ op' = [op EXCEPT ![a] = operation]
        /\ restore' = [restore EXCEPT ![a] = value]
    BY DEF Start, Rediscover, Starts
<1>4. \A b \in Tasks : b # a => pc'[b] = pc[b]
    BY <1>1, <1>3 DEF Goto, Placed
<1>5. \A b \in Tasks : b # a => op'[b] = op[b]
    BY <1>1, <1>3 DEF Placed
<1>6. \A b \in Tasks : b # a => restore'[b] = restore[b]
    BY <1>1, <1>3 DEF DataOK, TasksOK
<1>7. disturbed => disturbed'
    BY <1>2 DEF Start, Rediscover, Listens
<1>8. Listens
    BY <1>2, <1>4, <1>7 DEF Listens
<1>9. \A b \in Apps : Pauses(b) => Pauses(b)'
    BY <1>2, <1>4, <1>5, <1>6 DEF Pauses
<1> QED  BY <1>8, <1>9, ListensOn DEF ReportingInv

LEMMA CancelListens ==
    ASSUME Basis, StreamInv, ReportingInv, NEW a \in Apps, Cancel(a), Listens',
           Enabled => Enabled'
    PROVE  Enabled' \/ \E b \in Apps : Pauses(b)'
<1> USE TaskAssumption DEF Tasks
<1>1. Placed /\ ControlInv
    BY DEF Basis, ControlInv
<1>2. UNCHANGED <<op, restore, running>>
    BY DEF Cancel, controller, locals
<1>3. disturbed => disturbed'
    BY DEF Cancel, Listens
<1>4. pc[a] \notin {"disable", "enable", "restore"}
    BY DEF Cancel, Listens
<1>5. CASE pc[a] \in {"discover", "poll", "rest"} /\ Raised(a)
    BY <1>2, <1>3, <1>5, RaisedListens
<1>6. CASE /\ Goto(a, "idle") /\ link' = link
           /\ op[a] = "stop" \/ pc[a] \in {"open", "closing"}
    <2>1. op[a] # "rediscover"
        BY <1>1, <1>6 DEF Placed, Points, Commands
    <2>2. Listens
        <3>1. running' = running /\ link = "open"
            BY <1>2, <1>6 DEF Listens
        <3> QED  BY <1>1, <1>3, <1>6, <3>1, ListensBefore
    <2>3. \A b \in Apps : pc'[b] = IF b = a THEN "idle" ELSE pc[b]
        BY <1>1, <1>6 DEF Goto, Placed
    <2>4. \A b \in Apps : Pauses(b) => Pauses(b)'
        BY <1>2, <2>1, <2>3 DEF Pauses
    <2> QED  BY <2>2, <2>4, ListensOn DEF ReportingInv
<1>7. CASE \E point \in {"done", "crashed", "closing"} : Goto(Loop, point)
    <2>1. pc'[Loop] \in {"done", "crashed", "closing"}
        BY <1>1, <1>7 DEF Goto, Placed
    <2> QED  BY <2>1 DEF Listens
<1> QED  BY <1>4, <1>5, <1>6, <1>7 DEF Cancel, Commands

LEMMA TaskListens ==
    ASSUME Basis, StreamInv, ReportingInv, NEW t \in Tasks, Step(t), Listens',
           Enabled => Enabled'
    PROVE  Enabled' \/ \E b \in Apps : Pauses(b)'
<1> USE TaskAssumption DEF Tasks
<1>1. Placed /\ ControlInv /\ (op[t] = "loop" <=> t = Loop)
    BY DEF Basis, ControlInv, Placed, Operations
<1>2. CASE OpenOk(t)
    <2>1. CASE t = Loop
        <3>1. pc'[Loop] = "enable"
            BY <1>1, <1>2, <2>1 DEF OpenOk, Goto, Placed
        <3> QED  BY <3>1 DEF Listens
    <2>2. CASE t # Loop
        <3>1. op[t] \in Operations /\ pc[t] \in Points[op[t]] /\ pc[t] = "open" /\ t \in Apps
            BY <1>1, <1>2, <2>2 DEF Placed, OpenOk
        <3>2. Active(t) /\ pc[t] # "await_loop"
            BY <3>1 DEF Active, Operations, Points, Commands
        <3>3. pc'[Loop] = pc[Loop]
            BY <1>1, <1>2, <2>2 DEF OpenOk, Goto, Placed
        <3> QED  BY <1>1, <3>1, <3>2, <3>3, LoopIsDown DEF Listens, Alive
    <2> QED  BY <2>1, <2>2
<1>3. CASE OpenFails(t) \/ CloseEnds(t)
    BY <1>3 DEF OpenFails, CloseEnds, Listens
<1>4. CASE CommandRaises(t)
    <2>1. link = "open"
        BY <1>4 DEF CommandRaises, Raised, BeginClose, Listens
    <2>2. pc[t] = "discover" /\ Raised(t) /\ UNCHANGED <<op, restore, running, disturbed>>
        BY <1>4, <2>1 DEF CommandRaises, controller, locals, history
    <2> QED  BY <2>2, RaisedListens
<1>5. CASE TimedOut(t)
    <2>1. t = holder /\ pc[t] \in Commands
        BY <1>5 DEF TimedOut, Basis, HolderInv
    <2>2. op' = op /\ Returned(t, NoValue)
        BY <1>5 DEF TimedOut
    <2>3. disturbed => disturbed'
        BY <1>5 DEF TimedOut
    <2> QED  BY <2>1, <2>2, <2>3, ReturnedListens
<1> QED  BY <1>2, <1>3, <1>4, <1>5 DEF Step

LEMMA ListensStep ==
    ASSUME Basis, StreamInv, ReportingInv, [Next]_vars
    PROVE  PausedOrOn'
<1> USE TaskAssumption DEF Tasks
<1> SUFFICES ASSUME Listens' PROVE Enabled' \/ \E a \in Apps : Pauses(a)'
    BY DEF PausedOrOn
<1>1. Placed /\ ControlInv
    BY DEF Basis, ControlInv
<1>2. CASE \E t \in Tasks : Command(t)
    BY <1>2, CommandListens
<1>3. CASE ~\E t \in Tasks : Command(t)
    <2>1. Enabled => Enabled'
        BY <1>3, EnabledKept DEF Listens
    <2>2. ASSUME NEW a \in Apps, Stop(a) \/ AwaitLoop(a)
          PROVE  FALSE
        <3>1. CASE Stop(a)
            BY <3>1 DEF Stop, Listens
        <3>2. CASE AwaitLoop(a)
            <4>1. op[a] = "stop" /\ pc[a] # "idle" /\ running' = running
                BY <1>1, <3>2 DEF AwaitLoop, controller, Placed, Points, Operations, Commands
            <4> QED  BY <1>1, <4>1 DEF ControlInv, RunningInv, Listens
        <3> QED  BY <2>2, <3>1, <3>2
    <2>3. CASE Turn \/ Handle
        <3>1. UNCHANGED <<running, disturbed, op, restore, commands, reporting>>
            BY <2>3 DEF Turn, Handle, controller, locals, gateway, history
        <3>2. link = "open"
            BY <2>3 DEF Turn, Handle, BeginClose, Listens
        <3>3. Listens
            BY <2>3, <3>1, <3>2 DEF Turn, Handle, StreamInv, Listens
        <3>4. pc' = pc \/ \E point : Goto(Loop, point)
            BY <2>3 DEF Turn, Handle, LoopTop, Subscribe, BeginClose
        <3>5. \A b \in Apps : pc'[b] = pc[b]
            BY <1>1, <3>4 DEF Goto, Placed
        <3>6. \A b \in Apps : Pauses(b) => Pauses(b)'
            BY <3>1, <3>5 DEF Pauses
        <3> QED  BY <2>1, <3>3, <3>6, ListensOn DEF ReportingInv
    <2>4. CASE UNCHANGED <<pc, op, restore, running, disturbed, link>>
        <3>1. Listens /\ \A b \in Apps : Pauses(b) => Pauses(b)'
            BY <2>4 DEF Listens, Pauses
        <3> QED  BY <2>1, <3>1, ListensOn DEF ReportingInv
    <2>5. CASE Change \/ Serve \/ UNCHANGED vars
        BY <2>4, <2>5 DEF Change, Serve, controller, locals, session, history, vars
    <2>6. CASE LinkFails
        BY <2>6 DEF LinkFails, Listens
    <2>7. CASE Dispatch
        <3>1. PICK t, v : t = holder /\ v = Head(wire).version
            OBVIOUS
        <3>2. op' = op /\ disturbed' = disturbed
            BY <2>7 DEF Dispatch, history
        <3>3. CASE holder # Nobody /\ Returned(t, v)
            <4>1. pc[t] \in Commands /\ t \in Tasks
                BY <3>1, <3>3 DEF Basis, HolderInv, DataOK, MessagesOK
            <4> QED  BY <2>1, <3>1, <3>2, <3>3, <4>1, ReturnedListens
        <3>4. CASE UNCHANGED <<controller, pc, restore, link>>
            BY <2>4, <3>2, <3>4 DEF controller
        <3> QED  BY <2>7, <3>1, <3>3, <3>4 DEF Dispatch
    <2> QED  BY <1>3, <2>1, <2>2, <2>3, <2>5, <2>6, <2>7, BeginsListens, CancelListens,
                TaskListens DEF Next
<1> QED  BY <1>2, <1>3

\* While the controller runs and no operation is under way the gateway reports:
\* whatever paused reporting has restored it, whatever failed, timed out or was
\* cancelled, unless the enabling command was (controller.py:116-150, 184-223).
THEOREM ReportingIsOn == Spec => []ReportingOn
<1> USE DEF ReportingInv
<1>1. Init => ReportingInv
    <2> SUFFICES ASSUME Init PROVE ReportingInv
        OBVIOUS
    <2>1. running = FALSE /\ holder = Nobody
        BY DEF Init
    <2>2. \A a \in Apps : pc[a] # "disable"
        BY TaskAssumption DEF Init, Tasks
    <2> QED  BY <2>1, <2>2 DEF RestoreInv, SentInv, PausedOrOn, Listens
<1>2. Basis /\ StreamInv /\ ReportingInv /\ [Next]_vars => ReportingInv'
    BY RestoreStep, SentStep, ListensStep
<1>3. Basis /\ ReportingInv => ReportingOn
    <2> SUFFICES ASSUME Basis, ReportingInv, running, pc[Loop] = "iterating", link = "open",
                        commands = <<>>, \A a \in Apps : pc[a] = "idle", ~disturbed
                 PROVE  reporting
        BY DEF ReportingOn
    <2>1. Enabled
        BY DEF PausedOrOn, Listens, Pauses
    <2>2. DOMAIN commands = {}
        OBVIOUS
    <2> QED  BY <2>1, <2>2 DEF Enabled
<1> QED  BY <1>1, <1>2, <1>3, BasisInvariant, StreamInvariant, PTL DEF Spec
==============================================================================

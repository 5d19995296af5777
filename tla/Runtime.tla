------------------------------- MODULE Runtime -------------------------------
(***************************************************************************)
(* The runtime state of the controller (controller.py, state.py): how it   *)
(* is seeded by discovery and polling, kept up to date by the report loop, *)
(* replaced by a refresh, and what the listeners and the device handles    *)
(* make of it, while values, devices and the connection change.            *)
(*                                                                         *)
(* Messages are the payloads of Codec and devices those of Devices.  One   *)
(* step of a task is one exchange with the gateway: a request, its answer  *)
(* and the delay after it; the values of one device, which do not depend   *)
(* on each other, are polled in one step, and so are those of the gateway. *)
(* The walk inside discover() is modelled in Discovery, the session in     *)
(* Session, the failures of open() and close() in Controller, and the      *)
(* slots of a setpoint in Setpoints.                                       *)
(***************************************************************************)
EXTENDS Devices, TLC

CONSTANTS
    Apps,               \* the tasks of the application
    Inventories,        \* the sequences of devices the network may consist of
    protocol_version,   \* of the gateway
    Groups,             \* the setpoint groups polled: 1 .. 12, or none, which is
                        \* the default of include_setpoint_groups
    Watched,            \* the values that may change, as <<id, method>>
    Settings,           \* what the setters are called with, as <<method, value>>,
                        \* a temperature in quarters of a degree Celsius
    MaxCalls,           \* bound: calls the application makes
    MaxEvents           \* bound: changes of values and devices, exchanges that
                        \* go wrong and lost connections

ASSUME BoundAssumption == MaxCalls \in Nat /\ MaxEvents \in Nat

\* An address is of two bytes.
Address == {n \in Nat : n < 65536}

\* The walk of the inventory takes an address once (client.py: get_inventory_addresses).
ASSUME InventoryAssumption ==
    \A devices \in Inventories :
        /\ devices \in Seq(ToSet(devices))
        /\ \A i \in DOMAIN devices : devices[i].address \in Address
        /\ \A i, j \in DOMAIN devices : devices[i].address = devices[j].address => i = j

VARIABLES
    inventory, actual,  \* the network: its devices and the values watched
    commands,           \* commands that the gateway has yet to execute
    link,               \* the connection
    backlog,            \* the session's _message_backlog
    queue,              \* the messages in the report loop's subscription
    running, loop,      \* _running, and what the report loop is at
    discovery,          \* self.discovery: its devices
    state,              \* self.state: its discovery and its data
    told,               \* what a state listener has been called with last
    pc, op,             \* the exchange each task does next, and its operation
    paused,             \* reporting_disabled, reporting_paused
    target, polled,     \* the devices its poll is about, what it has got
    confirmed, took,    \* history: setpoints asked for and confirmed, or given
    cause,              \* history: why the state does not show a value
    untold,             \* history: nobody has been told of the state
    raced,              \* history: the devices polled are not those discovered
    halfway,            \* history: the devices discovered are yet to be polled
    calls, events       \* for the bounds

network == <<inventory, actual, commands>>
session == <<link, backlog, queue>>
controller == <<running, loop, discovery, state, told>>
tasks == <<pc, op, paused, target, polled>>
sets == <<confirmed, took>>
history == <<untold, raced, halfway>>
vars == <<network, session, controller, tasks, sets, cause, history, calls,
          events>>

-----------------------------------------------------------------------------
(* Values and messages *)

Key(id, method) == <<id, method>>
REPORTING == Key(0, "REPORTING_STATE")

\* SCALAR_METHODS and SETPOINT_METHODS: the value is the last field of a body.
ValueField(method) == Last(METHOD_SPECS[method]).name

\* The message about a value: what it is the value of comes first.
Message(service, k, value) ==
    LET names == {Head(METHOD_SPECS[k[2]]).name, ValueField(k[2])}
    IN  to_bytes(create(service, k[2],
            [name \in names |-> IF name = ValueField(k[2]) THEN value ELSE k[1]]))

KeyOf(message) ==
    Key(IF Len(METHOD_SPECS[message.method]) = 1 THEN 0
        ELSE field(message, Head(METHOD_SPECS[message.method]).name),
        message.method)

\* A value that is not watched stays zero.
Actual(k) == IF k \in Watched THEN actual[k] ELSE 0

GATEWAY_METHODS ==
    {"DATE_TIME", "NETWORK_ERROR", "OUTDOOR_TEMP", "REPORTING_STATE",
     "SETBACK_ENABLE", "SETPOINT_GROUP_ENABLE"}
DEVICE_VALUE_METHODS ==
    {"ACTIVE_DEMAND", "CURRENT_FLOOR_TEMPERATURE", "CURRENT_TEMPERATURE",
     "MODE_SETTING", "SETBACK_STATE"} \cup HumidityMethods
SETPOINT_METHODS ==
    {"COOL_SETPOINT", "FAN_PERCENT", "HEAT_SETPOINT", "SETPOINT_DEVICE", "SLAB_SETPOINT"}

RUNTIME_SERVICES == {"REPORT", "RESPONSE_REQUEST", "RESPONSE_UPDATE"}

\* What stands for the SetpointValues of a device.
Slots == "slots"

-----------------------------------------------------------------------------
(* The reducer: state.py *)

is_runtime_message(message) ==
    message.service \in RUNTIME_SERVICES /\ Known(message.method)

is_topology_message(message) ==
    is_runtime_message(message) /\ message.method = "TAKING_ADDRESS"

Addresses(devices) == {devices[i].address : i \in DOMAIN devices}

\* Python's bool(): of the flags of the gateway.
Flag(value) == IF value \in {None, 0} THEN value ELSE 1

\* A dictionary with a value for a key, which may be a new one.
Put(dict, key, value) ==
    [k \in DOMAIN dict \cup {key} |-> IF k = key THEN value ELSE dict[k]]

_apply_gateway_message(data, message) ==
    LET method == message.method
        value == field(message, ValueField(method))
    IN  CASE method \in {"REPORTING_STATE", "SETBACK_ENABLE"} ->
                [data EXCEPT !.gateway[method] = Flag(value)]
          [] method = "SETPOINT_GROUP_ENABLE" ->
                [data EXCEPT !.gateway[method] = Put(@, field(message, "group_id"), Flag(value))]
          [] method = "DATE_TIME" -> [data EXCEPT !.gateway[method] = message.body]
          [] OTHER -> [data EXCEPT !.gateway[method] = value]

\* with_scalar() and with_setpoint(): the value becomes available, too.
Updated(values, message) ==
    Put(values, message.method,
        IF message.method \in SETPOINT_METHODS THEN Slots
        ELSE field(message, ValueField(message.method)))

\* Mutant: the value goes to the first device.
_apply_to_first(devices, data, message) ==
    [data EXCEPT !.devices = [@ EXCEPT ![1].values = Updated(@, message)]]

\* The devices that have a snapshot, by their addresses.
SnapshotAddresses(data) == {snapshot.info.address : snapshot \in ToSet(data.devices)}

\* The elements of a set of positions, from the first to the last.
InOrder(positions) ==
    CHOOSE s \in [1 .. Cardinality(positions) -> positions] :
        \A i, j \in DOMAIN s : i < j => s[i] < s[j]

\* The dictionary of the snapshots, with the new one.
UpdatedSnapshots(data, message) ==
    {IF snapshot.info.address = field(message, "address")
     THEN [snapshot EXCEPT !.values = Updated(@, message)]
     ELSE snapshot : snapshot \in ToSet(data.devices)}

\* The snapshot of the device is replaced, and those of devices that are not
\* in the discovery result are dropped.  A setpoint for an unknown setback is
\* nothing.
_apply_device_message(devices, data, message) ==
    LET kept == InOrder({i \in DOMAIN devices :
                            devices[i].address \in SnapshotAddresses(data)})
    IN  IF \/ field(message, "address") \notin SnapshotAddresses(data)
           \/ message.method \in SETPOINT_METHODS /\ field(message, "setback") \notin 0 .. 7
        THEN data
        ELSE [data EXCEPT !.devices = [j \in DOMAIN kept |->
                CHOOSE snapshot \in UpdatedSnapshots(data, message) :
                    snapshot.info.address = devices[kept[j]].address]]

\* apply_message(): the data after a message, the same if it says nothing new.
apply_message(devices, data, message) ==
    CASE is_runtime_message(message) /\ message.method \in GATEWAY_METHODS ->
                _apply_gateway_message(data, message)
      [] is_runtime_message(message)
            /\ message.method \in DEVICE_VALUE_METHODS \cup SETPOINT_METHODS
            /\ field(message, "address") \in Addresses(devices) ->
                _apply_device_message(devices, data, message)
      [] OTHER -> data

\* Tekmar482State.apply_message().
Applied(st, message) ==
    [st EXCEPT !.data = apply_message(st.discovery, @, message)]

\* What a state shows of a value: the value, None if it was polled in vain, or
\* nothing at all.
Shows(st, k) ==
    IF st = None THEN {}
    ELSE IF k[2] = "SETPOINT_GROUP_ENABLE" THEN {st.data.gateway[k[2]][k[1]]}
    ELSE IF k[2] \in GATEWAY_METHODS THEN {st.data.gateway[k[2]]}
    ELSE {s.values[k[2]] : s \in {s \in ToSet(st.data.devices) :
                                s.info.address = k[1] /\ k[2] \in DOMAIN s.values}}

-----------------------------------------------------------------------------
(* The session and the gateway *)

Subscribed == loop = "reading"

\* The session publishes the response to an update, if there is one, and any
\* message that answers nothing, which it also keeps.
Published(payload) ==
    queue' = IF Subscribed /\ payload # None THEN Append(queue, payload) ELSE queue
Unmatched(payload) == Published(payload) /\ backlog' = Append(backlog, payload)

\* What a command makes of the values of the network, the setpoints that have
\* been given to devices after it, and what the gateway answers.
Executed(payload) ==
    LET message == from_bytes(payload)
    IN  IF message.service = "UPDATE" /\ KeyOf(message) \in Watched
        THEN [actual EXCEPT ![KeyOf(message)] = field(message, ValueField(message.method))]
        ELSE actual
Taken(payload) ==
    LET message == from_bytes(payload)
    IN  IF message.service = "UPDATE" /\ message.method \in SetterMethods
        THEN took \cup {<<message.method, field(message, "address"),
                         field(message, ValueField(message.method))>>}
        ELSE took
Answer(payload) ==
    IF payload.service = "UPDATE" THEN [payload EXCEPT !.service = "RESPONSE_UPDATE"]
    ELSE LET k == KeyOf(from_bytes(payload)) IN Message("RESPONSE_REQUEST", k, Actual(k))

\* The history of what keeps a state from showing a value: it ends once the
\* value is shown, and begins with what a step does.
Settle(st, begins(_)) ==
    cause' = [k \in DOMAIN cause |->
                IF Shows(st, k) = {actual'[k]} THEN {} ELSE cause[k] \cup begins(k)]

Nothing(k) == {}

\* The gateway executes a command whose caller has given up.
Serve ==
    /\ commands # <<>> /\ link = "up"
    /\ actual' = Executed(Head(commands))
    /\ took' = Taken(Head(commands))
    /\ Unmatched(Answer(Head(commands)))
    /\ commands' = Tail(commands)
    /\ Settle(state, Nothing)
    /\ UNCHANGED <<inventory, link, controller, tasks, confirmed, history, calls,
                   events>>

\* An exchange times out: its command is late or lost.
GivenUp(command) ==
    /\ events < MaxEvents /\ events' = events + 1
    /\ commands' \in {commands, Append(commands, command)}
    /\ UNCHANGED actual

\* set_reporting_state() returns the response, or None.
ReportingCommand(enabled) ==
    to_bytes(create("UPDATE", "REPORTING_STATE", ReportingStateFields(enabled)))
Responses(enabled) == {Answer(ReportingCommand(enabled)), None}

set_reporting_state(enabled, response) ==
    \/ /\ response # None /\ commands = <<>>
       /\ actual' = Executed(ReportingCommand(enabled))
       /\ UNCHANGED <<commands, events>>
    \/ response = None /\ GivenUp(ReportingCommand(enabled))

\* Its last call before close(), whose outcome is not waited for by anybody.
LastReportingCommand(enabled) ==
    /\ actual' \in {actual, Executed(ReportingCommand(enabled))}
    /\ commands' = <<>>
    /\ link' = "down"

-----------------------------------------------------------------------------
(* The network *)

\* A value changes; the gateway reports it if reporting is on.
Reports(payload) ==
    IF actual[REPORTING] = 1 /\ link = "up"
    THEN Unmatched(payload) ELSE UNCHANGED <<backlog, queue>>

\* A flag, or whatever the field of one or two bytes has room for.
FlagMethods == {"REPORTING_STATE", "SETBACK_ENABLE", "SETPOINT_GROUP_ENABLE"}
Room(method) ==
    IF method \in FlagMethods THEN 2
    ELSE IF Last(METHOD_SPECS[method]).size = 1 THEN 256 ELSE 65536

Change(k) ==
    /\ events < MaxEvents /\ events' = events + 1
    /\ k # REPORTING
    /\ k[2] \in GATEWAY_METHODS \/ k[1] \in Addresses(inventory)
    /\ actual' = [actual EXCEPT ![k] = (@ + 1) % Room(k[2])]
    /\ Reports(Message("REPORT", k, actual'[k]))
    /\ Settle(state, LAMBDA j : IF j = k /\ backlog' = backlog THEN {"unreported"} ELSE {})
    /\ UNCHANGED <<inventory, commands, link, controller, tasks, sets, history, calls>>

\* Devices are attached, removed or replaced.
Topology(devices) ==
    /\ events < MaxEvents /\ events' = events + 1
    /\ devices # inventory /\ inventory' = devices
    /\ Reports(to_bytes(create("REPORT", "TAKING_ADDRESS", <<>>)))
    /\ UNCHANGED <<actual, commands, link, controller, tasks, sets, cause, history,
                   calls>>

\* The connection is lost, and with it the commands that are late.
LinkFails ==
    /\ link = "up" /\ events < MaxEvents /\ events' = events + 1
    /\ link' = "lost" /\ commands' = <<>>
    /\ UNCHANGED <<inventory, actual, backlog, queue, controller, tasks, sets, cause,
                   history, calls>>

-----------------------------------------------------------------------------
(* The report loop *)

\* Mutant: only what the listeners wait for is told.
TellOnce(data) == told' = IF told = None THEN data ELSE told

\* _notify_state() calls the listeners with the whole data.
_notify_state(data) == told' = data

\* A value of a device that the state does not know, or has no snapshot of.
Unknown(k) ==
    /\ k[2] \notin GATEWAY_METHODS
    /\ \/ k[1] \notin Addresses(state.discovery)
       \/ \A i \in DOMAIN state.data.devices : state.data.devices[i].info.address # k[1]

\* _handle_message(): the next message of the subscription.  A topology message
\* only goes to the topology listeners.
Handle ==
    /\ loop = "reading" /\ queue # <<>>
    /\ UNCHANGED network
    /\ LET message == from_bytes(Head(queue))
           after == Applied(state, message)
       IN  IF is_topology_message(message) \/ after = state
           THEN /\ UNCHANGED <<state, told, untold>>
                /\ Settle(state, LAMBDA k :
                    IF KeyOf(message) = k /\ Unknown(k) THEN {"ignored"} ELSE {})
           ELSE /\ state' = after
                /\ _notify_state(after.data)
                /\ untold' = FALSE
                /\ Settle(after, LAMBDA k :
                    IF KeyOf(message) = k /\ Shows(state, k) \in {{}, {actual[k]}}
                    THEN {"replayed"}
                    ELSE IF Shows(state, k) = {actual[k]} /\ Shows(after, k) = {}
                    THEN {"forgotten"} ELSE {})
    /\ queue' = Tail(queue)
    /\ UNCHANGED <<link, backlog, running, loop, discovery, tasks, sets,
                   raced, halfway, calls, events>>

\* The subscription ends with the connection: the loop closes the client, waits
\* and opens it again.
Reconnect ==
    /\ link = "lost" /\ (loop = "opened" \/ (loop = "reading" /\ queue = <<>>))
    /\ loop' = "opened" /\ link' = "up"
    /\ UNCHANGED <<network, backlog, queue, running, discovery, state, told, tasks,
                   sets, cause, history, calls, events>>

\* It enables reporting, with nobody to apply the response, and subscribes.
Resubscribe ==
    /\ loop = "opened" /\ link = "up"
    /\ \E response \in Responses(TRUE) : set_reporting_state(TRUE, response)
    /\ loop' = "reading" /\ queue' = backlog
    /\ Settle(state, LAMBDA k : IF k = REPORTING THEN {"unanswered"} ELSE {})
    /\ UNCHANGED <<inventory, link, backlog, running, discovery, state, told, tasks,
                   sets, history, calls>>

-----------------------------------------------------------------------------
(* The application: start(), rediscover(), refresh_runtime() and stop() *)

Operations == {"start", "rediscover", "refresh", "stop"}
ASSUME OperationAssumption == None \notin Operations

Goto(t, point) == pc' = [pc EXCEPT ![t] = point]

Calls(t, operation) ==
    /\ pc[t] = "idle" /\ calls < MaxCalls /\ calls' = calls + 1
    /\ op' = [op EXCEPT ![t] = operation]
    /\ UNCHANGED <<network, backlog, told, sets, history, events>>

Return(t) ==
    /\ Goto(t, "idle")
    /\ op' = [op EXCEPT ![t] = None]
    /\ paused' = [paused EXCEPT ![t] = FALSE]
    /\ target' = [target EXCEPT ![t] = None]
    /\ polled' = [polled EXCEPT ![t] = None]

\* start() and stop() are called one after the other.
StartsOrStops == \E t \in Apps : op[t] \in {"start", "stop"}

Start(t) ==
    /\ Calls(t, "start") /\ ~running /\ ~StartsOrStops
    /\ link' = "up"
    /\ paused' = [paused EXCEPT ![t] = TRUE]
    /\ Goto(t, "pause")
    /\ UNCHANGED <<queue, running, loop, discovery, state, target, polled, cause>>

Rediscover(t, pause_reporting) ==
    /\ Calls(t, "rediscover") /\ link = "up" /\ state # None
    /\ paused' = [paused EXCEPT ![t] = pause_reporting /\ running]
    /\ Goto(t, IF pause_reporting /\ running THEN "pause" ELSE "discover")
    /\ UNCHANGED <<link, queue, controller, target, polled, cause>>

\* The snapshot that a poll begins with.
Poll(t, devices) ==
    /\ target' = [target EXCEPT ![t] = devices]
    /\ polled' = [polled EXCEPT ![t] = [gateway |-> None, devices |-> <<>>]]
    /\ Goto(t, "gateway")

\* poll_runtime() is called with the discovery result of this moment.
RefreshRuntime(t) ==
    /\ Calls(t, "refresh") /\ link = "up"
    /\ IF discovery = None THEN Goto(t, "discover") /\ UNCHANGED <<target, polled>>
       ELSE Poll(t, discovery)
    /\ UNCHANGED <<link, queue, controller, paused, cause>>

Pause(t) ==
    /\ pc[t] = "pause" /\ link = "up"
    /\ \E response \in Responses(FALSE) :
        /\ set_reporting_state(FALSE, response)
        /\ Published(response)
        /\ Settle(state, LAMBDA k : IF k = REPORTING /\ (response = None \/ ~Subscribed)
                                   THEN {"unanswered"} ELSE {})
    /\ Goto(t, "discover")
    /\ UNCHANGED <<inventory, link, backlog, controller, op, paused, target, polled,
                   sets, history, calls>>

\* discover(), and the call of refresh_runtime() after it.
Discover(t) ==
    /\ pc[t] = "discover" /\ link = "up"
    /\ discovery' = inventory
    /\ halfway' = TRUE
    /\ Poll(t, inventory)
    /\ UNCHANGED <<network, session, running, loop, state, told, op, paused, sets,
                   cause, untold, raced, calls, events>>

\* The values that a poll gets: an exchange about a watched value may time out,
\* and its late answer answers nothing.
Values(keys, got) ==
    \/ /\ commands = <<>>
       /\ got = [k \in keys |-> Actual(k)]
       /\ UNCHANGED <<commands, events, actual>>
    \/ \E lost \in keys \cap Watched :
       /\ GivenUp(Message("REQUEST", lost, 0))
       /\ got = [k \in keys |-> IF k = lost THEN None ELSE Actual(k)]

\* The values of the gateway that are one number each.
PolledMethods == GATEWAY_METHODS \ {"DATE_TIME", "SETPOINT_GROUP_ENABLE"}
GatewayKeys ==
    {Key(0, method) : method \in PolledMethods}
        \cup {Key(id, "SETPOINT_GROUP_ENABLE") : id \in Groups}

\* What is watched are numbers that a state shows; reporting is one of them.
ASSUME WatchedAssumption ==
    /\ Groups \subseteq 1 .. 12 /\ REPORTING \in Watched
    /\ Watched \subseteq GatewayKeys \cup (Address \X DEVICE_VALUE_METHODS)

\* GatewaySnapshot, with the date and time, which include_datetime asks for by
\* default: it is not watched, and is zero until it is reported.
GatewaySnapshot(got) ==
    [method \in GATEWAY_METHODS |->
        CASE method \in PolledMethods -> got[Key(0, method)]
          [] method = "SETPOINT_GROUP_ENABLE" ->
                [id \in Groups |-> got[Key(id, "SETPOINT_GROUP_ENABLE")]]
          [] OTHER -> 0]

\* The possible results of an exchange about some keys.
Results(keys) ==
    LET all == [k \in keys |-> Actual(k)]
    IN  {all} \cup {[all EXCEPT ![lost] = None] : lost \in keys \cap Watched}

poll_gateway(t) ==
    /\ pc[t] = "gateway" /\ link = "up"
    /\ \E got \in Results(GatewayKeys) :
        /\ Values(GatewayKeys, got)
        /\ polled' = [polled EXCEPT ![t].gateway = GatewaySnapshot(got)]
    /\ Goto(t, IF target[t] = <<>> THEN "refreshed" ELSE "device")
    /\ UNCHANGED <<inventory, session, controller, op, paused, target, sets, cause,
                   history, calls>>

\* DeviceSnapshot; a device that is gone does not answer.
DeviceSnapshot(d, methods, got) ==
    [info |-> d,
     values |-> [method \in methods |->
                    IF method \in SETPOINT_METHODS THEN Slots
                    ELSE IF d.address \notin Addresses(inventory) THEN None
                    ELSE got[Key(d.address, method)]]]

_dump_device_snapshot(t) ==
    /\ pc[t] = "device" /\ link = "up"
    /\ LET d == target[t][Len(polled[t].devices) + 1]
           methods == Polled(d, protocol_version)
           keys == {Key(d.address, method) : method \in methods \ SETPOINT_METHODS}
       IN  \E got \in Results(keys) :
            /\ Values(keys, got)
            /\ polled' = [polled EXCEPT ![t].devices = Append(@, DeviceSnapshot(d, methods, got))]
    /\ Goto(t, IF Len(polled[t].devices) + 1 = Len(target[t]) THEN "refreshed" ELSE "device")
    /\ UNCHANGED <<inventory, session, controller, op, paused, target, sets, cause,
                   history, calls>>

\* Mutant: the state keeps the devices that were known before.
InstallOldTopology(t) ==
    [discovery |-> IF state = None THEN discovery ELSE state.discovery, data |-> polled[t]]

\* Tekmar482State(): what was polled, and the discovery result of this moment.
Installed(t) == [discovery |-> discovery, data |-> polled[t]]

\* The end of refresh_runtime().  A rediscover() that did not pause reporting
\* notifies, a refresh_runtime() does not.
Install(t) ==
    /\ pc[t] = "refreshed"
    /\ state' = Installed(t)
    /\ raced' = (discovery # target[t])
    /\ halfway' = FALSE
    /\ IF op[t] = "rediscover" /\ ~paused[t]
       THEN _notify_state(state'.data) /\ untold' = FALSE
       ELSE UNCHANGED told /\ untold' = TRUE
    /\ IF paused[t]
       THEN Goto(t, "enable") /\ UNCHANGED <<op, paused, target, polled>>
       ELSE Return(t)
    /\ UNCHANGED actual
    /\ Settle(state', LAMBDA k : IF None \in Shows(state', k) THEN {"unpolled"}
                                ELSE IF Shows(state, k) = {actual[k]} THEN {"overwritten"} ELSE {})
    /\ UNCHANGED <<inventory, commands, session, running, loop, discovery, sets, calls,
                   events>>

\* Reporting is enabled again and the response, if there is one, applied; start()
\* lets the report loop subscribe.
Enable(t) ==
    /\ pc[t] = "enable" /\ link = "up"
    /\ \E response \in Responses(TRUE) :
        /\ set_reporting_state(TRUE, response)
        /\ state' = IF response = None THEN state ELSE Applied(state, from_bytes(response))
        /\ IF op[t] = "start"
           THEN running' = TRUE /\ loop' = "reading" /\ queue' = backlog
           ELSE Published(response) /\ UNCHANGED <<running, loop>>
        /\ Settle(state', LAMBDA k :
                IF k = REPORTING /\ response = None THEN {"unanswered"} ELSE {})
    /\ _notify_state(state'.data) /\ untold' = FALSE
    /\ Return(t)
    /\ UNCHANGED <<inventory, link, backlog, discovery, sets, raced, halfway, calls>>

\* An exception: the connection is lost, or the task is cancelled.  Reporting is
\* enabled again if the code has noted that it is off and the client is open;
\* a start() closes the client.
Noted(t) == paused[t] /\ pc[t] # "pause" /\ (op[t] = "rediscover" => pc[t] # "enable")
InFlight(t) ==
    CASE pc[t] = "pause" -> {<<ReportingCommand(FALSE)>>, <<>>}
      [] pc[t] = "enable" -> {<<ReportingCommand(TRUE)>>, <<>>}
      [] OTHER -> {<<>>}

Fails(t) ==
    /\ pc[t] \in {"pause", "discover", "gateway", "device", "refreshed", "enable"}
    /\ \/ link # "up" /\ pc[t] # "refreshed" /\ UNCHANGED <<events, commands>>
       \/ /\ events < MaxEvents /\ events' = events + 1
          /\ \E late \in InFlight(t) : commands' = IF link = "up" THEN commands \o late
                                                   ELSE commands
    /\ IF Noted(t) /\ link = "up"
       THEN Goto(t, "restore") /\ UNCHANGED <<op, paused, target, polled, link>>
       ELSE Return(t) /\ link' = IF op[t] = "start" THEN "down" ELSE link
    /\ UNCHANGED <<inventory, actual, backlog, queue, controller, sets, cause, history,
                   calls>>

\* The response is not applied, but published as any.
Restore(t) ==
    /\ pc[t] = "restore"
    /\ \/ /\ link = "up" /\ op[t] = "rediscover"
          /\ \E response \in Responses(TRUE) :
                /\ set_reporting_state(TRUE, response)
                /\ Published(response)
                /\ Settle(state, LAMBDA k : IF k = REPORTING /\ (response = None \/ ~Subscribed)
                                           THEN {"unanswered"} ELSE {})
          /\ UNCHANGED link
       \/ /\ link = "up" /\ op[t] = "start"
          /\ LastReportingCommand(TRUE)
          /\ Settle(state, LAMBDA k : IF k = REPORTING THEN {"unanswered"} ELSE {})
          /\ UNCHANGED <<queue, events>>
       \/ /\ link # "up"
          /\ link' = IF op[t] = "start" THEN "down" ELSE link
          /\ UNCHANGED <<actual, commands, queue, cause, events>>
    /\ Return(t)
    /\ UNCHANGED <<inventory, backlog, controller, sets, history, calls>>

\* Mutant: the task of the report loop is not cancelled.
StopDetached(t) ==
    /\ Calls(t, "stop") /\ running /\ ~StartsOrStops
    /\ running' = FALSE
    /\ Goto(t, "close")
    /\ UNCHANGED <<link, queue, loop, discovery, state, paused, target, polled, cause>>

\* stop() ends the report loop, then disables reporting and closes the client.
Stop(t) ==
    /\ Calls(t, "stop") /\ running /\ ~StartsOrStops
    /\ running' = FALSE /\ loop' = "none" /\ queue' = <<>>
    /\ Settle(state, LAMBDA k :
            IF \E i \in DOMAIN queue : KeyOf(from_bytes(queue[i])) = k THEN {"dropped"} ELSE {})
    /\ Goto(t, "close")
    /\ UNCHANGED <<link, discovery, state, paused, target, polled>>

Close(t) ==
    /\ pc[t] = "close"
    /\ \/ link = "up" /\ LastReportingCommand(FALSE)
       \/ link # "up" /\ link' = "down" /\ UNCHANGED <<actual, commands>>
    /\ Settle(state, LAMBDA k : IF k = REPORTING THEN {"unanswered"} ELSE {})
    /\ Return(t)
    /\ UNCHANGED <<inventory, backlog, queue, controller, sets, history, calls, events>>

-----------------------------------------------------------------------------
(* The setters of Tekmar482DeviceHandle *)

ThaSetback_CURRENT == 7
DeviceMode == {0, 1, 2, 3, 4, 6}

DegEMethods == {"HEAT_SETPOINT", "COOL_SETPOINT", "SLAB_SETPOINT"}

\* Nobody asks for the temperatures that stand for "not available", 127.5 degrees
\* of a setpoint and 3575.8 degrees of a target: they would be confirmed.
ASSUME SettingAssumption ==
    \A setting \in Settings :
        /\ setting[1] \in SetterMethods /\ setting[2] \in Int
        /\ setting[1] \in DegEMethods => celsius_to_dege(setting[2]) # NA_8
        /\ setting[1] = "SETPOINT_DEVICE" => celsius_to_degh(setting[2]) # NA_16

_validate_percent(percent) == percent \in 0 .. 100

\* The fields that the client makes of the value for each setter.
SetpointPayload(address, celsius) ==
    SetbackSetpointFields(address, celsius_to_dege(celsius), ThaSetback_CURRENT)
TargetPayload(address, celsius) ==
    SetbackTemperatureFields(address, celsius_to_degh(celsius), ThaSetback_CURRENT)
FanPayload(address, percent) ==
    SetbackPercentFields(address, percent, ThaSetback_CURRENT)

Payload(method, address, value) ==
    CASE method \in DegEMethods -> SetpointPayload(address, value)
      [] method = "SETPOINT_DEVICE" -> TargetPayload(address, value)
      [] method = "FAN_PERCENT" -> FanPayload(address, value)
      [] method = "MODE_SETTING" -> ModeSettingFields(address, value)

\* The values that the client refuses.
Accepted(method, value) ==
    /\ method = "FAN_PERCENT" => _validate_percent(value)
    /\ method = "MODE_SETTING" => value \in DeviceMode

\* _require_support() consults the discovery result of the state, or the
\* controller's own as long as there is no state.
_require_support(address, method) ==
    LET devices == IF state # None THEN state.discovery ELSE discovery
    IN  /\ devices # None
        /\ \E i \in DOMAIN devices : /\ devices[i].address = address
                                    /\ device_supports_method(devices[i], method)

\* A setter, with the confirmation that is its default.  Nothing checks that a
\* setpoint fits the byte it is packed into: the echo of one that does not is
\* another value, which confirms nothing.
SetLatest(t, method, address, value) ==
    LET fields == Payload(method, address, value)
        command == create("UPDATE", method, fields)
        match == for_command(command, address, fields)
        pending == Append(commands, to_bytes(command))
        confirms(payload) == matches(match, from_bytes(Answer(payload)))
    IN  /\ pc[t] = "idle" /\ calls < MaxCalls /\ calls' = calls + 1
        /\ link = "up" /\ _require_support(address, method) /\ Accepted(method, value)
        /\ \/ \* the first answer confirms it
              /\ address \in Addresses(inventory)
              /\ confirms(Head(pending))
              /\ commands' = Tail(pending)
              /\ actual' = Executed(Head(pending))
              /\ took' = Taken(Head(pending))
              /\ confirmed' = confirmed \cup {<<method, address, value>>}
              /\ Published(Answer(Head(pending)))
              /\ Settle(state, LAMBDA k :
                    IF k = Key(address, method) /\ ~Subscribed THEN {"unanswered"} ELSE {})
              /\ UNCHANGED events
           \/ \* no answer confirms it in time
              /\ IF confirms(to_bytes(command)) /\ address \in Addresses(inventory)
                 THEN GivenUp(to_bytes(command))
                 ELSE /\ commands' = IF address \in Addresses(inventory) THEN pending
                                     ELSE commands
                      /\ UNCHANGED <<actual, events>>
              /\ UNCHANGED <<took, confirmed, queue, cause>>
        /\ UNCHANGED <<inventory, link, backlog, controller, tasks, history>>

-----------------------------------------------------------------------------
Init ==
    /\ inventory \in Inventories
    /\ actual = [k \in Watched |-> 0]
    /\ commands = <<>> /\ link = "down" /\ backlog = <<>> /\ queue = <<>>
    /\ running = FALSE /\ loop = "none"
    /\ discovery = None /\ state = None /\ told = None
    /\ pc = [t \in Apps |-> "idle"] /\ op = [t \in Apps |-> None]
    /\ paused = [t \in Apps |-> FALSE]
    /\ target = [t \in Apps |-> None] /\ polled = [t \in Apps |-> None]
    /\ confirmed = {} /\ took = {}
    /\ cause = [k \in Watched |-> {}]
    /\ untold = TRUE /\ raced = FALSE /\ halfway = TRUE
    /\ calls = 0 /\ events = 0

Environment ==
    \/ Serve \/ LinkFails
    \/ \E k \in Watched : Change(k)
    \/ \E devices \in Inventories : Topology(devices)

Loop == Handle \/ Reconnect \/ Resubscribe

App(t) ==
    \/ Start(t) \/ Stop(t) \/ Close(t) \/ RefreshRuntime(t)
    \/ \E pause_reporting \in BOOLEAN : Rediscover(t, pause_reporting)
    \/ Pause(t) \/ Discover(t) \/ poll_gateway(t) \/ _dump_device_snapshot(t)
    \/ Install(t) \/ Enable(t) \/ Fails(t) \/ Restore(t)
    \/ \E address \in UNION {Addresses(devices) : devices \in Inventories},
          setting \in Settings : SetLatest(t, setting[1], address, setting[2])

Next == Environment \/ Loop \/ \E t \in Apps : App(t)

Spec == Init /\ [][Next]_vars

-----------------------------------------------------------------------------
(* Properties *)

\* The payloads of messages, and those of commands.
Payloads == [service : TrpcService, method : DOMAIN METHOD_SPECS, body : Seq(Byte)]
Commands ==
    {payload \in Payloads :
        \/ payload.service = "REQUEST" /\ METHOD_SPECS[payload.method] # <<>>
        \/ payload.service = "UPDATE" /\ payload.method \in SetterMethods \cup {"REPORTING_STATE"}}

\* The state of the controller, its session and its tasks has the form that the
\* code gives it; a task that is idle holds nothing, and one that polls has got
\* snapshots of the first of the devices that it polls (controller.py:116-212).
TypeOK ==
    /\ inventory \in Inventories /\ actual \in [Watched -> Nat]
    /\ commands \in Seq(Commands) /\ queue \in Seq(Payloads) /\ backlog \in Seq(Payloads)
    /\ link \in {"up", "lost", "down"} /\ loop \in {"none", "opened", "reading"}
    /\ running = (loop # "none")
    /\ discovery \in Inventories \cup {None}
    /\ state # None => state.discovery \in Inventories
    /\ \A t \in Apps :
        /\ op[t] \in Operations \cup {None}
        /\ (pc[t] = "idle") = (op[t] = None)
        /\ pc[t] = "idle" => ~paused[t] /\ polled[t] = None
        /\ pc[t] \in {"gateway", "device", "refreshed"} =>
            /\ target[t] \in Inventories
            /\ \A i \in DOMAIN polled[t].devices : polled[t].devices[i].info = target[t][i]

Idle == \A t \in Apps : pc[t] = "idle"

\* Nothing is on its way to the state of a running controller.
Settled ==
    /\ loop = "reading" /\ link = "up" /\ queue = <<>> /\ commands = <<>>
    /\ Idle

\* Once everything on its way has been handled, the state of a running
\* controller shows the present value of everything it has, unless, since it did
\* so last, the value changed while it was not reported, a message about it came
\* for a device that was not known, an old message was replayed over it or into a
\* place without a value, another message dropped the snapshot of a device that
\* is no longer known, stop() dropped the messages that were queued, a refresh put
\* an older value in its place or got none, or a response that carried it was
\* lost or not applied (controller.py:130-141, 174-181, 193, 219-226;
\* state.py:172-301).
StateIsCurrent ==
    Settled => \A k \in Watched :
        Shows(state, k) \in {{}, {actual[k]}} \/ cause[k] # {}

\* What the listeners were last called with is the data of the state, unless a
\* refresh_runtime() on its own, or a start() or rediscover() that has failed or
\* is under way, has put it there (controller.py:181, 207-212, 248-252).
ListenersInformed == state # None /\ ~untold => told = state.data

\* The snapshots of the state are those of the devices it knows, in their order,
\* unless the devices were rediscovered by another task during the poll; they are
\* those of the last discovery unless that has not been polled; and a device
\* whose handle accepts a setter has a value for it, unless the snapshot is of
\* another device that was at its address before (controller.py:174-181, 196-200,
\* 392-396; client.py:639-812; state.py:84-119, 257-289).
OneTopology ==
    state # None =>
        /\ halfway \/ state.discovery = discovery
        /\ raced \/ state.discovery = [i \in DOMAIN state.data.devices |->
                                            state.data.devices[i].info]
        /\ \A snapshot \in ToSet(state.data.devices) :
            snapshot.info \in ToSet(state.discovery) =>
                \A method \in SetterMethods \ DOMAIN snapshot.values :
                    ~_require_support(snapshot.info.address, method)

\* What a device has been given is what was asked for: a setpoint to half a degE,
\* a target to half a degH, and neither of them "not available".
Accurate(method, given, asked) ==
    CASE method \in DegEMethods ->
            dege_to_celsius(given) # None /\ dege_to_celsius(given) - asked \in -1 .. 1
      [] method = "SETPOINT_DEVICE" ->
            degh_to_celsius(given) # None /\ degh_to_celsius(given) - 9 * asked \in -1 .. 1
      [] OTHER -> given = asked

\* A device whose value a caller was told is set has been given what the caller
\* asked for, although commands given up by other callers are answered late and
\* nothing checks that a value fits its field (controller.py:286-390;
\* client.py:955-1287; trpc.py:514-516, 604-657; units.py:16-50).
ConfirmedAsAsked ==
    \A asked \in confirmed : \E given \in took :
        /\ given[1] = asked[1] /\ given[2] = asked[2]
        /\ Accurate(asked[1], given[3], asked[3])

=============================================================================

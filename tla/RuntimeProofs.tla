---------------------------- MODULE RuntimeProofs ----------------------------
(***************************************************************************)
(* For every network, application and number of tasks, calls and events:   *)
(* what the listeners have been told of, which devices the handles         *)
(* consult, that the state is about one topology, and the types.  The      *)
(* state is replaced by Install, and its data by Handle and Enable; every  *)
(* other step leaves alone what the first two are about.  A poll takes     *)
(* snapshots of the devices it is about, in their order, and the reducer   *)
(* drops snapshots only of devices that are no longer known, which gives   *)
(* the third.  The types rest on those of the codec, whose layouts are     *)
(* folds over sequences.                                                   *)
(***************************************************************************)
EXTENDS Runtime, FiniteSetTheorems, WellFoundedInduction, TLAPS

\* The handles consult the discovery result that the controller shows, unless a
\* rediscover() that has failed or is under way has replaced the latter only
\* (controller.py:196-200, 392-396).
HandlesConsultDiscovery == state # None /\ ~halfway => state.discovery = discovery

\* A state is a discovery result and data.  (None may be anything.)
Form(st) == st = [discovery |-> st.discovery, data |-> st.data]

Points ==
    {"idle", "pause", "discover", "gateway", "device", "refreshed", "enable", "restore",
     "close"}

\* There is a state to apply a message to.
Seeded ==
    /\ pc \in [Apps -> Points]
    /\ loop # "none" => Form(state)
    /\ \A t \in Apps : pc[t] = "enable" => Form(state)

IInv ==
    /\ state # None => Form(state)
    /\ Form(state) /\ ~untold => told = state.data
    /\ Form(state) /\ ~halfway => state.discovery = discovery
    /\ Seeded

About == <<state, discovery, told, untold, halfway>>

-----------------------------------------------------------------------------
(* The parts of a step *)

\* The reducer replaces the data only.
LEMMA AppliedForm ==
    ASSUME NEW st, NEW message, Form(st)
    PROVE  /\ Applied(st, message).discovery = st.discovery
           /\ Form(Applied(st, message))
<1> DEFINE new == apply_message(st.discovery, st.data, message)
<1>1. Applied(st, message) = [st EXCEPT !.data = new]
    BY DEF Applied
<1> HIDE DEF new
<1>2. [st EXCEPT !.data = new] = [discovery |-> st.discovery, data |-> new]
    BY DEF Form
<1> QED  BY <1>1, <1>2 DEF Form

\* A task that goes anywhere but to the enabling of reports needs no state there.
LEMMA GotoSeeded ==
    ASSUME Seeded, NEW t \in Apps, NEW point \in Points, Goto(t, point),
           UNCHANGED <<loop, state>>, point = "enable" => Form(state)
    PROVE  Seeded'
BY DEF Seeded, Goto, Form

LEMMA ReturnSeeded ==
    ASSUME Seeded, NEW t \in Apps, Return(t), UNCHANGED <<loop, state>>
    PROVE  Seeded'
<1>1. Goto(t, "idle")
    BY DEF Return
<1> QED  BY <1>1, GotoSeeded DEF Points

LEMMA UntouchedPreserves ==
    ASSUME IInv, UNCHANGED About, Seeded'
    PROVE  IInv'
BY DEF IInv, About, Form

LEMMA SameControlSeeded ==
    ASSUME Seeded, UNCHANGED <<pc, loop, state>>
    PROVE  Seeded'
BY DEF Seeded, Form

-----------------------------------------------------------------------------
(* The steps *)

LEMMA InitSatisfies == Init => IInv
<1> SUFFICES ASSUME Init PROVE IInv
    OBVIOUS
<1>1. state = None /\ untold /\ halfway /\ loop = "none"
    BY DEF Init
<1>2. pc = [t \in Apps |-> "idle"]
    BY DEF Init
<1>3. Seeded
    BY <1>1, <1>2 DEF Seeded, Points
<1> QED  BY <1>1, <1>3 DEF IInv

LEMMA EnvironmentPreserves ==
    ASSUME IInv, Environment
    PROVE  IInv'
<1>1. UNCHANGED <<About, pc, loop>>
    BY DEF Environment, Serve, LinkFails, Change, Topology, About, controller, history, tasks
<1>2. Seeded'
    BY <1>1, SameControlSeeded DEF IInv, About
<1> QED  BY <1>1, <1>2, UntouchedPreserves

\* What the report loop makes of a message is told to the listeners at once.
LEMMA HandlePreserves ==
    ASSUME IInv, Handle
    PROVE  IInv'
<1> DEFINE after == Applied(state, from_bytes(Head(queue)))
<1>1. Form(state)
    BY DEF IInv, Seeded, Handle
<1>2. after.discovery = state.discovery /\ Form(after)
    BY <1>1, AppliedForm
<1>3. discovery' = discovery /\ halfway' = halfway /\ pc' = pc /\ loop' = loop
    BY DEF Handle, tasks
<1>4. \/ UNCHANGED <<state, told, untold>>
      \/ state' = after /\ told' = after.data /\ untold' = FALSE
    BY DEF Handle, _notify_state
<1>5. CASE UNCHANGED <<state, told, untold>>
    <2>1. Seeded'
        BY <1>3, <1>5, SameControlSeeded DEF IInv
    <2> QED  BY <1>3, <1>5, <2>1, UntouchedPreserves DEF About
<1>6. CASE state' = after /\ told' = after.data /\ untold' = FALSE
    <2> HIDE DEF after
    <2>1. Seeded'
        BY <1>2, <1>3, <1>6 DEF IInv, Seeded
    <2> QED  BY <1>1, <1>2, <1>3, <1>6, <2>1 DEF IInv
<1> QED  BY <1>4, <1>5, <1>6

\* The loop goes on with the state it had.
LEMMA ReconnectPreserves ==
    ASSUME IInv, Reconnect \/ Resubscribe
    PROVE  IInv'
<1>1. UNCHANGED <<About, pc>> /\ loop # "none"
    BY DEF Reconnect, Resubscribe, About, history, tasks
<1>2. Seeded'
    BY <1>1 DEF IInv, Seeded, About, Form
<1> QED  BY <1>1, <1>2, UntouchedPreserves

\* refresh_runtime() replaces the state, and says so or leaves untold.
LEMMA InstallPreserves ==
    ASSUME IInv, NEW t \in Apps, Install(t)
    PROVE  IInv'
<1>1. state' = [discovery |-> discovery, data |-> polled[t]]
    BY DEF Install, Installed
<1>2. Form(state') /\ state'.discovery = discovery
    BY <1>1 DEF Form
<1>3. discovery' = discovery /\ loop' = loop
    BY DEF Install
<1>4. untold' = TRUE \/ told' = state'.data
    BY DEF Install, _notify_state
<1>5. pc' \in [Apps -> Points]
    <2>1. pc \in [Apps -> Points]
        BY DEF IInv, Seeded
    <2>2. Goto(t, "enable") \/ Goto(t, "idle")
        BY DEF Install, Return
    <2> QED  BY <2>1, <2>2 DEF Goto, Points
<1>6. Seeded'
    BY <1>2, <1>5 DEF Seeded
<1> QED  BY <1>2, <1>3, <1>4, <1>6 DEF IInv

\* The response to enabled=True is applied to a state that is there, and told.
LEMMA EnablePreserves ==
    ASSUME IInv, NEW t \in Apps, Enable(t)
    PROVE  IInv'
<1>1. Form(state)
    BY DEF Enable, IInv, Seeded
<1>2. PICK response \in Responses(TRUE) :
            state' = IF response = None THEN state ELSE Applied(state, from_bytes(response))
    BY DEF Enable
<1>3. Form(state') /\ state'.discovery = state.discovery
    BY <1>1, <1>2, AppliedForm
<1>4. told' = state'.data /\ discovery' = discovery /\ halfway' = halfway
    BY DEF Enable, _notify_state
<1>5. pc' \in [Apps -> Points]
    <2>1. pc \in [Apps -> Points]
        BY DEF IInv, Seeded
    <2>2. Goto(t, "idle")
        BY DEF Enable, Return
    <2> QED  BY <2>1, <2>2 DEF Goto, Points
<1>6. Seeded'
    BY <1>3, <1>5 DEF Seeded
<1> QED  BY <1>1, <1>3, <1>4, <1>6 DEF IInv

\* Every other step of a task leaves the state and what is known of it alone, but
\* Discover, which says that the devices are yet to be polled.
Restarts(t) == Start(t) \/ (\E pause \in BOOLEAN : Rediscover(t, pause)) \/ RefreshRuntime(t)
Polls(t) == Pause(t) \/ poll_gateway(t) \/ _dump_device_snapshot(t)
Ends(t) == Fails(t) \/ Restore(t) \/ Close(t)

LEMMA CallsPreserve ==
    ASSUME IInv, NEW t \in Apps, Restarts(t)
    PROVE  IInv'
<1>1. UNCHANGED <<About, loop>>
    BY DEF Restarts, Start, Rediscover, RefreshRuntime, Calls, About, controller, history
<1>2. \E point \in Points \ {"enable"} : Goto(t, point)
    <2>1. CASE Start(t)
        BY <2>1 DEF Start, Points
    <2>2. ASSUME NEW pause \in BOOLEAN, Rediscover(t, pause)
          PROVE  \E point \in Points \ {"enable"} : Goto(t, point)
        BY <2>2 DEF Rediscover, Points
    <2>3. CASE RefreshRuntime(t)
        BY <2>3 DEF RefreshRuntime, Poll, Points
    <2> QED  BY <2>1, <2>2, <2>3 DEF Restarts
<1>3. Seeded'
    BY <1>1, <1>2, GotoSeeded DEF IInv, About
<1> QED  BY <1>1, <1>3, UntouchedPreserves

LEMMA PollsPreserve ==
    ASSUME IInv, NEW t \in Apps, Polls(t)
    PROVE  IInv'
<1>1. UNCHANGED <<About, loop>>
    BY DEF Polls, Pause, poll_gateway, _dump_device_snapshot, About, controller, history
<1>2. \E point \in Points \ {"enable"} : Goto(t, point)
    BY DEF Polls, Pause, poll_gateway, _dump_device_snapshot, Points
<1>3. Seeded'
    BY <1>1, <1>2, GotoSeeded DEF IInv, About
<1> QED  BY <1>1, <1>3, UntouchedPreserves

LEMMA DiscoverPreserves ==
    ASSUME IInv, NEW t \in Apps, Discover(t)
    PROVE  IInv'
<1>1. UNCHANGED <<state, told, untold, loop>> /\ halfway' = TRUE
    BY DEF Discover
<1>2. Goto(t, "gateway")
    BY DEF Discover, Poll
<1>3. Seeded'
    BY <1>1, <1>2, GotoSeeded DEF IInv, Points
<1> QED  BY <1>1, <1>3 DEF IInv, Form

LEMMA EndsPreserve ==
    ASSUME IInv, NEW t \in Apps, Ends(t)
    PROVE  IInv'
<1>1. UNCHANGED <<About, loop>>
    BY DEF Ends, Fails, Restore, Close, About, controller, history
<1>2. Goto(t, "restore") \/ Goto(t, "idle")
    BY DEF Ends, Fails, Restore, Close, Return
<1>3. Seeded'
    BY <1>1, <1>2, GotoSeeded DEF IInv, About, Points
<1> QED  BY <1>1, <1>3, UntouchedPreserves

LEMMA StopPreserves ==
    ASSUME IInv, NEW t \in Apps, Stop(t)
    PROVE  IInv'
<1>1. UNCHANGED About /\ loop' = "none"
    BY DEF Stop, Calls, About, history
<1>2. Goto(t, "close")
    BY DEF Stop
<1>3. Seeded'
    BY <1>1, <1>2 DEF IInv, Seeded, Goto, About, Form, Points
<1> QED  BY <1>1, <1>3, UntouchedPreserves

\* A setter leaves alone the devices, the connection, the controller, what the
\* tasks are at, and the history of the state.
LEMMA SetterLeaves ==
    ASSUME NEW t, NEW method, NEW address, NEW value, SetLatest(t, method, address, value)
    PROVE  UNCHANGED <<inventory, link, backlog, controller, tasks, history>>
BY Zenon DEF SetLatest

\* Setting a value touches neither the state nor the control of any task.
LEMMA SetPreserves ==
    ASSUME IInv, NEW t \in Apps, NEW method, NEW address, NEW value,
           SetLatest(t, method, address, value)
    PROVE  IInv'
<1>1. UNCHANGED <<About, pc, loop>>
    BY SetterLeaves DEF About, controller, history, tasks
<1>2. Seeded'
    BY <1>1, SameControlSeeded DEF IInv, About
<1> QED  BY <1>1, <1>2, UntouchedPreserves

-----------------------------------------------------------------------------
LEMMA StepPreserves ==
    ASSUME IInv, [Next]_vars
    PROVE  IInv'
<1>1. CASE Environment
    BY <1>1, EnvironmentPreserves
<1>2. CASE Loop
    BY <1>2, HandlePreserves, ReconnectPreserves DEF Loop
<1>3. ASSUME NEW t \in Apps, App(t)
      PROVE  IInv'
    <2>1. \/ Restarts(t) \/ Polls(t) \/ Ends(t)
          \/ Discover(t) \/ Install(t) \/ Enable(t) \/ Stop(t)
          \/ \E method, address, value : SetLatest(t, method, address, value)
        BY <1>3 DEF App, Restarts, Polls, Ends
    <2> QED  BY <2>1, CallsPreserve, PollsPreserve, EndsPreserve, DiscoverPreserves,
                InstallPreserves, EnablePreserves, StopPreserves, SetPreserves
<1>4. CASE UNCHANGED vars
    <2>1. UNCHANGED <<About, pc, loop>>
        BY <1>4 DEF vars, About, controller, history, tasks
    <2>2. Seeded'
        BY <2>1, SameControlSeeded DEF IInv, About
    <2> QED  BY <2>1, <2>2, UntouchedPreserves
<1> QED  BY <1>1, <1>2, <1>3, <1>4 DEF Next

LEMMA Invariance == Spec => []IInv
<1>1. Init => IInv
    BY InitSatisfies
<1>2. IInv /\ [Next]_vars => IInv'
    BY StepPreserves
<1> QED  BY <1>1, <1>2, PTL DEF Spec

\* However many tasks refresh and rediscover while reports come in and exchanges
\* fail, what the listeners were last called with is the data of the state, unless
\* nobody has been told of that state (controller.py:248-252).
THEOREM ListenersAreInformed == Spec => []ListenersInformed
<1>1. IInv => ListenersInformed
    BY DEF IInv, ListenersInformed
<1> QED  BY <1>1, Invariance, PTL

\* The devices by which the handles judge are those last discovered, unless these
\* are yet to be polled.
THEOREM HandlesKnowTheDiscovered == Spec => []HandlesConsultDiscovery
<1>1. IInv => HandlesConsultDiscovery
    BY DEF IInv, HandlesConsultDiscovery
<1> QED  BY <1>1, Invariance, PTL

\* The report loop never applies a message before there is a state: the guard of
\* _handle_message for that case is never needed by the loop (controller.py:242-243).
THEOREM LoopHasState == Spec => [](loop # "none" => Form(state))
<1>1. IInv => (loop # "none" => Form(state))
    BY DEF IInv, Seeded
<1> QED  BY <1>1, Invariance, PTL

-----------------------------------------------------------------------------
(* What a device supports is decided twice: by device_supports_method, which a *)
(* handle asks before it sets a value, and by the poll, whose answers are the  *)
(* values that the state has.  Nothing in the code keeps the two in step.      *)

\* A handle accepts set_mode() for no device that is a setpoint control, by its
\* type or by its attributes (models.py: supports_mode_setting, kind).
LEMMA ModeExcludesSetpointDevice ==
    ASSUME NEW d, supports_mode_setting(d)
    PROVE  ~device_supports_method(d, "SETPOINT_DEVICE")
<1>1. ~supports_setpoint_device(d)
    BY DEF supports_mode_setting
<1> QED  BY <1>1 DEF device_supports_method, HumidityMethods

\* What a type code supports besides heat is what a thermostat has, except that a
\* setpoint control may cool (constants.py: DEVICE_FEATURES).
LEMMA TypeSupportsSomething ==
    ASSUME NEW code, NEW feature \in TypeSupports(code)
    PROVE  /\ feature \in {"heat", "cool", "fan", "humidity"}
           /\ code \in SetpointTypes \cup ThermostatTypes
<1>1. HumidityTypes \subseteq CoolingTypes /\ CoolingTypes \subseteq ThermostatTypes
    BY DEF CoolingTypes, ThermostatTypes
<1>2. 101102 \in SetpointTypes
    BY DEF SetpointTypes
<1> QED  BY <1>1, <1>2 DEF TypeSupports

-----------------------------------------------------------------------------
\* Whatever a device's type code and attributes, and whatever the protocol version
\* of its gateway: a setter that its handle accepts sets a value that is polled
\* from the device (controller.py: _require_support; state.py:
\* device_supports_method; client.py: _dump_device_snapshot).
THEOREM EverySetterHasAValue ==
    ASSUME NEW d, NEW version, NEW method \in SetterMethods,
           device_supports_method(d, method)
    PROVE  method \in Polled(d, version)
<1>1. CASE method = "HEAT_SETPOINT"
    <2>1. supports_heat_setpoint(d)
        BY <1>1 DEF device_supports_method, HumidityMethods
    <2> QED  BY <1>1, <2>1 DEF Polled
<1>2. CASE method = "COOL_SETPOINT"
    <2>1. supports_cool_setpoint(d)
        BY <1>2 DEF device_supports_method, HumidityMethods
    <2> QED  BY <1>2, <2>1 DEF Polled
<1>3. CASE method = "SLAB_SETPOINT"
    <2>1. supports_slab_setpoint(d)
        BY <1>3 DEF device_supports_method, HumidityMethods
    <2> QED  BY <1>3, <2>1 DEF Polled
<1>4. CASE method = "FAN_PERCENT"
    <2>1. supports_fan_percent(d)
        BY <1>4 DEF device_supports_method, HumidityMethods
    <2> QED  BY <1>4, <2>1 DEF Polled
<1>5. CASE method = "SETPOINT_DEVICE"
    <2>1. supports_setpoint_device(d)
        BY <1>5 DEF device_supports_method, HumidityMethods
    <2> QED  BY <1>5, <2>1 DEF Polled
<1>6. CASE method = "MODE_SETTING"
    <2>1. supports_mode_setting(d)
        BY <1>6 DEF device_supports_method, HumidityMethods
    <2> QED  BY <1>6, <2>1 DEF Polled
<1> QED  BY <1>1, <1>2, <1>3, <1>4, <1>5, <1>6 DEF SetterMethods

\* A device of a known type that is neither a thermostat nor a setpoint control, a
\* snowmelt control, accepts no setter unless its attributes claim the value: its
\* type alone supports nothing (constants.py: DEVICE_FEATURES).
THEOREM SnowmeltAcceptsNothing ==
    ASSUME NEW d, d.type_code \in SnowmeltTypes, d.attributes = {},
           NEW method \in SetterMethods
    PROVE  ~device_supports_method(d, method)
<1>1. d.type_code \notin SetpointTypes \cup ThermostatTypes
    BY DEF SnowmeltTypes, SetpointTypes, ThermostatTypes, HeatingTypes, CoolingTypes,
           HumidityTypes
<1>2. TypeSupports(d.type_code) = {}
    BY <1>1, TypeSupportsSomething
<1>3. kind(d) = "snowmelt"
    <2>1. d.type_code \in SnowmeltTypes /\ d.type_code \in Types
        BY DEF Types
    <2> QED  BY <1>1, <2>1, SMT DEF kind
<1>4. ~supports_mode_setting(d)
    BY <1>3 DEF supports_mode_setting
<1>5. /\ ~supports_heat_setpoint(d) /\ ~supports_cool_setpoint(d)
      /\ ~supports_slab_setpoint(d) /\ ~supports_fan_percent(d)
      /\ ~supports_setpoint_device(d)
    BY <1>1, <1>2 DEF supports_heat_setpoint, supports_cool_setpoint,
        supports_slab_setpoint, supports_fan_percent, supports_setpoint_device
<1> QED  BY <1>4, <1>5 DEF device_supports_method, SetterMethods, HumidityMethods

-----------------------------------------------------------------------------
(* The positions of a sequence in their order *)

\* A set of natural numbers has a least one.
LEMMA LeastNatural ==
    ASSUME NEW T \in SUBSET Nat, T # {}
    PROVE  \E least \in T : \A n \in T : least <= n
<1> DEFINE less == OpToRel(<, Nat)
<1>1. IsWellFoundedOn(less, Nat)
    BY NatLessThanWellFounded
<1>2. \A n, m \in Nat : n < m => <<n, m>> \in less
    BY DEF OpToRel
<1> HIDE DEF less
<1>3. PICK least \in T : \A n \in T : <<n, least>> \notin less
    BY <1>1, WFMin
<1>4. ASSUME NEW n \in T
      PROVE  least <= n
    <2>1. n \in Nat /\ least \in Nat
        OBVIOUS
    <2>2. ~(n < least)
        BY <1>2, <1>3, <2>1
    <2> QED  BY <2>1, <2>2
<1> QED  BY <1>4

\* Induction over the natural numbers, for a set of them.
LEMMA SetOfNaturalsInduction ==
    ASSUME NEW S, 0 \in S, \A n \in Nat : n \in S => n + 1 \in S
    PROVE  Nat \subseteq S
<1> DEFINE Rest == Nat \ S
<1> SUFFICES ASSUME Rest # {} PROVE FALSE
    OBVIOUS
<1>1. Rest \in SUBSET Nat
    OBVIOUS
<1>2. PICK least \in Rest : \A n \in Rest : least <= n
    BY <1>1, LeastNatural
<1>3. least # 0 /\ least - 1 \in Nat /\ (least - 1) + 1 = least
    BY <1>2
<1>4. least - 1 \in S
    BY <1>2, <1>3
<1> QED  BY <1>3, <1>4

Increasing(s) == \A i, j \in DOMAIN s : i < j => s[i] < s[j]

\* The only increasing sequence of n positions out of n is that of all of them.
LEMMA IncreasingIsIdentity ==
    ASSUME NEW n \in Nat, NEW s \in [1 .. n -> 1 .. n], Increasing(s)
    PROVE  s = [i \in 1 .. n |-> i]
<1> DEFINE Low == {i \in 1 .. n : s[i] < i}
           High == {k \in 1 .. n : s[n + 1 - k] > n + 1 - k}
<1>1. \A i \in 1 .. n : s[i] \in 1 .. n
    OBVIOUS
<1>2. \A i, j \in 1 .. n : i < j => s[i] < s[j]
    BY DEF Increasing
<1>3. Low = {}
    <2> SUFFICES ASSUME Low # {} PROVE FALSE
        OBVIOUS
    <2>1. Low \in SUBSET Nat
        OBVIOUS
    <2>2. PICK i \in Low : \A j \in Low : i <= j
        BY <2>1, LeastNatural
    <2>3. s[i] \in 1 .. n /\ s[i] < i
        BY <1>1
    <2>4. s[i] \notin Low
        BY <2>2, <2>3
    <2>5. s[s[i]] >= s[i]
        BY <1>1, <2>3, <2>4
    <2> QED  BY <1>1, <1>2, <2>3, <2>5
<1>4. High = {}
    <2> SUFFICES ASSUME High # {} PROVE FALSE
        OBVIOUS
    <2>1. High \in SUBSET Nat
        OBVIOUS
    <2>2. PICK k \in High : \A j \in High : k <= j
        BY <2>1, LeastNatural
    <2>3. PICK i \in 1 .. n : i = n + 1 - k /\ s[i] > i
        OBVIOUS
    <2>4. PICK j \in 1 .. n : j = s[i]
        BY <1>1
    <2>5. k = n + 1 - i /\ k \in 1 .. n
        BY <2>3
    <2>6. j > i
        BY <2>3, <2>4
    <2>7. PICK m \in 1 .. n : m = n + 1 - j
        BY <2>4
    <2>8. m < k /\ j = n + 1 - m
        BY <2>5, <2>6, <2>7
    <2>9. m \notin High
        BY <2>2, <2>5, <2>8
    <2>10. ~(s[j] > j)
        BY <2>8, <2>9
    <2>11. s[i] < s[j]
        BY <1>2, <2>6
    <2> QED  BY <1>1, <2>4, <2>10, <2>11
<1>5. \A i \in 1 .. n : s[i] = i
    <2> SUFFICES ASSUME NEW i \in 1 .. n PROVE s[i] = i
        OBVIOUS
    <2>0. i \notin Low
        BY <1>3
    <2>1. s[i] >= i
        BY <1>1, <2>0
    <2>2. n + 1 - i \in 1 .. n /\ n + 1 - (n + 1 - i) = i
        OBVIOUS
    <2> DEFINE k == n + 1 - i
    <2>3. k \notin High
        BY <1>4
    <2>4. ~(s[n + 1 - k] > n + 1 - k)
        BY <2>2, <2>3
    <2>5. s[i] <= i
        BY <1>1, <2>2, <2>4
    <2> QED  BY <1>1, <2>1, <2>5
<1> QED  BY <1>5

\* Every set of positions has such a sequence.
LEMMA IncreasingExists ==
    ASSUME NEW n \in Nat, NEW P \in SUBSET (1 .. n)
    PROVE  \E s \in [1 .. Cardinality(P) -> P] : Increasing(s)
<1> DEFINE Ordered(Q) == \E s \in [1 .. Cardinality(Q) -> Q] : Increasing(s)
           S == {m \in Nat : \A Q \in SUBSET (1 .. m) : Ordered(Q)}
<1>1. 0 \in S
    <2> SUFFICES ASSUME NEW Q \in SUBSET (1 .. 0) PROVE Ordered(Q)
        OBVIOUS
    <2>1. Q = {}
        OBVIOUS
    <2>2. Cardinality(Q) = 0
        BY <2>1, FS_EmptySet
    <2>3. [i \in 1 .. 0 |-> 0] \in [1 .. 0 -> Q] /\ Increasing([i \in 1 .. 0 |-> 0])
        BY DEF Increasing
    <2> QED  BY <2>2, <2>3
<1>2. ASSUME NEW m \in Nat, m \in S
      PROVE  m + 1 \in S
    <2> SUFFICES ASSUME NEW Q \in SUBSET (1 .. m + 1) PROVE Ordered(Q)
        OBVIOUS
    <2>1. CASE m + 1 \notin Q
        <3>1. Q \in SUBSET (1 .. m)
            BY <2>1
        <3> QED  BY <1>2, <3>1
    <2>2. CASE m + 1 \in Q
        <3> DEFINE R == Q \ {m + 1}
        <3>1. R \in SUBSET (1 .. m)
            OBVIOUS
        <3>2. IsFiniteSet(Q)
            <4>1. IsFiniteSet(1 .. m + 1)
                BY FS_Interval
            <4> QED  BY <4>1, FS_Subset
        <3>3. Cardinality(R) = Cardinality(Q) - 1 /\ Cardinality(R) \in Nat
            <4>1. IsFiniteSet(R)
                BY <3>2, FS_Subset
            <4> QED  BY <2>2, <3>2, <4>1, FS_RemoveElement, FS_CardinalityType
        <3>4. PICK s \in [1 .. Cardinality(R) -> R] : Increasing(s)
            BY <1>2, <3>1
        <3> DEFINE c == Cardinality(R)
        <3>5. c \in Nat /\ Cardinality(Q) = c + 1
            <4>1. Cardinality(Q) \in Nat
                BY <3>2, FS_CardinalityType
            <4> QED  BY <3>3, <4>1
        <3> DEFINE r == [i \in 1 .. c + 1 |-> IF i = c + 1 THEN m + 1 ELSE s[i]]
        <3>6. \A i \in 1 .. c : s[i] \in R
            BY <3>4
        <3> HIDE DEF c
        <3>7. r \in [1 .. c + 1 -> Q]
            <4>1. ASSUME NEW i \in 1 .. c + 1
                  PROVE  r[i] \in Q
                <5>1. CASE i = c + 1
                    BY <2>2, <5>1
                <5>2. CASE i # c + 1
                    <6>1. i \in 1 .. c
                        BY <3>5, <5>2
                    <6> QED  BY <3>6, <5>2, <6>1
                <5> QED  BY <5>1, <5>2
            <4> QED  BY <4>1
        <3>8. \A i, j \in 1 .. c : i < j => s[i] < s[j]
            BY <3>4 DEF Increasing, c
        <3>9. ASSUME NEW i \in 1 .. c + 1, NEW j \in 1 .. c + 1, i < j
              PROVE  r[i] < r[j]
            <4>1. i \in 1 .. c /\ i # c + 1
                BY <3>5, <3>9
            <4>2. s[i] \in 1 .. m
                BY <3>1, <3>6, <4>1
            <4>3. CASE j = c + 1
                BY <4>1, <4>2, <4>3
            <4>4. CASE j # c + 1
                <5>1. j \in 1 .. c /\ r[j] = s[j]
                    BY <3>5, <4>4
                <5> QED  BY <3>8, <3>9, <4>1, <5>1
            <4> QED  BY <4>3, <4>4
        <3>10. Increasing(r)
            BY <3>9 DEF Increasing
        <3> QED  BY <3>5, <3>7, <3>10
    <2> QED  BY <2>1, <2>2
<1> HIDE DEF S
<1>3. Nat \subseteq S
    BY <1>1, <1>2, SetOfNaturalsInduction
<1> QED  BY <1>3 DEF S

LEMMA InOrderType ==
    ASSUME NEW n \in Nat, NEW P \in SUBSET (1 .. n)
    PROVE  InOrder(P) \in [1 .. Cardinality(P) -> P]
<1>1. InOrder(P) = CHOOSE s \in [1 .. Cardinality(P) -> P] : Increasing(s)
    BY DEF InOrder, Increasing
<1> QED  BY <1>1, IncreasingExists

LEMMA InOrderOfAll ==
    ASSUME NEW n \in Nat
    PROVE  InOrder(1 .. n) = [i \in 1 .. n |-> i]
<1> DEFINE all == [i \in 1 .. n |-> i]
<1>1. Cardinality(1 .. n) = n
    BY FS_Interval
<1>2. all \in [1 .. n -> 1 .. n] /\ Increasing(all)
    BY DEF Increasing
<1>3. \A s \in [1 .. n -> 1 .. n] : Increasing(s) => s = all
    BY IncreasingIsIdentity
<1>4. InOrder(1 .. n) = CHOOSE s \in [1 .. n -> 1 .. n] : Increasing(s)
    BY <1>1 DEF InOrder, Increasing
<1> HIDE DEF all
<1>5. (CHOOSE s \in [1 .. n -> 1 .. n] : Increasing(s)) = all
    BY <1>2, <1>3
<1> QED  BY <1>4, <1>5 DEF all

-----------------------------------------------------------------------------
(* The topology of the state *)

\* A snapshot has a value for every setter that its device supports.
Complete(snapshot) ==
    /\ snapshot = [info |-> snapshot.info, values |-> snapshot.values]
    /\ \A method \in SetterMethods :
        device_supports_method(snapshot.info, method) => method \in DOMAIN snapshot.values

\* The data of a gateway and of complete snapshots, and the devices of these.
Data(data) ==
    /\ data = [gateway |-> data.gateway, devices |-> data.devices]
    /\ \A i \in DOMAIN data.devices : Complete(data.devices[i])
Infos(data) == [i \in DOMAIN data.devices |-> data.devices[i].info]

LEMMA DevicesReplaced ==
    ASSUME NEW data, Data(data), NEW devices
    PROVE  [data EXCEPT !.devices = devices] = [gateway |-> data.gateway, devices |-> devices]
<1>1. data = [gateway |-> data.gateway, devices |-> data.devices]
    BY DEF Data
<1> QED  BY <1>1

\* A state whose snapshots are complete and, unless other devices were discovered
\* during its poll, those of its devices, in their order.
Sound(st, other) ==
    /\ Form(st) /\ Data(st.data) /\ st.discovery \in Inventories
    /\ other \/ st.discovery = Infos(st.data)

\* An inventory is a sequence, in which no address occurs twice.
LEMMA InventoryIsSequence ==
    ASSUME NEW devices \in Inventories
    PROVE  /\ devices \in Seq(ToSet(devices))
           /\ \A i, j \in DOMAIN devices : devices[i].address = devices[j].address => i = j
<1>1. /\ devices \in Seq(ToSet(devices))
      /\ \A i, j \in DOMAIN devices : devices[i].address = devices[j].address => i = j
    BY InventoryAssumption
<1> QED  BY <1>1

LEMMA UpdatedComplete ==
    ASSUME NEW snapshot, NEW message, Complete(snapshot)
    PROVE  /\ Complete([snapshot EXCEPT !.values = Updated(@, message)])
           /\ [snapshot EXCEPT !.values = Updated(@, message)].info = snapshot.info
<1> DEFINE values == Updated(snapshot.values, message)
<1>1. DOMAIN snapshot.values \subseteq DOMAIN values
    BY DEF Updated, Put
<1> HIDE DEF values
<1>2. [snapshot EXCEPT !.values = values] = [info |-> snapshot.info, values |-> values]
    BY DEF Complete
<1>3. Complete([snapshot EXCEPT !.values = values])
    BY <1>1, <1>2 DEF Complete
<1> QED  BY <1>2, <1>3 DEF values

LEMMA UpdatedSnapshotsComplete ==
    ASSUME NEW data, NEW message, Data(data)
    PROVE  /\ \A s \in UpdatedSnapshots(data, message) : Complete(s)
           /\ \A i \in DOMAIN data.devices : \E s \in UpdatedSnapshots(data, message) :
                s.info = data.devices[i].info
           /\ \A s \in UpdatedSnapshots(data, message) : \E i \in DOMAIN data.devices :
                s.info = data.devices[i].info
<1> DEFINE new(s) == IF s.info.address = field(message, "address")
                     THEN [s EXCEPT !.values = Updated(@, message)] ELSE s
<1>1. \A s : Complete(s) => Complete(new(s)) /\ new(s).info = s.info
    BY UpdatedComplete
<1>2. UpdatedSnapshots(data, message) = {new(s) : s \in ToSet(data.devices)}
    BY DEF UpdatedSnapshots
<1> HIDE DEF new
<1>3. UpdatedSnapshots(data, message) = {new(data.devices[i]) : i \in DOMAIN data.devices}
    BY <1>2 DEF ToSet
<1>4. \A i \in DOMAIN data.devices : Complete(data.devices[i])
    BY DEF Data
<1> QED  BY <1>1, <1>3, <1>4

\* A report for a device keeps the snapshots complete, and in the order of the
\* devices if they are those of the devices.
LEMMA DeviceMessageKeeps ==
    ASSUME NEW devices \in Inventories, NEW data, NEW message, Data(data)
    PROVE  /\ Data(_apply_device_message(devices, data, message))
           /\ devices = Infos(data) =>
                devices = Infos(_apply_device_message(devices, data, message))
<1> DEFINE after == _apply_device_message(devices, data, message)
           P == {i \in DOMAIN devices : devices[i].address \in SnapshotAddresses(data)}
           kept == InOrder(P)
           snapshot(j) == CHOOSE s \in UpdatedSnapshots(data, message) :
                                s.info.address = devices[kept[j]].address
           snapshots == [j \in DOMAIN kept |-> snapshot(j)]
<1>1. /\ devices \in Seq(ToSet(devices))
      /\ \A i, j \in DOMAIN devices : devices[i].address = devices[j].address => i = j
    BY InventoryIsSequence
<1>2. PICK n \in Nat : DOMAIN devices = 1 .. n
    BY <1>1
<1>3. after = data \/ after = [data EXCEPT !.devices = snapshots]
    BY DEF _apply_device_message
<1>4. P \in SUBSET (1 .. n)
    BY <1>2
<1> HIDE DEF P
<1>5. kept \in [1 .. Cardinality(P) -> P]
    BY <1>4, InOrderType
<1>6. \A j \in DOMAIN kept : kept[j] \in P
    BY <1>5
<1> HIDE DEF kept
<1>7. ASSUME NEW j \in DOMAIN kept
      PROVE  /\ snapshot(j) \in UpdatedSnapshots(data, message)
             /\ snapshot(j).info.address = devices[kept[j]].address
    <2>1. PICK i \in DOMAIN data.devices :
                data.devices[i].info.address = devices[kept[j]].address
        BY <1>6 DEF P, SnapshotAddresses, ToSet
    <2>2. PICK s \in UpdatedSnapshots(data, message) : s.info = data.devices[i].info
        BY UpdatedSnapshotsComplete
    <2>3. s.info.address = devices[kept[j]].address
        BY <2>1, <2>2
    <2> QED  BY <2>3
<1> HIDE DEF snapshot
<1>8. [data EXCEPT !.devices = snapshots] = [gateway |-> data.gateway, devices |-> snapshots]
    BY DEF Data
<1>9. Data([data EXCEPT !.devices = snapshots])
    <2>1. \A j \in DOMAIN snapshots : Complete(snapshots[j])
        BY <1>7, UpdatedSnapshotsComplete
    <2> HIDE DEF snapshots
    <2> QED  BY <1>8, <2>1 DEF Data
<1>10. ASSUME devices = Infos(data)
       PROVE  devices = Infos([data EXCEPT !.devices = snapshots])
    <2>1. DOMAIN data.devices = 1 .. n /\ \A i \in 1 .. n : devices[i] = data.devices[i].info
        BY <1>2, <1>10 DEF Infos
    <2>2. P = 1 .. n
        BY <1>2, <2>1 DEF P, SnapshotAddresses, ToSet
    <2>3. kept = [i \in 1 .. n |-> i]
        BY <2>2, InOrderOfAll DEF kept
    <2>4. ASSUME NEW j \in 1 .. n
          PROVE  snapshot(j).info = devices[j]
        <3>1. j \in DOMAIN kept /\ kept[j] = j
            BY <2>3
        <3>2. PICK i \in 1 .. n : snapshot(j).info = data.devices[i].info
            BY <1>7, <2>1, <3>1, UpdatedSnapshotsComplete
        <3>3. devices[i].address = devices[j].address
            BY <1>7, <2>1, <3>1, <3>2
        <3>4. i = j
            BY <1>1, <1>2, <3>3
        <3> QED  BY <2>1, <3>2, <3>4
    <2>5. DOMAIN snapshots = 1 .. n /\ \A j \in 1 .. n : snapshots[j].info = devices[j]
        BY <2>3, <2>4
    <2> HIDE DEF snapshots
    <2>6. Infos([data EXCEPT !.devices = snapshots]) = [j \in 1 .. n |-> snapshots[j].info]
        BY <1>8, <2>5 DEF Infos
    <2>7. devices = [j \in 1 .. n |-> devices[j]]
        BY <1>1, <1>2
    <2> QED  BY <2>5, <2>6, <2>7
<1> HIDE DEF snapshots, after
<1>11. CASE after = data
    BY <1>11 DEF after
<1>12. CASE after = [data EXCEPT !.devices = snapshots]
    BY <1>9, <1>10, <1>12 DEF after
<1> QED  BY <1>3, <1>11, <1>12

\* A report of the gateway is none of its devices' business.
LEMMA GatewayMessageKeeps ==
    ASSUME NEW data, NEW message, Data(data)
    PROVE  /\ Data(_apply_gateway_message(data, message))
           /\ Infos(_apply_gateway_message(data, message)) = Infos(data)
<1> DEFINE after == _apply_gateway_message(data, message)
<1>1. \E gateway : after = [data EXCEPT !.gateway = gateway]
    <2>1. \A value : \E gateway : [data EXCEPT !.gateway[message.method] = value]
                                    = [data EXCEPT !.gateway = gateway]
        BY DEF Data
    <2>2. \E value : after = [data EXCEPT !.gateway[message.method] = value]
        BY DEF _apply_gateway_message
    <2> QED  BY <2>1, <2>2
<1> HIDE DEF after
<1>2. PICK gateway : after = [data EXCEPT !.gateway = gateway]
    BY <1>1
<1>3. after = [gateway |-> gateway, devices |-> data.devices]
    BY <1>2 DEF Data
<1>4. Data(after) /\ Infos(after) = Infos(data)
    BY <1>3 DEF Data, Infos
<1> QED  BY <1>4 DEF after

LEMMA AppliedSound ==
    ASSUME NEW st, NEW message, NEW other, Sound(st, other)
    PROVE  Sound(Applied(st, message), other)
<1> DEFINE data == apply_message(st.discovery, st.data, message)
<1>1. \/ data = st.data
      \/ data = _apply_gateway_message(st.data, message)
      \/ data = _apply_device_message(st.discovery, st.data, message)
    BY DEF apply_message
<1> HIDE DEF data
<1>2. Data(st.data) /\ st.discovery \in Inventories
    BY DEF Sound
<1>3. Data(data) /\ (st.discovery = Infos(st.data) => st.discovery = Infos(data))
    BY <1>1, <1>2, DeviceMessageKeeps, GatewayMessageKeeps
<1>4. Applied(st, message) = [discovery |-> st.discovery, data |-> data]
    BY DEF Applied, Sound, Form, data
<1> QED  BY <1>2, <1>3, <1>4 DEF Sound, Form

\* What a poll has got so far: snapshots of the first devices that it is about, of
\* all of them once it is done.
PollPoints == {"gateway", "device", "refreshed"}
PollOf(point, devices, data) ==
    point \in PollPoints =>
        /\ devices \in Inventories
        /\ Data(data)
        /\ \E n \in 0 .. Len(devices) :
            /\ DOMAIN data.devices = 1 .. n
            /\ data.devices \in Seq(ToSet(data.devices))
            /\ \A i \in 1 .. n : data.devices[i].info = devices[i]
            /\ point = "gateway" => n = 0
            /\ point = "device" => n < Len(devices)
            /\ point = "refreshed" => n = Len(devices)

\* There is a state, or a step that will apply a message to it.
Used == state # None \/ loop # "none" \/ \E t \in Apps : pc[t] = "enable"

TInv ==
    /\ inventory \in Inventories /\ discovery \in Inventories \cup {None}
    /\ pc \in [Apps -> Points]
    /\ target = [t \in Apps |-> target[t]] /\ polled = [t \in Apps |-> polled[t]]
    /\ \A t \in Apps : PollOf(pc[t], target[t], polled[t])
    /\ \A t \in Apps : pc[t] \in PollPoints => discovery \in Inventories
    /\ Used => Sound(state, raced)

\* A task goes anywhere, with what belongs there.
LEMMA GoesOn ==
    ASSUME TInv, NEW t \in Apps, NEW point \in Points, NEW devices, NEW data,
           Goto(t, point), PollOf(point, devices, data),
           target' = [target EXCEPT ![t] = devices],
           polled' = [polled EXCEPT ![t] = data],
           UNCHANGED inventory,
           discovery' = discovery \/ discovery' \in Inventories,
           point \in PollPoints => discovery' \in Inventories,
           Used' => Sound(state, raced)'
    PROVE  TInv'
<1>1. pc' = [pc EXCEPT ![t] = point]
    BY DEF Goto
<1>2. ASSUME NEW u \in Apps
      PROVE  /\ PollOf(pc'[u], target'[u], polled'[u])
             /\ pc'[u] \in PollPoints => discovery' \in Inventories
    <2>1. CASE u = t
        <3>1. pc'[u] = point /\ target'[u] = devices /\ polled'[u] = data
            BY <1>1, <2>1 DEF TInv
        <3> QED  BY <3>1
    <2>2. CASE u # t
        <3>1. pc'[u] = pc[u] /\ target'[u] = target[u] /\ polled'[u] = polled[u]
            BY <1>1, <2>2 DEF TInv
        <3> QED  BY <3>1 DEF TInv
    <2> QED  BY <2>1, <2>2
<1>3. pc' \in [Apps -> Points]
    BY <1>1 DEF TInv
<1>4. target' = [u \in Apps |-> target'[u]] /\ polled' = [u \in Apps |-> polled'[u]]
    BY DEF TInv
<1>5. inventory' \in Inventories /\ discovery' \in Inventories \cup {None}
    BY DEF TInv
<1> QED  BY <1>2, <1>3, <1>4, <1>5 DEF TInv

\* A task that neither installs nor enables leaves the state to what it was.
LEMMA StaysSound ==
    ASSUME TInv, UNCHANGED <<state, raced>>, Used' => Used
    PROVE  Used' => Sound(state, raced)'
BY DEF TInv, Sound, Form, Data, Complete, Infos

LEMMA GotoUsed ==
    ASSUME TInv, NEW t \in Apps, NEW point \in Points \ {"enable"}, Goto(t, point),
           UNCHANGED <<state, loop>>
    PROVE  Used' => Used
BY DEF TInv, Used, Goto

\* A task goes on within its operation, or returns.
LEMMA GoesElsewhere ==
    ASSUME TInv, NEW t \in Apps, NEW point \in (Points \ PollPoints) \ {"enable"},
           Goto(t, point), UNCHANGED <<inventory, discovery, target, polled, state, raced>>,
           loop' = loop \/ loop' = "none"
    PROVE  TInv'
<1>1. target' = [target EXCEPT ![t] = target[t]] /\ polled' = [polled EXCEPT ![t] = polled[t]]
    BY DEF TInv
<1>2. Used' => Used
    BY DEF TInv, Used, Goto
<1>3. PollOf(point, target[t], polled[t])
    BY DEF PollOf
<1> QED  BY <1>1, <1>2, <1>3, StaysSound, GoesOn

LEMMA Returns ==
    ASSUME TInv, NEW t \in Apps, Return(t), UNCHANGED <<inventory, discovery>>,
           Used' => Sound(state, raced)'
    PROVE  TInv'
<1>1. /\ Goto(t, "idle") /\ target' = [target EXCEPT ![t] = None]
      /\ polled' = [polled EXCEPT ![t] = None]
    BY DEF Return
<1>2. PollOf("idle", None, None)
    BY DEF PollOf, PollPoints
<1> QED  BY <1>1, <1>2, GoesOn DEF Points, PollPoints

LEMMA ReturnsUnchanged ==
    ASSUME TInv, NEW t \in Apps, Return(t),
           UNCHANGED <<inventory, discovery, state, raced, loop>>
    PROVE  TInv'
<1>1. Goto(t, "idle")
    BY DEF Return
<1>2. Used' => Used
    BY <1>1, GotoUsed DEF Points
<1> QED  BY <1>2, StaysSound, Returns

-----------------------------------------------------------------------------
(* The steps of the topology *)

LEMMA InitTopology == Init => TInv
<1> SUFFICES ASSUME Init PROVE TInv
    OBVIOUS
<1>1. /\ inventory \in Inventories /\ discovery = None /\ state = None /\ loop = "none"
      /\ pc = [t \in Apps |-> "idle"]
      /\ target = [t \in Apps |-> None] /\ polled = [t \in Apps |-> None]
    BY DEF Init
<1> QED  BY <1>1 DEF TInv, PollOf, PollPoints, Points, Used

\* Nothing that the topology is made of changes but the network.
LEMMA TopologyUntouched ==
    ASSUME TInv, inventory' \in Inventories,
           UNCHANGED <<discovery, pc, target, polled, state, raced>>,
           loop' = loop \/ (loop # "none" /\ loop' # "none")
    PROVE  TInv'
<1>1. Used' => Used
    BY DEF Used
<1>2. Used' => Sound(state, raced)'
    BY <1>1, StaysSound
<1> QED  BY <1>2 DEF TInv

LEMMA EnvironmentTopology ==
    ASSUME TInv, Environment
    PROVE  TInv'
<1>1. /\ inventory' \in Inventories
      /\ UNCHANGED <<discovery, pc, target, polled, state, raced, loop>>
    BY DEF Environment, Serve, LinkFails, Change, Topology, controller, history, tasks, TInv
<1> QED  BY <1>1, TopologyUntouched

LEMMA HandleTopology ==
    ASSUME TInv, Handle
    PROVE  TInv'
<1> DEFINE after == Applied(state, from_bytes(Head(queue)))
<1>1. Sound(state, raced)
    BY DEF TInv, Used, Handle
<1>2. Sound(after, raced)
    BY <1>1, AppliedSound
<1>3. state' = state \/ state' = after
    BY DEF Handle
<1>4. UNCHANGED <<inventory, discovery, pc, target, polled, raced>>
    BY DEF Handle, network, tasks
<1> HIDE DEF after
<1>5. Sound(state', raced')
    BY <1>1, <1>2, <1>3, <1>4
<1> QED  BY <1>4, <1>5 DEF TInv

LEMMA ReconnectTopology ==
    ASSUME TInv, Reconnect \/ Resubscribe
    PROVE  TInv'
<1>1. UNCHANGED <<inventory, discovery, pc, target, polled, state, raced>>
    BY DEF Reconnect, Resubscribe, network, tasks, history
<1>2. loop # "none" /\ loop' # "none"
    BY DEF Reconnect, Resubscribe
<1>3. inventory' \in Inventories
    BY <1>1 DEF TInv
<1> QED  BY <1>1, <1>2, <1>3, TopologyUntouched

LEMMA EmptyPoll ==
    ASSUME NEW devices \in Inventories
    PROVE  PollOf("gateway", devices, [gateway |-> None, devices |-> <<>>])
<1>1. Len(devices) \in Nat
    BY InventoryIsSequence
<1>2. <<>> \in Seq(ToSet(<<>>)) /\ DOMAIN <<>> = 1 .. 0
    OBVIOUS
<1> QED  BY <1>1, <1>2 DEF PollOf, PollPoints, Data

\* A poll begins.
LEMMA PollTopology ==
    ASSUME TInv, NEW t \in Apps, NEW devices \in Inventories, Poll(t, devices),
           UNCHANGED <<inventory, state, raced, loop>>, discovery' \in Inventories
    PROVE  TInv'
<1> DEFINE data == [gateway |-> None, devices |-> <<>>]
<1>1. /\ Goto(t, "gateway") /\ target' = [target EXCEPT ![t] = devices]
      /\ polled' = [polled EXCEPT ![t] = data]
    BY DEF Poll
<1>2. PollOf("gateway", devices, data)
    BY EmptyPoll
<1>3. Used' => Used
    BY <1>1, GotoUsed DEF Points
<1> HIDE DEF data
<1> QED  BY <1>1, <1>2, <1>3, StaysSound, GoesOn DEF Points

LEMMA CallsTopology ==
    ASSUME TInv, NEW t \in Apps, Restarts(t)
    PROVE  TInv'
<1>1. UNCHANGED <<inventory, discovery, state, raced, loop>>
    BY DEF Restarts, Start, Rediscover, RefreshRuntime, Calls, network, controller, history
<1>2. \/ /\ \E point \in {"pause", "discover"} : Goto(t, point)
         /\ UNCHANGED <<target, polled>>
      \/ discovery # None /\ Poll(t, discovery)
    BY DEF Restarts, Start, Rediscover, RefreshRuntime
<1>3. CASE discovery # None /\ Poll(t, discovery)
    <2>1. discovery \in Inventories
        BY <1>3 DEF TInv
    <2> QED  BY <1>1, <1>3, <2>1, PollTopology
<1>4. ASSUME NEW point \in {"pause", "discover"}, Goto(t, point), UNCHANGED <<target, polled>>
      PROVE  TInv'
    <2>1. point \in (Points \ PollPoints) \ {"enable"}
        BY DEF Points, PollPoints
    <2> QED  BY <1>1, <1>4, <2>1, GoesElsewhere
<1> QED  BY <1>2, <1>3, <1>4

LEMMA PauseTopology ==
    ASSUME TInv, NEW t \in Apps, Pause(t)
    PROVE  TInv'
<1>1. UNCHANGED <<inventory, discovery, state, raced, loop, target, polled>>
    BY DEF Pause, controller, history
<1>2. Goto(t, "discover")
    BY DEF Pause
<1> QED  BY <1>1, <1>2, GoesElsewhere DEF Points, PollPoints

LEMMA DiscoverTopology ==
    ASSUME TInv, NEW t \in Apps, Discover(t)
    PROVE  TInv'
<1>1. inventory \in Inventories /\ discovery' = inventory /\ Poll(t, inventory)
    BY DEF Discover, TInv
<1>2. UNCHANGED <<inventory, state, raced, loop>>
    BY DEF Discover, network
<1> QED  BY <1>1, <1>2, PollTopology

LEMMA GatewayTopology ==
    ASSUME TInv, NEW t \in Apps, poll_gateway(t)
    PROVE  TInv'
<1>1. /\ pc[t] = "gateway"
      /\ UNCHANGED <<inventory, discovery, state, raced, loop, target>>
    BY DEF poll_gateway, controller, history
<1>2. PICK gateway : polled' = [polled EXCEPT ![t].gateway = gateway]
    BY DEF poll_gateway
<1> DEFINE point == IF target[t] = <<>> THEN "refreshed" ELSE "device"
           data == [gateway |-> gateway, devices |-> polled[t].devices]
<1>3. PollOf("gateway", target[t], polled[t]) /\ discovery \in Inventories
    BY <1>1 DEF TInv, PollPoints
<1>4. Data(polled[t]) /\ target[t] \in Inventories
    BY <1>3 DEF PollOf, PollPoints
<1>5. polled' = [polled EXCEPT ![t] = data]
    <2>1. [polled[t] EXCEPT !.gateway = gateway] = data
        BY <1>4 DEF Data
    <2>2. polled' = [polled EXCEPT ![t] = [polled[t] EXCEPT !.gateway = gateway]]
        BY <1>2 DEF TInv
    <2> QED  BY <2>1, <2>2
<1>6. PollOf(point, target[t], data)
    <2>1. Data(data)
        BY <1>4 DEF Data
    <2>2. target[t] \in Seq(ToSet(target[t]))
        BY <1>4, InventoryIsSequence
    <2>3. IF target[t] = <<>> THEN Len(target[t]) = 0 ELSE Len(target[t]) > 0
        BY <2>2
    <2>4. /\ 0 \in 0 .. Len(target[t])
          /\ point = "device" => 0 < Len(target[t])
          /\ point = "refreshed" => 0 = Len(target[t])
          /\ point # "gateway"
        BY <2>2, <2>3
    <2>5. DOMAIN polled[t].devices = 1 .. 0 /\ polled[t].devices \in Seq(ToSet(polled[t].devices))
        BY <1>3 DEF PollOf, PollPoints
    <2> HIDE DEF point
    <2>6. \A i \in 1 .. 0 : data.devices[i].info = target[t][i]
        OBVIOUS
    <2>7. DOMAIN data.devices = 1 .. 0 /\ data.devices \in Seq(ToSet(data.devices))
        BY <2>5
    <2> HIDE DEF data
    <2> QED  BY <1>4, <2>1, <2>4, <2>6, <2>7 DEF PollOf
<1>7. Goto(t, point) /\ point \in Points \ {"enable"}
    BY DEF poll_gateway, Points
<1>8. target' = [target EXCEPT ![t] = target[t]]
    BY <1>1 DEF TInv
<1> HIDE DEF point, data
<1>9. Used' => Used
    BY <1>1, <1>7, GotoUsed
<1> QED  BY <1>1, <1>3, <1>5, <1>6, <1>7, <1>8, <1>9, StaysSound, GoesOn

\* What is polled from a device is complete (EverySetterHasAValue).
LEMMA SnapshotComplete ==
    ASSUME NEW d, NEW got
    PROVE  Complete(DeviceSnapshot(d, Polled(d, protocol_version), got))
BY EverySetterHasAValue DEF Complete, DeviceSnapshot

LEMMA DeviceTopology ==
    ASSUME TInv, NEW t \in Apps, _dump_device_snapshot(t)
    PROVE  TInv'
<1> DEFINE n == Len(polled[t].devices)
           d == target[t][n + 1]
           point == IF n + 1 = Len(target[t]) THEN "refreshed" ELSE "device"
<1>1. /\ pc[t] = "device"
      /\ UNCHANGED <<inventory, discovery, state, raced, loop, target>>
    BY DEF _dump_device_snapshot, controller, history
<1>2. PICK got : polled' = [polled EXCEPT ![t].devices =
                    Append(@, DeviceSnapshot(d, Polled(d, protocol_version), got))]
    BY DEF _dump_device_snapshot
<1> DEFINE new == DeviceSnapshot(d, Polled(d, protocol_version), got)
           devices == Append(polled[t].devices, new)
           data == [gateway |-> polled[t].gateway, devices |-> devices]
<1>3. PollOf("device", target[t], polled[t]) /\ discovery \in Inventories
    BY <1>1 DEF TInv, PollPoints
<1>4. Data(polled[t]) /\ target[t] \in Inventories
    BY <1>3 DEF PollOf, PollPoints
<1>5. Complete(new) /\ new.info = d
    BY SnapshotComplete DEF DeviceSnapshot
<1>6. /\ polled[t].devices \in Seq(ToSet(polled[t].devices))
      /\ n \in Nat /\ n < Len(target[t]) /\ Len(target[t]) \in Nat
      /\ DOMAIN polled[t].devices = 1 .. n
      /\ \A i \in 1 .. n : polled[t].devices[i].info = target[t][i]
    <2>1. target[t] \in Seq(ToSet(target[t]))
        BY <1>4, InventoryIsSequence
    <2>2. PICK m \in 0 .. Len(target[t]) :
            /\ DOMAIN polled[t].devices = 1 .. m
            /\ polled[t].devices \in Seq(ToSet(polled[t].devices))
            /\ \A i \in 1 .. m : polled[t].devices[i].info = target[t][i]
            /\ m < Len(target[t])
        BY <1>3 DEF PollOf, PollPoints
    <2>3. Len(target[t]) \in Nat
        BY <2>1
    <2>4. m = n
        BY <2>2, <2>3
    <2> QED  BY <2>2, <2>3, <2>4
<1> HIDE DEF n, new
<1>7. polled' = [polled EXCEPT ![t] = data]
    <2>1. [polled[t] EXCEPT !.devices = devices] = data
        BY <1>4, DevicesReplaced
    <2>2. polled' = [polled EXCEPT ![t] = [polled[t] EXCEPT !.devices = devices]]
        BY <1>2 DEF TInv, new
    <2> QED  BY <2>1, <2>2
<1>8. /\ DOMAIN devices = 1 .. n + 1
      /\ devices[n + 1] = new
      /\ \A i \in 1 .. n : devices[i] = polled[t].devices[i]
      /\ devices \in Seq(ToSet(devices))
    <2>1. DOMAIN devices = 1 .. n + 1 /\ devices[n + 1] = new
        BY <1>6 DEF n
    <2>2. \A i \in 1 .. n : devices[i] = polled[t].devices[i]
        BY <1>6 DEF n
    <2> DEFINE S == ToSet(polled[t].devices) \cup {new}
    <2>3. devices \in Seq(S)
        BY <1>6
    <2>4. \A i \in 1 .. n + 1 : devices[i] \in ToSet(devices)
        BY <2>1 DEF ToSet
    <2> HIDE DEF devices, S
    <2>5. Len(devices) = n + 1 /\ devices = [i \in 1 .. n + 1 |-> devices[i]]
        BY <1>6, <2>1, <2>3
    <2>6. n + 1 \in Nat
        BY <1>6
    <2>7. [i \in 1 .. n + 1 |-> devices[i]] \in Seq(ToSet(devices))
        BY <2>4, <2>6
    <2>8. devices \in Seq(ToSet(devices))
        BY <2>5, <2>7
    <2> QED  BY <2>1, <2>2, <2>8
<1> HIDE DEF devices
<1>9. PollOf(point, target[t], data)
    <2>1. \A i \in 1 .. n + 1 : Complete(devices[i]) /\ devices[i].info = target[t][i]
        <3>1. \A i \in 1 .. n : Complete(polled[t].devices[i])
            BY <1>4, <1>6 DEF Data
        <3>2. ASSUME NEW i \in 1 .. n + 1
              PROVE  Complete(devices[i]) /\ devices[i].info = target[t][i]
            <4>1. CASE i = n + 1
                BY <1>5, <1>8, <4>1
            <4>2. CASE i # n + 1
                <5>1. i \in 1 .. n
                    BY <1>6, <4>2
                <5> QED  BY <1>6, <1>8, <3>1, <5>1
            <4> QED  BY <4>1, <4>2
        <3> QED  BY <3>2
    <2>2. Data(data)
        BY <1>8, <2>1 DEF Data
    <2>3. /\ n + 1 \in 0 .. Len(target[t])
          /\ point # "gateway"
          /\ point = "device" => n + 1 < Len(target[t])
          /\ point = "refreshed" => n + 1 = Len(target[t])
        BY <1>6
    <2> HIDE DEF point
    <2> QED  BY <1>4, <1>8, <2>1, <2>2, <2>3 DEF PollOf
<1>10. Goto(t, point) /\ point \in Points \ {"enable"}
    BY DEF _dump_device_snapshot, Points, n
<1>11. target' = [target EXCEPT ![t] = target[t]]
    BY <1>1 DEF TInv
<1> HIDE DEF point, data
<1>12. Used' => Used
    BY <1>1, <1>10, GotoUsed
<1> QED  BY <1>1, <1>3, <1>7, <1>9, <1>10, <1>11, <1>12, StaysSound, GoesOn

\* What is installed is what was polled: from the devices that are discovered now,
\* unless others have been since.
LEMMA InstallTopology ==
    ASSUME TInv, NEW t \in Apps, Install(t)
    PROVE  TInv'
<1>1. /\ pc[t] = "refreshed" /\ raced' = (discovery # target[t])
      /\ state' = [discovery |-> discovery, data |-> polled[t]]
      /\ UNCHANGED <<inventory, discovery, loop>>
    BY DEF Install, Installed
<1>2. PollOf("refreshed", target[t], polled[t]) /\ discovery \in Inventories
    BY <1>1 DEF TInv, PollPoints
<1>3. Data(polled[t]) /\ target[t] \in Inventories
    BY <1>2 DEF PollOf, PollPoints
<1>4. Infos(polled[t]) = target[t]
    <2>1. target[t] \in Seq(ToSet(target[t]))
        BY <1>3, InventoryIsSequence
    <2>2. DOMAIN polled[t].devices = 1 .. Len(target[t])
        BY <1>2 DEF PollOf, PollPoints
    <2>3. \A i \in 1 .. Len(target[t]) : polled[t].devices[i].info = target[t][i]
        BY <1>2 DEF PollOf, PollPoints
    <2>4. target[t] = [i \in 1 .. Len(target[t]) |-> target[t][i]]
        BY <2>1
    <2> QED  BY <2>2, <2>3, <2>4 DEF Infos
<1>5. Sound(state', raced')
    <2>1. state'.discovery = discovery /\ state'.data = polled[t] /\ Form(state')
        BY <1>1 DEF Form
    <2>2. raced' \/ state'.discovery = Infos(state'.data)
        BY <1>1, <1>4, <2>1
    <2> QED  BY <1>2, <1>3, <2>1, <2>2 DEF Sound
<1>6. Used' => Sound(state, raced)'
    BY <1>5
<1>7. CASE Return(t)
    BY <1>1, <1>6, <1>7, Returns
<1>8. CASE Goto(t, "enable") /\ UNCHANGED <<target, polled>>
    <2>1. target' = [target EXCEPT ![t] = target[t]] /\ polled' = [polled EXCEPT ![t] = polled[t]]
        BY <1>8 DEF TInv
    <2>2. PollOf("enable", target[t], polled[t])
        BY DEF PollOf, PollPoints
    <2> QED  BY <1>1, <1>2, <1>6, <1>8, <2>1, <2>2, GoesOn DEF Points
<1> QED  BY <1>7, <1>8 DEF Install

LEMMA EnableTopology ==
    ASSUME TInv, NEW t \in Apps, Enable(t)
    PROVE  TInv'
<1>1. Sound(state, raced)
    BY DEF Enable, TInv, Used
<1>2. PICK response \in Responses(TRUE) :
            state' = IF response = None THEN state ELSE Applied(state, from_bytes(response))
    BY DEF Enable
<1>3. Sound(state', raced)
    BY <1>1, <1>2, AppliedSound
<1>4. UNCHANGED <<inventory, discovery, raced>> /\ Return(t)
    BY DEF Enable
<1>5. Sound(state', raced')
    BY <1>3, <1>4
<1>6. Used' => Sound(state, raced)'
    BY <1>5
<1> QED  BY <1>4, <1>6, Returns

LEMMA EndsTopology ==
    ASSUME TInv, NEW t \in Apps, Ends(t)
    PROVE  TInv'
<1>1. UNCHANGED <<inventory, discovery, state, raced, loop>>
    BY DEF Ends, Fails, Restore, Close, controller, history
<1>2. \/ Goto(t, "restore") /\ UNCHANGED <<target, polled>>
      \/ Return(t)
    BY DEF Ends, Fails, Restore, Close
<1>3. "restore" \in (Points \ PollPoints) \ {"enable"}
    BY DEF Points, PollPoints
<1> QED  BY <1>1, <1>2, <1>3, GoesElsewhere, ReturnsUnchanged

LEMMA StopTopology ==
    ASSUME TInv, NEW t \in Apps, Stop(t)
    PROVE  TInv'
<1>1. UNCHANGED <<inventory, discovery, state, raced, target, polled>> /\ loop' = "none"
    BY DEF Stop, Calls, network, history
<1>2. Goto(t, "close") /\ "close" \in (Points \ PollPoints) \ {"enable"}
    BY DEF Stop, Points, PollPoints
<1> QED  BY <1>1, <1>2, GoesElsewhere

LEMMA SetTopology ==
    ASSUME TInv, NEW t \in Apps, NEW method, NEW address, NEW value,
           SetLatest(t, method, address, value)
    PROVE  TInv'
<1>1. UNCHANGED <<inventory, discovery, pc, target, polled, state, raced, loop>>
    BY SetterLeaves DEF controller, history, tasks
<1>2. inventory' \in Inventories
    BY <1>1 DEF TInv
<1> QED  BY <1>1, <1>2, TopologyUntouched

LEMMA StepTopology ==
    ASSUME TInv, [Next]_vars
    PROVE  TInv'
<1>1. CASE Environment
    BY <1>1, EnvironmentTopology
<1>2. CASE Loop
    BY <1>2, HandleTopology, ReconnectTopology DEF Loop
<1>3. ASSUME NEW t \in Apps, App(t)
      PROVE  TInv'
    <2>1. \/ Restarts(t) \/ Ends(t) \/ Stop(t)
          \/ Pause(t) \/ Discover(t) \/ poll_gateway(t) \/ _dump_device_snapshot(t)
          \/ Install(t) \/ Enable(t)
          \/ \E method, address, value : SetLatest(t, method, address, value)
        BY <1>3 DEF App, Restarts, Ends
    <2> QED  BY <2>1, CallsTopology, EndsTopology, StopTopology, PauseTopology,
                DiscoverTopology, GatewayTopology, DeviceTopology, InstallTopology,
                EnableTopology, SetTopology
<1>4. CASE UNCHANGED vars
    <2>1. UNCHANGED <<inventory, discovery, pc, target, polled, state, raced, loop>>
        BY <1>4 DEF vars, network, controller, history, tasks
    <2>2. inventory' \in Inventories
        BY <2>1 DEF TInv
    <2> QED  BY <2>1, <2>2, TopologyUntouched
<1> QED  BY <1>1, <1>2, <1>3, <1>4 DEF Next

LEMMA TopologyInvariance == Spec => []TInv
<1>1. Init => TInv
    BY InitTopology
<1>2. TInv /\ [Next]_vars => TInv'
    BY StepTopology
<1> QED  BY <1>1, <1>2, PTL DEF Spec

\* However discoveries, polls, reports and failures of any number of tasks
\* interleave: the state has a snapshot of each of its devices, in their order,
\* unless others were discovered during the poll, and a value for every setter that
\* a handle accepts (controller.py:174-181, 392-396; state.py:257-289).
THEOREM TopologyIsOne == Spec => []OneTopology
<1>1. IInv /\ TInv => OneTopology
    <2> SUFFICES ASSUME IInv, TInv, state # None
                 PROVE  /\ halfway \/ state.discovery = discovery
                        /\ raced \/ state.discovery = Infos(state.data)
                        /\ \A snapshot \in ToSet(state.data.devices) :
                            snapshot.info \in ToSet(state.discovery) =>
                                \A method \in SetterMethods \ DOMAIN snapshot.values :
                                    ~_require_support(snapshot.info.address, method)
        BY DEF OneTopology, Infos
    <2>1. Sound(state, raced)
        BY DEF TInv, Used
    <2>2. halfway \/ state.discovery = discovery
        BY DEF IInv
    <2>3. raced \/ state.discovery = Infos(state.data)
        BY <2>1 DEF Sound
    <2>4. ASSUME NEW snapshot \in ToSet(state.data.devices),
                 snapshot.info \in ToSet(state.discovery),
                 NEW method \in SetterMethods \ DOMAIN snapshot.values
          PROVE  ~_require_support(snapshot.info.address, method)
        <3>1. Complete(snapshot)
            BY <2>1 DEF Sound, Data, ToSet
        <3>2. ~device_supports_method(snapshot.info, method)
            BY <3>1 DEF Complete
        <3>3. PICK i \in DOMAIN state.discovery : state.discovery[i] = snapshot.info
            BY <2>4 DEF ToSet
        <3>4. \A j \in DOMAIN state.discovery :
                state.discovery[j].address = snapshot.info.address => state.discovery[j] = snapshot.info
            BY <2>1, <3>3, InventoryIsSequence DEF Sound
        <3>5. _require_support(snapshot.info.address, method) =>
                \E j \in DOMAIN state.discovery :
                    /\ state.discovery[j].address = snapshot.info.address
                    /\ device_supports_method(state.discovery[j], method)
            BY DEF _require_support
        <3> QED  BY <3>2, <3>4, <3>5
    <2> QED  BY <2>2, <2>3, <2>4
<1> QED  BY <1>1, Invariance, TopologyInvariance, PTL

-----------------------------------------------------------------------------
(* The codec: what it makes of integers is bytes, and of bytes numbers *)

\* What FlattenSeq recurses by.
Flattens(f, seqs, n) ==
    f = [i \in 1 .. n |-> IF i = 1 THEN seqs[i] ELSE f[i - 1] \o seqs[i]]

LEMMA FlattensExists ==
    ASSUME NEW seqs, NEW m \in Nat
    PROVE  \E f : Flattens(f, seqs, m)
<1> DEFINE S == {n \in Nat : \E f : Flattens(f, seqs, n)}
<1>1. 0 \in S
    <2>1. Flattens([i \in 1 .. 0 |-> seqs], seqs, 0)
        BY DEF Flattens
    <2> QED  BY <2>1
<1>2. ASSUME NEW n \in Nat, n \in S
      PROVE  n + 1 \in S
    <2>1. PICK f : Flattens(f, seqs, n)
        BY <1>2
    <2> DEFINE next == IF n + 1 = 1 THEN seqs[n + 1] ELSE f[n] \o seqs[n + 1]
               g == [i \in 1 .. n + 1 |-> IF i = n + 1 THEN next ELSE f[i]]
    <2> HIDE DEF next
    <2>2. \A i \in 1 .. n : f[i] = IF i = 1 THEN seqs[i] ELSE f[i - 1] \o seqs[i]
        BY <2>1 DEF Flattens
    <2>3. ASSUME NEW i \in 1 .. n + 1
          PROVE  g[i] = IF i = 1 THEN seqs[i] ELSE g[i - 1] \o seqs[i]
        <3>1. CASE i = n + 1
            <4>1. i - 1 = n /\ (i # 1 => i - 1 \in 1 .. n + 1 /\ i - 1 # n + 1)
                BY <3>1
            <4>2. g[i] = next /\ (i # 1 => g[i - 1] = f[n])
                BY <3>1, <4>1
            <4> HIDE DEF g
            <4> QED  BY <3>1, <4>1, <4>2 DEF next
        <3>2. CASE i # n + 1
            <4>1. i \in 1 .. n /\ (i # 1 => i - 1 \in 1 .. n + 1 /\ i - 1 # n + 1)
                BY <3>2
            <4>2. g[i] = f[i] /\ (i # 1 => g[i - 1] = f[i - 1])
                BY <3>2, <4>1
            <4> HIDE DEF g
            <4> QED  BY <2>2, <4>1, <4>2
        <3> QED  BY <3>1, <3>2
    <2>4. g = [i \in 1 .. n + 1 |-> g[i]]
        OBVIOUS
    <2> HIDE DEF g
    <2>5. Flattens(g, seqs, n + 1)
        BY <2>3, <2>4 DEF Flattens
    <2> QED  BY <2>5
<1> HIDE DEF S
<1>3. m \in S
    BY <1>1, <1>2, SetOfNaturalsInduction
<1> QED  BY <1>3 DEF S

LEMMA FlattenType ==
    ASSUME NEW T, NEW seqs \in Seq(Seq(T))
    PROVE  FlattenSeq(seqs) \in Seq(T)
<1> DEFINE n == Len(seqs)
           f == CHOOSE g : Flattens(g, seqs, n)
<1>1. n \in Nat /\ \A i \in 1 .. n : seqs[i] \in Seq(T)
    OBVIOUS
<1> HIDE DEF n
<1>2. CASE n = 0
    <2>1. FlattenSeq(seqs) = seqs /\ seqs = <<>>
        BY <1>2 DEF FlattenSeq, n
    <2> QED  BY <2>1
<1>3. CASE n # 0
    <2>1. Flattens(f, seqs, n)
        BY <1>1, FlattensExists
    <2>2. FlattenSeq(seqs) = f[n]
        BY <1>3 DEF FlattenSeq, Flattens, n
    <2> HIDE DEF f
    <2>3. \A i \in 1 .. n : f[i] = IF i = 1 THEN seqs[i] ELSE f[i - 1] \o seqs[i]
        BY <2>1 DEF Flattens
    <2> DEFINE S == {i \in Nat : i \in 1 .. n => f[i] \in Seq(T)}
    <2>4. 0 \in S
        OBVIOUS
    <2>5. ASSUME NEW i \in Nat, i \in S
          PROVE  i + 1 \in S
        <3> SUFFICES ASSUME i + 1 \in 1 .. n PROVE f[i + 1] \in Seq(T)
            OBVIOUS
        <3>1. CASE i = 0
            BY <1>1, <2>3, <3>1
        <3>2. CASE i # 0
            <4>1. i \in 1 .. n /\ (i + 1) - 1 = i /\ i + 1 # 1
                BY <1>1, <3>2
            <4>2. f[i] \in Seq(T) /\ seqs[i + 1] \in Seq(T)
                BY <1>1, <2>5, <4>1
            <4>3. f[i + 1] = f[i] \o seqs[i + 1]
                BY <2>3, <4>1
            <4> QED  BY <4>2, <4>3
        <3> QED  BY <3>1, <3>2
    <2> HIDE DEF S
    <2>6. n \in S
        BY <1>1, <2>4, <2>5, SetOfNaturalsInduction
    <2> QED  BY <1>1, <1>3, <2>2, <2>6 DEF S
<1> QED  BY <1>2, <1>3

\* What _unpack_int recurses by.
Sums(f, data, n) ==
    f = [i \in 0 .. n |-> IF i = 0 THEN 0 ELSE f[i - 1] + data[i] * Place[i]]

LEMMA SumsExists ==
    ASSUME NEW data, NEW m \in Nat
    PROVE  \E f : Sums(f, data, m)
<1> DEFINE S == {n \in Nat : \E f : Sums(f, data, n)}
<1>1. 0 \in S
    <2>1. Sums([i \in 0 .. 0 |-> 0], data, 0)
        BY DEF Sums
    <2> QED  BY <2>1
<1>2. ASSUME NEW n \in Nat, n \in S
      PROVE  n + 1 \in S
    <2>1. PICK f : Sums(f, data, n)
        BY <1>2
    <2> DEFINE next == f[n] + data[n + 1] * Place[n + 1]
               g == [i \in 0 .. n + 1 |-> IF i = n + 1 THEN next ELSE f[i]]
    <2> HIDE DEF next
    <2>2. \A i \in 0 .. n : f[i] = IF i = 0 THEN 0 ELSE f[i - 1] + data[i] * Place[i]
        BY <2>1 DEF Sums
    <2>3. ASSUME NEW i \in 0 .. n + 1
          PROVE  g[i] = IF i = 0 THEN 0 ELSE g[i - 1] + data[i] * Place[i]
        <3>1. CASE i = n + 1
            <4>1. i - 1 = n /\ i # 0 /\ n \in 0 .. n + 1 /\ n # n + 1
                BY <3>1
            <4>2. g[i] = next /\ g[i - 1] = f[n]
                BY <3>1, <4>1
            <4> HIDE DEF g
            <4> QED  BY <3>1, <4>1, <4>2 DEF next
        <3>2. CASE i # n + 1
            <4>1. i \in 0 .. n /\ (i # 0 => i - 1 \in 0 .. n + 1 /\ i - 1 # n + 1)
                BY <3>2
            <4>2. g[i] = f[i] /\ (i # 0 => g[i - 1] = f[i - 1])
                BY <3>2, <4>1
            <4> HIDE DEF g
            <4> QED  BY <2>2, <4>1, <4>2
        <3> QED  BY <3>1, <3>2
    <2>4. g = [i \in 0 .. n + 1 |-> g[i]]
        OBVIOUS
    <2> HIDE DEF g
    <2>5. Sums(g, data, n + 1)
        BY <2>3, <2>4 DEF Sums
    <2> QED  BY <2>5
<1> HIDE DEF S
<1>3. m \in S
    BY <1>1, <1>2, SetOfNaturalsInduction
<1> QED  BY <1>3 DEF S

\* The fields of a body are of one to four bytes.
LEMMA UnpackedIsNatural ==
    ASSUME NEW size \in 0 .. 4, NEW data \in [1 .. size -> Byte]
    PROVE  _unpack_int(data) \in Nat
<1> DEFINE f == CHOOSE g : Sums(g, data, size)
<1>1. Len(data) = size
    OBVIOUS
<1>2. Sums(f, data, size)
    BY SumsExists
<1>3. _unpack_int(data) = f[size]
    BY <1>1 DEF _unpack_int, Sums
<1> HIDE DEF f
<1>4. \A i \in 0 .. size : f[i] = IF i = 0 THEN 0 ELSE f[i - 1] + data[i] * Place[i]
    BY <1>2 DEF Sums
<1>5. \A i \in 1 .. size : data[i] * Place[i] \in Nat
    <2>1. \A i \in 1 .. 4 : Place[i] \in Nat
        BY DEF Place
    <2>2. ASSUME NEW i \in 1 .. size
          PROVE  data[i] * Place[i] \in Nat
        <3>1. data[i] \in Byte /\ i \in 1 .. 4
            OBVIOUS
        <3>2. Byte \subseteq Nat
            BY DEF Byte
        <3>3. data[i] \in Nat
            BY <3>1, <3>2
        <3>4. Place[i] \in Nat
            BY <2>1, <3>1
        <3> QED  BY <3>3, <3>4
    <2> QED  BY <2>2
<1> DEFINE S == {i \in Nat : i \in 0 .. size => f[i] \in Nat}
<1>6. 0 \in S
    BY <1>4
<1>7. ASSUME NEW i \in Nat, i \in S
      PROVE  i + 1 \in S
    <2> SUFFICES ASSUME i + 1 \in 0 .. size PROVE f[i + 1] \in Nat
        OBVIOUS
    <2>1. i \in 0 .. size /\ i + 1 \in 1 .. size /\ (i + 1) - 1 = i /\ i + 1 # 0
        OBVIOUS
    <2>2. f[i] \in Nat /\ data[i + 1] * Place[i + 1] \in Nat
        BY <1>5, <1>7, <2>1
    <2>3. f[i + 1] = f[i] + data[i + 1] * Place[i + 1]
        BY <1>4, <2>1
    <2> QED  BY <2>2, <2>3
<1> HIDE DEF S
<1>8. size \in S
    BY <1>6, <1>7, SetOfNaturalsInduction
<1> QED  BY <1>3, <1>8 DEF S

\* A layout: the fields of a body, each of four bytes at most.
Names ==
    {"address", "attributes", "day", "demand", "enable", "error", "events", "group_id",
     "hour", "j_number", "minute", "mode", "month", "new_address", "old_address", "percent",
     "revision", "setback", "setpoint", "state", "temp", "type", "version", "weekday", "year"}
Item == [name : Names, size : 0 .. 4]
Layout == Seq(Item)

LEMMA FieldIsItem ==
    ASSUME NEW name \in Names, NEW size \in 0 .. 4
    PROVE  Field(name, size) \in Item
BY DEF Field, Item

LEMMA ShortLayouts ==
    /\ <<>> \in Layout
    /\ \A a \in Item : <<a>> \in Layout \ {<<>>}
    /\ \A a, b \in Item : <<a, b>> \in Layout \ {<<>>}
    /\ \A a, b, c \in Item : <<a, b, c>> \in Layout \ {<<>>}
    /\ \A a, b, c, d, e, f \in Item : <<a, b, c, d, e, f>> \in Layout \ {<<>>}
BY DEF Layout

LEMMA BodyLayouts ==
    ASSUME NEW name \in Names, NEW size \in 0 .. 4
    PROVE  /\ GatewayBody(name, size) \in Layout \ {<<>>}
           /\ DeviceBody(name, size) \in Layout \ {<<>>}
           /\ SetbackBody(name, size) \in Layout \ {<<>>}
<1>1. Field(name, size) \in Item
    BY FieldIsItem
<1>2. Field("address", 2) \in Item /\ Field("setback", 1) \in Item
    BY DEF Field, Item, Names
<1> QED  BY <1>1, <1>2, ShortLayouts DEF GatewayBody, DeviceBody, SetbackBody

LEMMA OtherLayouts ==
    /\ <<Field("group_id", 1), Field("enable", 1)>> \in Layout \ {<<>>}
    /\ <<Field("old_address", 2), Field("new_address", 2)>> \in Layout \ {<<>>}
    /\ <<Field("address", 2)>> \in Layout \ {<<>>}
    /\ <<Field("year", 2), Field("month", 1), Field("day", 1), Field("weekday", 1),
         Field("hour", 1), Field("minute", 1)>> \in Layout \ {<<>>}
<1>1. /\ Field("group_id", 1) \in Item /\ Field("enable", 1) \in Item
      /\ Field("old_address", 2) \in Item /\ Field("new_address", 2) \in Item
      /\ Field("address", 2) \in Item
    BY DEF Field, Item, Names
<1>2. /\ Field("year", 2) \in Item /\ Field("month", 1) \in Item /\ Field("day", 1) \in Item
      /\ Field("weekday", 1) \in Item /\ Field("hour", 1) \in Item
      /\ Field("minute", 1) \in Item
    BY DEF Field, Item, Names
<1> QED  BY <1>1, <1>2, ShortLayouts

\* Every method but NULL_METHOD has fields.
LEMMA SpecsAreLayouts ==
    ASSUME NEW method \in DOMAIN METHOD_SPECS
    PROVE  /\ METHOD_SPECS[method] \in Layout
           /\ method # "NULL_METHOD" => METHOD_SPECS[method] # <<>>
<1> DEFINE Good == Layout \ {<<>>}
<1>1. \A name \in Names : \A size \in 0 .. 4 :
        /\ GatewayBody(name, size) \in Good /\ DeviceBody(name, size) \in Good
        /\ SetbackBody(name, size) \in Good
    BY BodyLayouts
<1>2. \A name \in Names :
        /\ GatewayBody(name, 1) \in Good /\ GatewayBody(name, 2) \in Good
        /\ DeviceBody(name, 1) \in Good /\ DeviceBody(name, 2) \in Good
        /\ DeviceBody(name, 4) \in Good
        /\ SetbackBody(name, 1) \in Good /\ SetbackBody(name, 2) \in Good
    <2>1. 1 \in 0 .. 4 /\ 2 \in 0 .. 4 /\ 4 \in 0 .. 4
        OBVIOUS
    <2> HIDE DEF Good
    <2> QED  BY <1>1, <2>1
<1>3. /\ "error" \in Names /\ "state" \in Names /\ "temp" \in Names /\ "enable" \in Names
      /\ "revision" \in Names /\ "version" \in Names /\ "attributes" \in Names
      /\ "mode" \in Names /\ "demand" \in Names /\ "percent" \in Names
      /\ "setback" \in Names /\ "events" \in Names /\ "type" \in Names
      /\ "j_number" \in Names /\ "setpoint" \in Names
    BY DEF Names
<1> HIDE DEF Good
<1>4. /\ GatewayBody("error", 2) \in Good /\ GatewayBody("state", 1) \in Good
      /\ GatewayBody("temp", 2) \in Good /\ GatewayBody("enable", 1) \in Good
      /\ GatewayBody("revision", 2) \in Good /\ GatewayBody("version", 2) \in Good
      /\ DeviceBody("attributes", 2) \in Good /\ DeviceBody("mode", 1) \in Good
      /\ DeviceBody("demand", 1) \in Good /\ DeviceBody("temp", 2) \in Good
      /\ DeviceBody("percent", 1) \in Good /\ DeviceBody("setback", 1) \in Good
      /\ DeviceBody("events", 1) \in Good /\ DeviceBody("type", 4) \in Good
      /\ DeviceBody("j_number", 4) \in Good
      /\ SetbackBody("temp", 2) \in Good /\ SetbackBody("setpoint", 1) \in Good
      /\ SetbackBody("percent", 1) \in Good
    BY <1>2, <1>3
<1>5. \/ method = "NULL_METHOD" /\ METHOD_SPECS[method] = <<>>
      \/ METHOD_SPECS[method] \in
            {GatewayBody("error", 2), GatewayBody("state", 1), GatewayBody("temp", 2),
             GatewayBody("enable", 1), GatewayBody("revision", 2), GatewayBody("version", 2),
             DeviceBody("attributes", 2), DeviceBody("mode", 1), DeviceBody("demand", 1),
             DeviceBody("temp", 2), DeviceBody("percent", 1), DeviceBody("setback", 1),
             DeviceBody("events", 1), DeviceBody("type", 4), DeviceBody("j_number", 4),
             SetbackBody("temp", 2), SetbackBody("setpoint", 1), SetbackBody("percent", 1),
             <<Field("group_id", 1), Field("enable", 1)>>,
             <<Field("old_address", 2), Field("new_address", 2)>>,
             <<Field("address", 2)>>,
             <<Field("year", 2), Field("month", 1), Field("day", 1), Field("weekday", 1),
               Field("hour", 1), Field("minute", 1)>>}
    BY DEF METHOD_SPECS
<1>6. METHOD_SPECS[method] \in Good \/ (method = "NULL_METHOD" /\ METHOD_SPECS[method] = <<>>)
    BY <1>4, <1>5, OtherLayouts DEF Good
<1>7. <<>> \in Layout
    BY ShortLayouts
<1> QED  BY <1>6, <1>7 DEF Good

LEMMA LayoutItems ==
    ASSUME NEW spec \in Layout
    PROVE  /\ Len(spec) \in Nat /\ DOMAIN spec = 1 .. Len(spec)
           /\ \A i \in DOMAIN spec : spec[i].size \in 0 .. 4
<1>1. \A i \in DOMAIN spec : spec[i] \in Item
    BY DEF Layout
<1>2. \A item \in Item : item.size \in 0 .. 4
    BY DEF Item
<1>3. Len(spec) \in Nat /\ DOMAIN spec = 1 .. Len(spec)
    BY DEF Layout
<1> QED  BY <1>1, <1>2, <1>3

\* The methods that something is said with.
Spoken == GATEWAY_METHODS \cup DEVICE_VALUE_METHODS \cup SETPOINT_METHODS

LEMMA SpokenSpecs ==
    ASSUME NEW method \in Spoken \cup SetterMethods
    PROVE  method \in DOMAIN METHOD_SPECS /\ METHOD_SPECS[method] # <<>>
<1>1. method \in DOMAIN METHOD_SPECS /\ method # "NULL_METHOD"
    BY DEF Spoken, SetterMethods, GATEWAY_METHODS, DEVICE_VALUE_METHODS, SETPOINT_METHODS,
           HumidityMethods, METHOD_SPECS
<1> QED  BY <1>1, SpecsAreLayouts

\* A byte of a number, and the bytes of a field.
LEMMA PackedIsBytes ==
    ASSUME NEW value \in Int, NEW size \in 0 .. 4
    PROVE  _pack_int(value, size) \in Seq(Byte)
<1>1. \A i \in 1 .. 4 : Place[i] \in Nat \ {0}
    BY DEF Place
<1>2. \A place \in Nat \ {0} : (value \div place) % 256 \in Byte
    BY DEF Byte
<1>3. ASSUME NEW i \in 1 .. size
      PROVE  (value \div Place[i]) % 256 \in Byte
    <2>1. i \in 1 .. 4
        OBVIOUS
    <2> QED  BY <1>1, <1>2, <2>1
<1>4. [i \in 1 .. size |-> (value \div Place[i]) % 256] \in Seq(Byte)
    BY <1>3
<1> QED  BY <1>4 DEF _pack_int

\* Integers, by their names.
Integral(body) == \A name \in DOMAIN body : body[name] \in Int

LEMMA PackedBodyIsBytes ==
    ASSUME NEW method, NEW body, Integral(body)
    PROVE  PackedBody(method, body) \in Seq(Byte)
<1> DEFINE spec == METHOD_SPECS[method]
           value(i) == IF spec[i].name \in DOMAIN body THEN body[spec[i].name] ELSE 0
           pieces == [i \in DOMAIN spec |-> _pack_int(value(i), spec[i].size)]
<1>1. CASE ~Known(method)
    BY <1>1 DEF PackedBody
<1>2. CASE Known(method)
    <2>1. spec \in Layout
        BY <1>2, SpecsAreLayouts DEF Known
    <2>2. PICK n \in Nat : DOMAIN spec = 1 .. n
        BY <2>1, LayoutItems
    <2>3. \A i \in 1 .. n : spec[i].size \in 0 .. 4
        BY <2>1, <2>2, LayoutItems
    <2>4. \A i \in 1 .. n : value(i) \in Int
        BY DEF Integral
    <2> HIDE DEF value, spec
    <2>5. \A i \in 1 .. n : _pack_int(value(i), spec[i].size) \in Seq(Byte)
        BY <2>3, <2>4, PackedIsBytes
    <2>6. pieces \in Seq(Seq(Byte))
        BY <2>2, <2>5
    <2>7. PackedBody(method, body) = FlattenSeq(pieces)
        BY <1>2 DEF PackedBody, spec, value
    <2> HIDE DEF pieces
    <2> QED  BY <2>6, <2>7, FlattenType
<1> QED  BY <1>1, <1>2

LEMMA WireType ==
    ASSUME NEW service \in TrpcService, NEW method \in DOMAIN METHOD_SPECS, NEW fields,
           Integral(fields)
    PROVE  /\ to_bytes(create(service, method, fields)) \in Payloads
           /\ to_bytes(create(service, method, fields)).service = service
           /\ to_bytes(create(service, method, fields)).method = method
<1> DEFINE packed == PackedBody(method, fields)
<1>1. packed \in Seq(Byte)
    BY PackedBodyIsBytes
<1>2. to_bytes(create(service, method, fields))
            = [service |-> service, method |-> method, body |-> packed \o <<>>]
    BY DEF to_bytes, create
<1> HIDE DEF packed
<1>3. packed \o <<>> \in Seq(Byte)
    BY <1>1
<1> QED  BY <1>2, <1>3 DEF Payloads

\* The message about a value.
LEMMA MessageType ==
    ASSUME NEW service \in TrpcService, NEW id \in Int, NEW method \in DOMAIN METHOD_SPECS,
           NEW value \in Int
    PROVE  /\ Message(service, Key(id, method), value) \in Payloads
           /\ Message(service, Key(id, method), value).service = service
           /\ Message(service, Key(id, method), value).method = method
<1> DEFINE names == {Head(METHOD_SPECS[method]).name, ValueField(method)}
           fields == [name \in names |-> IF name = ValueField(method) THEN value ELSE id]
<1>1. Integral(fields)
    BY DEF Integral
<1>2. Message(service, Key(id, method), value) = to_bytes(create(service, method, fields))
    BY DEF Message, Key
<1> HIDE DEF fields
<1> QED  BY <1>1, <1>2, WireType

\* The fields of what has been received are numbers, and the last of them is there.
LEMMA UnpackedFields ==
    ASSUME NEW method \in DOMAIN METHOD_SPECS, NEW data \in Seq(Byte)
    PROVE  /\ DOMAIN UnpackedBody(method, data)
                = {METHOD_SPECS[method][i].name : i \in DOMAIN METHOD_SPECS[method]}
           /\ \A name \in DOMAIN UnpackedBody(method, data) :
                UnpackedBody(method, data)[name] \in Nat
<1> DEFINE spec == METHOD_SPECS[method]
           names == {spec[i].name : i \in DOMAIN spec}
           at(name) == CHOOSE j \in DOMAIN spec : spec[j].name = name
           bytes(i) == [j \in 1 .. spec[i].size |-> ByteAt(data, Offset(spec, i) + j)]
<1>1. UnpackedBody(method, data) = [name \in names |-> _unpack_int(bytes(at(name)))]
    BY DEF UnpackedBody, Known
<1>2. \A k : ByteAt(data, k) \in Byte
    <2>1. \A k \in DOMAIN data : data[k] \in Byte
        OBVIOUS
    <2>2. 0 \in Byte
        BY DEF Byte
    <2> QED  BY <2>1, <2>2 DEF ByteAt
<1>3. \A i \in DOMAIN spec : spec[i].size \in 0 .. 4
    BY SpecsAreLayouts, LayoutItems
<1> HIDE DEF spec
<1>4. \A i \in DOMAIN spec : bytes(i) \in [1 .. spec[i].size -> Byte]
    BY <1>2
<1> HIDE DEF bytes
<1>5. \A i \in DOMAIN spec : _unpack_int(bytes(i)) \in Nat
    BY <1>3, <1>4, UnpackedIsNatural
<1>6. \A name \in names : at(name) \in DOMAIN spec
    OBVIOUS
<1> QED  BY <1>1, <1>5, <1>6 DEF spec

\* What a message is about, and the number that it carries.
LEMMA ReceivedType ==
    ASSUME NEW p \in Payloads, METHOD_SPECS[p.method] # <<>>
    PROVE  /\ \E id \in Int : KeyOf(from_bytes(p)) = Key(id, p.method)
           /\ field(from_bytes(p), ValueField(p.method)) \in Nat
<1> DEFINE spec == METHOD_SPECS[p.method]
           body == UnpackedBody(p.method, p.body)
<1>1. /\ from_bytes(p).method = p.method /\ from_bytes(p).body = body
    BY DEF from_bytes
<1>2. p.method \in DOMAIN METHOD_SPECS /\ p.body \in Seq(Byte)
    BY DEF Payloads
<1>3. /\ DOMAIN body = {spec[i].name : i \in DOMAIN spec}
      /\ \A name \in DOMAIN body : body[name] \in Nat
    BY <1>2, UnpackedFields
<1>4. spec \in Layout /\ spec # <<>>
    BY <1>2, SpecsAreLayouts
<1> HIDE DEF body
<1>5. PICK n \in Nat \ {0} : DOMAIN spec = 1 .. n /\ Len(spec) = n
    BY <1>4 DEF Layout
<1>6. Head(spec) = spec[1] /\ Last(spec) = spec[n]
    BY <1>4, <1>5 DEF Last, Layout
<1>7. spec[1].name \in DOMAIN body /\ spec[n].name \in DOMAIN body
    BY <1>3, <1>5
<1>8. /\ body[Head(spec).name] \in Nat
      /\ ValueField(p.method) \in DOMAIN body /\ body[ValueField(p.method)] \in Nat
    BY <1>3, <1>6, <1>7 DEF ValueField
<1>9. field(from_bytes(p), Head(spec).name) \in Int
    BY <1>1, <1>6, <1>7, <1>8 DEF field
<1>10. field(from_bytes(p), ValueField(p.method)) \in Nat
    BY <1>1, <1>8 DEF field
<1>11. KeyOf(from_bytes(p)) = Key(IF Len(spec) = 1 THEN 0
                                  ELSE field(from_bytes(p), Head(spec).name), p.method)
    BY <1>1 DEF KeyOf
<1> QED  BY <1>9, <1>10, <1>11

-----------------------------------------------------------------------------
(* The network and the session: what is said is said in the words of Codec *)

\* The values of the network.
WatchedValues == [Watched -> Nat]

NInv ==
    /\ actual \in WatchedValues
    /\ commands \in Seq(Commands) /\ queue \in Seq(Payloads) /\ backlog \in Seq(Payloads)

\* A command that is served is one of those that are under way.
LEMMA QueueTypes ==
    ASSUME NEW S, NEW s \in Seq(S)
    PROVE  /\ s # <<>> => Head(s) \in S /\ Tail(s) \in Seq(S)
           /\ \A e \in S : /\ Append(s, e) \in Seq(S)
                           /\ Head(Append(s, e)) \in S /\ Tail(Append(s, e)) \in Seq(S)
<1>1. \A r \in Seq(S) \ {<<>>} : Head(r) \in S /\ Tail(r) \in Seq(S)
    OBVIOUS
<1>2. ASSUME NEW e \in S
      PROVE  /\ Append(s, e) \in Seq(S)
             /\ Head(Append(s, e)) \in S /\ Tail(Append(s, e)) \in Seq(S)
    <2>1. Append(s, e) \in Seq(S)
        OBVIOUS
    <2>2. Len(Append(s, e)) = Len(s) + 1 /\ Len(s) \in Nat /\ Len(<<>>) = 0
        OBVIOUS
    <2>3. Append(s, e) # <<>>
        BY <2>2
    <2> QED  BY <1>1, <2>1, <2>3
<1> QED  BY <1>1, <1>2

LEMMA CommandKinds ==
    ASSUME NEW p \in Commands
    PROVE  /\ p \in Payloads /\ METHOD_SPECS[p.method] # <<>>
           /\ p.service \in {"REQUEST", "UPDATE"}
<1>1. /\ p \in Payloads
      /\ \/ p.service = "REQUEST" /\ METHOD_SPECS[p.method] # <<>>
         \/ p.service = "UPDATE" /\ p.method \in SetterMethods \cup {"REPORTING_STATE"}
    BY DEF Commands
<1>2. p.method \in SetterMethods \cup {"REPORTING_STATE"} => METHOD_SPECS[p.method] # <<>>
    BY SpokenSpecs DEF Spoken, GATEWAY_METHODS
<1> QED  BY <1>1, <1>2

LEMMA WatchedKeys ==
    ASSUME NEW k \in Watched
    PROVE  /\ k = Key(k[1], k[2]) /\ k[1] \in Nat
           /\ k[2] \in DOMAIN METHOD_SPECS /\ METHOD_SPECS[k[2]] # <<>>
<1>1. k \in Nat \X Spoken
    <2>1. k \in GatewayKeys \/ k \in Address \X DEVICE_VALUE_METHODS
        BY WatchedAssumption
    <2>2. CASE k \in GatewayKeys
        <3>1. PolledMethods \subseteq Spoken /\ "SETPOINT_GROUP_ENABLE" \in Spoken
            BY DEF PolledMethods, Spoken, GATEWAY_METHODS
        <3>2. Groups \subseteq Nat
            BY WatchedAssumption
        <3> QED  BY <2>2, <3>1, <3>2 DEF GatewayKeys, Key
    <2>3. CASE k \in Address \X DEVICE_VALUE_METHODS
        <3>1. Address \subseteq Nat
            BY DEF Address
        <3> QED  BY <2>3, <3>1 DEF Spoken
    <2> QED  BY <2>1, <2>2, <2>3
<1>2. k = <<k[1], k[2]>> /\ k[1] \in Nat /\ k[2] \in Spoken
    BY <1>1
<1> QED  BY <1>2, SpokenSpecs DEF Key

\* What a command does to the network, and what is answered.
LEMMA ExecutedType ==
    ASSUME NInv, NEW p \in Commands
    PROVE  Executed(p) \in WatchedValues
<1> DEFINE message == from_bytes(p)
           value == field(message, ValueField(message.method))
<1>1. message.service = p.service /\ message.method = p.method
    BY DEF from_bytes
<1>2. value \in Nat /\ \E id \in Int : KeyOf(message) = Key(id, p.method)
    BY <1>1, CommandKinds, ReceivedType
<1>3. Executed(p) = IF p.service = "UPDATE" /\ KeyOf(message) \in Watched
                    THEN [actual EXCEPT ![KeyOf(message)] = value] ELSE actual
    BY <1>1 DEF Executed
<1> HIDE DEF message, value
<1> QED  BY <1>2, <1>3 DEF NInv, WatchedValues

LEMMA ActualType ==
    ASSUME NInv, NEW k
    PROVE  Actual(k) \in Nat
BY DEF NInv, WatchedValues, Actual

LEMMA AnswerType ==
    ASSUME NInv, NEW p \in Commands
    PROVE  Answer(p) \in Payloads
<1>1. CASE p.service = "UPDATE"
    <2>1. Answer(p) = [p EXCEPT !.service = "RESPONSE_UPDATE"]
        BY <1>1 DEF Answer
    <2>2. p \in Payloads /\ "RESPONSE_UPDATE" \in TrpcService
        BY CommandKinds DEF TrpcService
    <2> QED  BY <2>1, <2>2 DEF Payloads
<1>2. CASE p.service # "UPDATE"
    <2>1. PICK id \in Int : KeyOf(from_bytes(p)) = Key(id, p.method)
        BY CommandKinds, ReceivedType
    <2>2. Answer(p) = Message("RESPONSE_REQUEST", Key(id, p.method), Actual(Key(id, p.method)))
        BY <1>2, <2>1 DEF Answer
    <2>3. p.method \in DOMAIN METHOD_SPECS /\ "RESPONSE_REQUEST" \in TrpcService
        BY CommandKinds DEF Payloads, TrpcService
    <2>4. Actual(Key(id, p.method)) \in Int
        BY ActualType
    <2> QED  BY <2>2, <2>3, <2>4, MessageType
<1> QED  BY <1>1, <1>2

LEMMA ReportingCommandType ==
    ASSUME NEW enabled
    PROVE  ReportingCommand(enabled) \in Commands
<1>1. Integral(ReportingStateFields(enabled))
    BY DEF Integral, ReportingStateFields
<1>2. "UPDATE" \in TrpcService /\ "REPORTING_STATE" \in DOMAIN METHOD_SPECS
    BY SpokenSpecs DEF TrpcService, Spoken, GATEWAY_METHODS
<1> QED  BY <1>1, <1>2, WireType DEF ReportingCommand, Commands

LEMMA ResponseType ==
    ASSUME NInv, NEW enabled, NEW response \in Responses(enabled)
    PROVE  response = None \/ response \in Payloads
BY ReportingCommandType, AnswerType DEF Responses

LEMMA RequestType ==
    ASSUME NEW k \in Watched
    PROVE  Message("REQUEST", k, 0) \in Commands
<1>1. k = Key(k[1], k[2]) /\ k[1] \in Int /\ k[2] \in DOMAIN METHOD_SPECS
    BY WatchedKeys
<1>2. "REQUEST" \in TrpcService /\ 0 \in Int
    BY DEF TrpcService
<1>3. /\ Message("REQUEST", Key(k[1], k[2]), 0) \in Payloads
      /\ Message("REQUEST", Key(k[1], k[2]), 0).service = "REQUEST"
      /\ Message("REQUEST", Key(k[1], k[2]), 0).method = k[2]
    BY <1>1, <1>2, MessageType
<1> QED  BY <1>1, <1>3, WatchedKeys DEF Commands

\* What is published, or goes over the line.
LEMMA PublishedType ==
    ASSUME NInv, NEW p, p = None \/ p \in Payloads, Published(p)
    PROVE  queue' \in Seq(Payloads)
<1>1. queue \in Seq(Payloads)
    BY DEF NInv
<1>2. queue' = queue \/ (p \in Payloads /\ queue' = Append(queue, p))
    BY DEF Published
<1> QED  BY <1>1, <1>2, QueueTypes

LEMMA ReportsType ==
    ASSUME NInv, NEW p \in Payloads, Reports(p) \/ Unmatched(p)
    PROVE  queue' \in Seq(Payloads) /\ backlog' \in Seq(Payloads)
<1>1. CASE UNCHANGED <<backlog, queue>>
    BY <1>1 DEF NInv
<1>2. CASE Unmatched(p)
    <2>1. Published(p) /\ backlog' = Append(backlog, p)
        BY <1>2 DEF Unmatched
    <2>2. backlog \in Seq(Payloads)
        BY DEF NInv
    <2> QED  BY <2>1, <2>2, PublishedType, QueueTypes
<1> QED  BY <1>1, <1>2 DEF Reports

LEMMA GivenUpType ==
    ASSUME NInv, NEW p \in Commands, GivenUp(p)
    PROVE  commands' \in Seq(Commands) /\ actual' = actual
<1>1. commands \in Seq(Commands)
    BY DEF NInv
<1>2. commands' = commands \/ commands' = Append(commands, p)
    BY DEF GivenUp
<1>3. Append(commands, p) \in Seq(Commands)
    BY <1>1, QueueTypes
<1> QED  BY <1>1, <1>2, <1>3 DEF GivenUp

LEMMA SetReportingType ==
    ASSUME NInv, NEW enabled, NEW response, set_reporting_state(enabled, response)
    PROVE  actual' \in WatchedValues /\ commands' \in Seq(Commands)
<1>1. ReportingCommand(enabled) \in Commands
    BY ReportingCommandType
<1>2. actual \in WatchedValues /\ commands \in Seq(Commands)
    BY DEF NInv
<1>3. CASE actual' = Executed(ReportingCommand(enabled)) /\ UNCHANGED commands
    BY <1>1, <1>2, <1>3, ExecutedType
<1>4. CASE GivenUp(ReportingCommand(enabled))
    BY <1>1, <1>2, <1>4, GivenUpType
<1> QED  BY <1>3, <1>4 DEF set_reporting_state

LEMMA LastReportingType ==
    ASSUME NInv, NEW enabled, LastReportingCommand(enabled)
    PROVE  actual' \in WatchedValues /\ commands' \in Seq(Commands)
<1>1. actual' = actual \/ actual' = Executed(ReportingCommand(enabled))
    BY DEF LastReportingCommand
<1>2. actual \in WatchedValues /\ Executed(ReportingCommand(enabled)) \in WatchedValues
    BY ReportingCommandType, ExecutedType DEF NInv
<1>3. <<>> \in Seq(Commands)
    OBVIOUS
<1> QED  BY <1>1, <1>2, <1>3 DEF LastReportingCommand

LEMMA ValuesType ==
    ASSUME NInv, NEW keys, NEW got, Values(keys, got)
    PROVE  actual' \in WatchedValues /\ commands' \in Seq(Commands)
<1>1. CASE UNCHANGED <<commands, actual>>
    BY <1>1 DEF NInv
<1>2. CASE \E lost \in keys \cap Watched : GivenUp(Message("REQUEST", lost, 0))
    BY <1>2, RequestType, GivenUpType DEF NInv
<1> QED  BY <1>1, <1>2 DEF Values

-----------------------------------------------------------------------------
(* The steps of the network and the session *)

LEMMA InitNetwork == Init => NInv
<1> SUFFICES ASSUME Init PROVE NInv
    OBVIOUS
<1>1. /\ actual = [k \in Watched |-> 0]
      /\ commands = <<>> /\ queue = <<>> /\ backlog = <<>>
    BY DEF Init
<1>2. actual \in WatchedValues
    BY <1>1 DEF WatchedValues
<1>3. <<>> \in Seq(Commands) /\ <<>> \in Seq(Payloads)
    OBVIOUS
<1> QED  BY <1>1, <1>2, <1>3 DEF NInv

LEMMA NetworkUntouched ==
    ASSUME NInv, UNCHANGED <<actual, commands, queue, backlog>>
    PROVE  NInv'
BY DEF NInv, WatchedValues

\* A step about the network only, and one about the session only.
LEMMA NetworkStep ==
    ASSUME NInv, actual' \in WatchedValues, commands' \in Seq(Commands),
           queue' = queue \/ queue' \in Seq(Payloads),
           backlog' = backlog \/ backlog' \in Seq(Payloads)
    PROVE  NInv'
<1>1. queue \in Seq(Payloads) /\ backlog \in Seq(Payloads)
    BY DEF NInv
<1>2. queue' \in Seq(Payloads) /\ backlog' \in Seq(Payloads)
    BY <1>1
<1>3. WatchedValues' = WatchedValues
    BY DEF WatchedValues
<1> QED  BY <1>2, <1>3 DEF NInv

LEMMA ServeNetwork ==
    ASSUME NInv, Serve
    PROVE  NInv'
<1>1. commands # <<>> /\ commands \in Seq(Commands)
    BY DEF Serve, NInv
<1>2. Head(commands) \in Commands /\ Tail(commands) \in Seq(Commands)
    BY <1>1, QueueTypes
<1>3. actual' = Executed(Head(commands)) /\ commands' = Tail(commands)
    BY DEF Serve
<1>4. Executed(Head(commands)) \in WatchedValues /\ Answer(Head(commands)) \in Payloads
    BY <1>2, ExecutedType, AnswerType
<1>5. Unmatched(Answer(Head(commands)))
    BY DEF Serve
<1>6. queue' \in Seq(Payloads) /\ backlog' \in Seq(Payloads)
    BY <1>4, <1>5, ReportsType
<1> QED  BY <1>2, <1>3, <1>4, <1>6, NetworkStep

\* A value of the network changes.
LEMMA RoomIsPositive ==
    ASSUME NEW method, NEW n \in Nat
    PROVE  (n + 1) % Room(method) \in 0 .. Room(method) - 1 /\ Room(method) \in Nat
<1>1. Room(method) \in {2, 256, 65536}
    BY DEF Room
<1> QED  BY <1>1

LEMMA ChangeNetwork ==
    ASSUME NInv, NEW k \in Watched, Change(k)
    PROVE  NInv'
<1> DEFINE value == (actual[k] + 1) % Room(k[2])
<1>1. actual' = [actual EXCEPT ![k] = value] /\ UNCHANGED commands
    BY DEF Change
<1>2. actual \in [Watched -> Nat]
    BY DEF NInv, WatchedValues
<1>3. value \in Nat
    BY <1>2, RoomIsPositive
<1> HIDE DEF value
<1>4. actual' \in WatchedValues
    BY <1>1, <1>2, <1>3 DEF WatchedValues
<1>5. k = Key(k[1], k[2]) /\ k[1] \in Int /\ k[2] \in DOMAIN METHOD_SPECS
    BY WatchedKeys
<1>6. actual'[k] \in Int
    BY <1>1, <1>2, <1>3
<1>7. "REPORT" \in TrpcService
    BY DEF TrpcService
<1>8. Message("REPORT", Key(k[1], k[2]), actual'[k]) \in Payloads
    BY <1>5, <1>6, <1>7, MessageType
<1>9. Reports(Message("REPORT", k, actual'[k]))
    BY DEF Change
<1>10. queue' \in Seq(Payloads) /\ backlog' \in Seq(Payloads)
    BY <1>5, <1>8, <1>9, ReportsType
<1>11. commands' \in Seq(Commands)
    BY <1>1 DEF NInv
<1> QED  BY <1>4, <1>10, <1>11, NetworkStep

LEMMA EnvironmentNetwork ==
    ASSUME NInv, Environment
    PROVE  NInv'
<1>1. actual \in WatchedValues /\ commands \in Seq(Commands)
    BY DEF NInv
<1>2. ASSUME NEW devices, Topology(devices)
      PROVE  NInv'
    <2>1. Integral(<<>>) /\ "REPORT" \in TrpcService /\ "TAKING_ADDRESS" \in DOMAIN METHOD_SPECS
        BY DEF Integral, TrpcService, METHOD_SPECS
    <2>2. to_bytes(create("REPORT", "TAKING_ADDRESS", <<>>)) \in Payloads
        BY <2>1, WireType
    <2>3. /\ Reports(to_bytes(create("REPORT", "TAKING_ADDRESS", <<>>)))
          /\ UNCHANGED <<actual, commands>>
        BY <1>2 DEF Topology
    <2>4. queue' \in Seq(Payloads) /\ backlog' \in Seq(Payloads)
        BY <2>2, <2>3, ReportsType
    <2> QED  BY <1>1, <2>3, <2>4, NetworkStep
<1>3. CASE LinkFails
    <2>1. UNCHANGED <<actual, queue, backlog>> /\ commands' = <<>>
        BY <1>3 DEF LinkFails
    <2>2. <<>> \in Seq(Commands)
        OBVIOUS
    <2> QED  BY <1>1, <2>1, <2>2, NetworkStep
<1> QED  BY <1>2, <1>3, ServeNetwork, ChangeNetwork DEF Environment

LEMMA LoopNetwork ==
    ASSUME NInv, Loop
    PROVE  NInv'
<1>1. /\ actual \in WatchedValues /\ commands \in Seq(Commands)
      /\ queue \in Seq(Payloads) /\ backlog \in Seq(Payloads)
    BY DEF NInv
<1>2. CASE Handle
    <2>1. UNCHANGED <<actual, commands, backlog>> /\ queue # <<>> /\ queue' = Tail(queue)
        BY <1>2 DEF Handle, network
    <2>2. Tail(queue) \in Seq(Payloads)
        BY <1>1, <2>1, QueueTypes
    <2> QED  BY <1>1, <2>1, <2>2, NetworkStep
<1>3. CASE Reconnect
    <2>1. UNCHANGED <<actual, commands, queue, backlog>>
        BY <1>3 DEF Reconnect, network
    <2> QED  BY <2>1, NetworkUntouched
<1>4. CASE Resubscribe
    <2>1. PICK response : set_reporting_state(TRUE, response)
        BY <1>4 DEF Resubscribe
    <2>2. actual' \in WatchedValues /\ commands' \in Seq(Commands)
        BY <2>1, SetReportingType
    <2>3. queue' = backlog /\ UNCHANGED backlog
        BY <1>4 DEF Resubscribe
    <2> QED  BY <1>1, <2>2, <2>3, NetworkStep
<1> QED  BY <1>2, <1>3, <1>4 DEF Loop

\* Enabling and disabling reporting, within an operation and at its end.
LEMMA ReportingNetwork ==
    ASSUME NInv, NEW t \in Apps, Pause(t) \/ Enable(t) \/ Restore(t) \/ Close(t)
    PROVE  NInv'
<1>1. /\ actual \in WatchedValues /\ commands \in Seq(Commands)
      /\ queue \in Seq(Payloads) /\ backlog \in Seq(Payloads)
    BY DEF NInv
<1>2. UNCHANGED backlog
    BY DEF Pause, Enable, Restore, Close
<1>3. \/ \E enabled \in BOOLEAN : \E response \in Responses(enabled) :
            /\ set_reporting_state(enabled, response)
            /\ Published(response) \/ queue' = backlog
      \/ (\E enabled \in BOOLEAN : LastReportingCommand(enabled)) /\ UNCHANGED queue
      \/ UNCHANGED <<actual, commands, queue>>
    BY DEF Pause, Enable, Restore, Close
<1>4. ASSUME NEW enabled \in BOOLEAN, NEW response \in Responses(enabled),
             set_reporting_state(enabled, response),
             Published(response) \/ queue' = backlog
      PROVE  NInv'
    <2>1. actual' \in WatchedValues /\ commands' \in Seq(Commands)
        BY <1>4, SetReportingType
    <2>2. queue' \in Seq(Payloads)
        BY <1>1, <1>4, ResponseType, PublishedType
    <2> QED  BY <1>2, <2>1, <2>2, NetworkStep
<1>5. ASSUME NEW enabled \in BOOLEAN, LastReportingCommand(enabled), UNCHANGED queue
      PROVE  NInv'
    BY <1>2, <1>5, LastReportingType, NetworkStep
<1> QED  BY <1>1, <1>2, <1>3, <1>4, <1>5, NetworkStep

\* What polls the values of the gateway and of the devices.
LEMMA PollsNetwork ==
    ASSUME NInv, NEW t \in Apps, poll_gateway(t) \/ _dump_device_snapshot(t)
    PROVE  NInv'
<1>1. \E keys, got : Values(keys, got)
    BY DEF poll_gateway, _dump_device_snapshot
<1>2. actual' \in WatchedValues /\ commands' \in Seq(Commands)
    BY <1>1, ValuesType
<1>3. UNCHANGED <<queue, backlog>>
    BY DEF poll_gateway, _dump_device_snapshot, session
<1> QED  BY <1>2, <1>3, NetworkStep

LEMMA FailsNetwork ==
    ASSUME NInv, NEW t \in Apps, Fails(t)
    PROVE  NInv'
<1>1. actual \in WatchedValues /\ commands \in Seq(Commands)
    BY DEF NInv
<1>2. \A late \in InFlight(t) : late \in Seq(Commands)
    <2>1. \A command \in Commands : <<command>> \in Seq(Commands)
        OBVIOUS
    <2>2. <<>> \in Seq(Commands)
        OBVIOUS
    <2>3. /\ <<ReportingCommand(TRUE)>> \in Seq(Commands)
          /\ <<ReportingCommand(FALSE)>> \in Seq(Commands)
        BY <2>1, ReportingCommandType
    <2> QED  BY <2>2, <2>3 DEF InFlight
<1>3. commands' = commands \/ \E late \in InFlight(t) : commands' = commands \o late
    BY DEF Fails
<1>4. \A late \in Seq(Commands) : commands \o late \in Seq(Commands)
    BY <1>1
<1>5. commands' \in Seq(Commands)
    BY <1>1, <1>2, <1>3, <1>4
<1>6. UNCHANGED <<actual, queue, backlog>>
    BY DEF Fails
<1> QED  BY <1>1, <1>5, <1>6, NetworkStep

\* The fields that a setter sends are numbers.
LEMMA SetterCommand ==
    ASSUME NEW method \in SetterMethods, NEW address \in Int, NEW value \in Int
    PROVE  to_bytes(create("UPDATE", method, Payload(method, address, value))) \in Commands
<1>1. \A n \in Int : RoundedHalf(n) \in Int
    BY DEF RoundedHalf
<1>2. celsius_to_dege(value) \in Int /\ celsius_to_degh(value) \in Int
    BY <1>1 DEF celsius_to_dege, celsius_to_degh
<1>3. ThaSetback_CURRENT \in Int
    BY DEF ThaSetback_CURRENT
<1> HIDE DEF celsius_to_dege, celsius_to_degh, ThaSetback_CURRENT
<1>4. /\ Integral(SetpointPayload(address, value)) /\ Integral(TargetPayload(address, value))
      /\ Integral(FanPayload(address, value)) /\ Integral(ModeSettingFields(address, value))
    BY <1>2, <1>3 DEF Integral, SetpointPayload, TargetPayload, FanPayload, ModeSettingFields,
              SetbackSetpointFields, SetbackTemperatureFields, SetbackPercentFields
<1>5. Integral(Payload(method, address, value))
    BY <1>4 DEF Payload, SetterMethods, DegEMethods
<1>6. "UPDATE" \in TrpcService /\ method \in DOMAIN METHOD_SPECS
    BY SpokenSpecs DEF TrpcService
<1> QED  BY <1>5, <1>6, WireType DEF Commands

\* The setters: what is sent joins the commands, and the first of them is served.
LEMMA SetNetwork ==
    ASSUME NInv, NEW t \in Apps, NEW method \in SetterMethods, NEW address \in Int,
           NEW value \in Int, SetLatest(t, method, address, value)
    PROVE  NInv'
<1> DEFINE command == to_bytes(create("UPDATE", method, Payload(method, address, value)))
           pending == Append(commands, command)
<1>1. command \in Commands /\ commands \in Seq(Commands) /\ actual \in WatchedValues
    BY SetterCommand DEF NInv
<1>2. UNCHANGED backlog
    BY SetterLeaves
<1>3. \/ /\ commands' = Tail(pending) /\ actual' = Executed(Head(pending))
         /\ Published(Answer(Head(pending)))
      \/ GivenUp(command) /\ UNCHANGED queue
      \/ commands' \in {pending, commands} /\ UNCHANGED <<actual, queue>>
    BY DEF SetLatest
<1> HIDE DEF command
<1>4. /\ pending \in Seq(Commands)
      /\ Head(pending) \in Commands /\ Tail(pending) \in Seq(Commands)
    BY <1>1, QueueTypes
<1> HIDE DEF pending
<1>5. CASE /\ commands' = Tail(pending) /\ actual' = Executed(Head(pending))
           /\ Published(Answer(Head(pending)))
    <2>1. Executed(Head(pending)) \in WatchedValues /\ Answer(Head(pending)) \in Payloads
        BY <1>4, ExecutedType, AnswerType
    <2>2. queue' \in Seq(Payloads)
        BY <1>5, <2>1, PublishedType
    <2> QED  BY <1>2, <1>4, <1>5, <2>1, <2>2, NetworkStep
<1>6. CASE GivenUp(command) /\ UNCHANGED queue
    <2>1. commands' \in Seq(Commands) /\ actual' = actual
        BY <1>1, <1>6, GivenUpType
    <2> QED  BY <1>1, <1>2, <1>6, <2>1, NetworkStep
<1>7. CASE commands' \in {pending, commands} /\ UNCHANGED <<actual, queue>>
    BY <1>1, <1>2, <1>4, <1>7, NetworkStep
<1> QED  BY <1>3, <1>5, <1>6, <1>7

\* What the application may ask for.
LEMMA AskedTypes ==
    ASSUME NEW address \in UNION {Addresses(devices) : devices \in Inventories},
           NEW setting \in Settings
    PROVE  address \in Int /\ setting[1] \in SetterMethods /\ setting[2] \in Int
<1>1. PICK devices \in Inventories : address \in Addresses(devices)
    OBVIOUS
<1>2. address \in Nat
    <2>1. \A i \in DOMAIN devices : devices[i].address \in Address
        BY InventoryAssumption
    <2>2. \A n \in Address : n \in Nat
        BY DEF Address
    <2> QED  BY <1>1, <2>1, <2>2 DEF Addresses
<1> QED  BY <1>2, SettingAssumption

LEMMA StepNetwork ==
    ASSUME NInv, [Next]_vars
    PROVE  NInv'
<1>1. CASE Environment
    BY <1>1, EnvironmentNetwork
<1>2. CASE Loop
    BY <1>2, LoopNetwork
<1>3. ASSUME NEW t \in Apps, App(t)
      PROVE  NInv'
    <2>1. CASE Restarts(t) \/ Discover(t) \/ Install(t)
        <3>1. UNCHANGED <<actual, commands, queue, backlog>>
            BY <2>1 DEF Restarts, Start, Rediscover, RefreshRuntime, Calls, Discover, Install,
                        network, session
        <3> QED  BY <3>1, NetworkUntouched
    <2>2. CASE Stop(t)
        <3>1. UNCHANGED <<actual, commands, backlog>> /\ queue' = <<>>
            BY <2>2 DEF Stop, Calls, network
        <3>2. <<>> \in Seq(Payloads) /\ actual \in WatchedValues /\ commands \in Seq(Commands)
            BY DEF NInv
        <3> QED  BY <3>1, <3>2, NetworkStep
    <2>3. CASE Pause(t) \/ Enable(t) \/ Restore(t) \/ Close(t)
        BY <2>3, ReportingNetwork
    <2>4. CASE poll_gateway(t) \/ _dump_device_snapshot(t)
        BY <2>4, PollsNetwork
    <2>5. CASE Fails(t)
        BY <2>5, FailsNetwork
    <2>6. ASSUME NEW address \in UNION {Addresses(devices) : devices \in Inventories},
                 NEW setting \in Settings, SetLatest(t, setting[1], address, setting[2])
          PROVE  NInv'
        BY <2>6, AskedTypes, SetNetwork
    <2> QED  BY <1>3, <2>1, <2>2, <2>3, <2>4, <2>5, <2>6 DEF App, Restarts
<1>4. CASE UNCHANGED vars
    <2>1. UNCHANGED <<actual, commands, queue, backlog>>
        BY <1>4 DEF vars, network, session
    <2> QED  BY <2>1, NetworkUntouched
<1> QED  BY <1>1, <1>2, <1>3, <1>4 DEF Next

-----------------------------------------------------------------------------
(* The connection and the tasks *)

Connected ==
    /\ link \in {"up", "lost", "down"} /\ loop \in {"none", "opened", "reading"}
    /\ running = (loop # "none")

\* Every step that moves the loop or the connection.
Moves(t) == Start(t) \/ Stop(t) \/ Close(t) \/ Enable(t) \/ Fails(t) \/ Restore(t)

LEMMA MovesConnected ==
    ASSUME Connected, NEW t \in Apps, Moves(t)
    PROVE  Connected'
<1>1. link' \in {link, "up", "down"}
    BY DEF Moves, Start, Stop, Close, Enable, Fails, Restore, LastReportingCommand
<1>2. \/ UNCHANGED <<running, loop>>
      \/ running' = TRUE /\ loop' = "reading"
      \/ running' = FALSE /\ loop' = "none"
    BY DEF Moves, Start, Stop, Close, Enable, Fails, Restore, controller
<1>3. running' = (loop' # "none")
    BY <1>2 DEF Connected
<1>4. loop' \in {loop, "reading", "none"}
    BY <1>2
<1> QED  BY <1>1, <1>3, <1>4 DEF Connected

LEMMA StepConnected ==
    ASSUME Connected, [Next]_vars
    PROVE  Connected'
<1>1. CASE Environment
    <2>1. UNCHANGED <<running, loop>> /\ (link' = link \/ link' = "lost")
        BY <1>1 DEF Environment, Serve, LinkFails, Change, Topology, controller
    <2> QED  BY <2>1 DEF Connected
<1>2. CASE Loop
    <2>1. /\ UNCHANGED running /\ loop # "none" /\ loop' \in {"opened", "reading"}
          /\ link' = link \/ link' = "up"
        BY <1>2 DEF Loop, Handle, Reconnect, Resubscribe
    <2>2. running' = (loop' # "none")
        BY <2>1 DEF Connected
    <2> QED  BY <2>1, <2>2 DEF Connected
<1>3. ASSUME NEW t \in Apps, App(t)
      PROVE  Connected'
    <2>1. \/ Moves(t)
          \/ Install(t) \/ RefreshRuntime(t) \/ (\E pause \in BOOLEAN : Rediscover(t, pause))
          \/ Pause(t) \/ Discover(t) \/ poll_gateway(t) \/ _dump_device_snapshot(t)
          \/ \E method, address, value : SetLatest(t, method, address, value)
        BY <1>3 DEF App, Moves
    <2>2. \A pause \in BOOLEAN : Rediscover(t, pause) => UNCHANGED <<link, running, loop>>
        BY DEF Rediscover, controller
    <2>3. \A method, address, value :
            SetLatest(t, method, address, value) => UNCHANGED <<link, running, loop>>
        BY SetterLeaves DEF controller
    <2>4. Install(t) \/ RefreshRuntime(t) \/ Pause(t) => UNCHANGED <<link, running, loop>>
        BY DEF Install, RefreshRuntime, Pause, session, controller
    <2>5. Discover(t) \/ poll_gateway(t) \/ _dump_device_snapshot(t)
            => UNCHANGED <<link, running, loop>>
        BY DEF Discover, poll_gateway, _dump_device_snapshot, session, controller
    <2>6. CASE UNCHANGED <<link, running, loop>>
        BY <2>6 DEF Connected
    <2> QED  BY <2>1, <2>2, <2>3, <2>4, <2>5, <2>6, MovesConnected
<1>4. CASE UNCHANGED vars
    BY <1>4 DEF vars, session, controller, Connected
<1> QED  BY <1>1, <1>2, <1>3, <1>4 DEF Next

\* What a task holds, by where it is.
Holds(point, operation, pauses, data) ==
    /\ operation \in Operations \cup {None}
    /\ (point = "idle") = (operation = None)
    /\ point = "idle" => ~pauses /\ data = None

TasksInv ==
    /\ pc \in [Apps -> Points]
    /\ op = [t \in Apps |-> op[t]] /\ paused = [t \in Apps |-> paused[t]]
    /\ polled = [t \in Apps |-> polled[t]]
    /\ \A t \in Apps : Holds(pc[t], op[t], paused[t], polled[t])

LEMMA TaskGoes ==
    ASSUME TasksInv, NEW t \in Apps, NEW point \in Points, NEW operation, NEW pauses, NEW data,
           Goto(t, point), op' = [op EXCEPT ![t] = operation],
           paused' = [paused EXCEPT ![t] = pauses], polled' = [polled EXCEPT ![t] = data],
           Holds(point, operation, pauses, data)
    PROVE  TasksInv'
<1>1. pc' = [pc EXCEPT ![t] = point]
    BY DEF Goto
<1>2. ASSUME NEW u \in Apps
      PROVE  Holds(pc'[u], op'[u], paused'[u], polled'[u])
    <2>1. CASE u = t
        <3>1. /\ pc'[u] = point /\ op'[u] = operation /\ paused'[u] = pauses
              /\ polled'[u] = data
            BY <1>1, <2>1 DEF TasksInv
        <3> QED  BY <3>1
    <2>2. CASE u # t
        <3>1. /\ pc'[u] = pc[u] /\ op'[u] = op[u] /\ paused'[u] = paused[u]
              /\ polled'[u] = polled[u]
            BY <1>1, <2>2 DEF TasksInv
        <3> QED  BY <3>1 DEF TasksInv
    <2> QED  BY <2>1, <2>2
<1>3. pc' \in [Apps -> Points]
    BY <1>1 DEF TasksInv
<1>4. /\ op' = [u \in Apps |-> op'[u]] /\ paused' = [u \in Apps |-> paused'[u]]
      /\ polled' = [u \in Apps |-> polled'[u]]
    BY DEF TasksInv
<1> QED  BY <1>2, <1>3, <1>4 DEF TasksInv

LEMMA TasksUntouched ==
    ASSUME TasksInv, UNCHANGED <<pc, op, paused, polled>>
    PROVE  TasksInv'
BY DEF TasksInv

\* A task that is not idle goes on.
LEMMA TaskGoesOn ==
    ASSUME TasksInv, NEW t \in Apps, NEW point \in Points \ {"idle"}, pc[t] # "idle",
           Goto(t, point), UNCHANGED <<op, paused>>, NEW data,
           polled' = [polled EXCEPT ![t] = data]
    PROVE  TasksInv'
<1>1. op' = [op EXCEPT ![t] = op[t]] /\ paused' = [paused EXCEPT ![t] = paused[t]]
    BY DEF TasksInv
<1>2. Holds(pc[t], op[t], paused[t], polled[t])
    BY DEF TasksInv
<1>3. Holds(point, op[t], paused[t], data)
    BY <1>2 DEF Holds
<1> QED  BY <1>1, <1>3, TaskGoes

LEMMA TaskReturns ==
    ASSUME TasksInv, NEW t \in Apps, Return(t)
    PROVE  TasksInv'
<1>1. Holds("idle", None, FALSE, None)
    BY DEF Holds
<1> QED  BY <1>1, TaskGoes DEF Return, Points

\* A task that is idle is called.
LEMMA TaskIsCalled ==
    ASSUME TasksInv, NEW t \in Apps, NEW operation \in Operations,
           NEW point \in Points \ {"idle"}, NEW pauses, NEW data,
           Calls(t, operation), Goto(t, point), paused' = [paused EXCEPT ![t] = pauses],
           polled' = [polled EXCEPT ![t] = data]
    PROVE  TasksInv'
<1>1. Holds(point, operation, pauses, data)
    BY OperationAssumption DEF Holds
<1> QED  BY <1>1, TaskGoes DEF Calls

LEMMA CallsTasks ==
    ASSUME TasksInv, NEW t \in Apps, Restarts(t) \/ Stop(t)
    PROVE  TasksInv'
<1>1. polled = [polled EXCEPT ![t] = polled[t]] /\ paused = [paused EXCEPT ![t] = paused[t]]
    BY DEF TasksInv
<1>2. \E operation \in Operations : Calls(t, operation)
    BY DEF Restarts, Start, Rediscover, RefreshRuntime, Stop, Operations
<1>3. \E point \in Points \ {"idle"} : Goto(t, point)
    <2>1. \E point \in {"pause", "discover", "gateway", "close"} : Goto(t, point)
        BY DEF Restarts, Start, Rediscover, RefreshRuntime, Stop, Poll
    <2> QED  BY <2>1 DEF Points
<1>4. \E pauses : paused' = [paused EXCEPT ![t] = pauses]
    BY <1>1 DEF Restarts, Start, Rediscover, RefreshRuntime, Stop
<1>5. \E data : polled' = [polled EXCEPT ![t] = data]
    BY <1>1 DEF Restarts, Start, Rediscover, RefreshRuntime, Stop, Poll
<1> QED  BY <1>2, <1>3, <1>4, <1>5, TaskIsCalled

\* The steps of a task between its call and its return.
LEMMA StepsTasks ==
    ASSUME TasksInv, NEW t \in Apps,
           Polls(t) \/ Discover(t) \/ Install(t) \/ Enable(t) \/ Ends(t)
    PROVE  TasksInv'
<1>1. \/ Return(t)
      \/ /\ pc[t] # "idle" /\ UNCHANGED <<op, paused>>
         /\ \E point \in Points \ {"idle"} : Goto(t, point)
         /\ \E data : polled' = [polled EXCEPT ![t] = data]
    <2>1. polled = [polled EXCEPT ![t] = polled[t]]
        BY DEF TasksInv
    <2>2. CASE Pause(t)
        BY <2>1, <2>2 DEF Pause, Points
    <2>3. CASE poll_gateway(t)
        <3>1. PICK gateway : polled' = [polled EXCEPT ![t].gateway = gateway]
            BY <2>3 DEF poll_gateway
        <3>2. \E data : polled' = [polled EXCEPT ![t] = data]
            BY <3>1
        <3> QED  BY <2>3, <3>2 DEF poll_gateway, Points
    <2>4. CASE _dump_device_snapshot(t)
        <3>1. PICK d, methods, got :
                polled' = [polled EXCEPT ![t].devices =
                                Append(@, DeviceSnapshot(d, methods, got))]
            BY <2>4 DEF _dump_device_snapshot
        <3>2. \E data : polled' = [polled EXCEPT ![t] = data]
            BY <3>1
        <3> QED  BY <2>4, <3>2 DEF _dump_device_snapshot, Points
    <2>5. CASE Discover(t)
        BY <2>5 DEF Discover, Poll, Points
    <2>6. CASE Install(t)
        BY <2>1, <2>6 DEF Install, Points
    <2>7. CASE Enable(t)
        BY <2>7 DEF Enable
    <2>8. CASE Ends(t)
        BY <2>1, <2>8 DEF Ends, Fails, Restore, Close, Points
    <2> QED  BY <2>2, <2>3, <2>4, <2>5, <2>6, <2>7, <2>8 DEF Polls
<1> QED  BY <1>1, TaskReturns, TaskGoesOn

LEMMA StepTasks ==
    ASSUME TasksInv, [Next]_vars
    PROVE  TasksInv'
<1>1. CASE Environment \/ Loop
    <2>1. UNCHANGED <<pc, op, paused, polled>>
        BY <1>1 DEF Environment, Loop, Serve, LinkFails, Change, Topology, Handle, Reconnect,
                    Resubscribe, tasks
    <2> QED  BY <2>1, TasksUntouched
<1>2. ASSUME NEW t \in Apps, App(t)
      PROVE  TasksInv'
    <2>1. \/ Restarts(t) \/ Stop(t)
          \/ Polls(t) \/ Discover(t) \/ Install(t) \/ Enable(t) \/ Ends(t)
          \/ \E method, address, value : SetLatest(t, method, address, value)
        BY <1>2 DEF App, Restarts, Polls, Ends
    <2>2. CASE \E method, address, value : SetLatest(t, method, address, value)
        <3>1. UNCHANGED <<pc, op, paused, polled>>
            BY <2>2, SetterLeaves DEF tasks
        <3> QED  BY <3>1, TasksUntouched
    <2> QED  BY <2>1, <2>2, CallsTasks, StepsTasks
<1>3. CASE UNCHANGED vars
    <2>1. UNCHANGED <<pc, op, paused, polled>>
        BY <1>3 DEF vars, tasks
    <2> QED  BY <2>1, TasksUntouched
<1> QED  BY <1>1, <1>2, <1>3 DEF Next

-----------------------------------------------------------------------------
(* Types *)

\* What every reachable state satisfies, by its parts.
LEMMA TypeParts ==
    ASSUME NInv, Connected, TasksInv, TInv
    PROVE  TypeOK
<1>1. /\ inventory \in Inventories /\ discovery \in Inventories \cup {None}
      /\ actual \in [Watched -> Nat]
      /\ commands \in Seq(Commands) /\ queue \in Seq(Payloads) /\ backlog \in Seq(Payloads)
    BY DEF NInv, TInv, WatchedValues
<1>2. link \in {"up", "lost", "down"} /\ loop \in {"none", "opened", "reading"}
    BY DEF Connected
<1>3. running = (loop # "none")
    BY DEF Connected
<1>4. state # None => state.discovery \in Inventories
    BY DEF TInv, Used, Sound
<1>5. ASSUME NEW t \in Apps
      PROVE  /\ op[t] \in Operations \cup {None}
             /\ (pc[t] = "idle") = (op[t] = None)
             /\ pc[t] = "idle" => ~paused[t] /\ polled[t] = None
    BY DEF TasksInv, Holds
<1>6. ASSUME NEW t \in Apps, pc[t] \in {"gateway", "device", "refreshed"}
      PROVE  /\ target[t] \in Inventories
             /\ \A i \in DOMAIN polled[t].devices : polled[t].devices[i].info = target[t][i]
    <2>1. PollOf(pc[t], target[t], polled[t])
        BY DEF TInv
    <2> QED  BY <1>6, <2>1 DEF PollOf, PollPoints
<1> QED  BY <1>1, <1>2, <1>3, <1>4, <1>5, <1>6 DEF TypeOK

\* The controller and what it works with keep their form, whatever the network, the
\* application and the connection do: what is queued or under way can be unpacked
\* and answered, the loop runs exactly while the controller does, and a poll has got
\* the first of the devices it is about (controller.py:116-260; trpc.py:480-603).
THEOREM TypesAreRight == Spec => []TypeOK
<1>1. Init => NInv /\ Connected /\ TasksInv /\ TInv
    <2>1. Init => Connected /\ TasksInv
        BY DEF Init, Connected, TasksInv, Holds, Points
    <2> QED  BY <2>1, InitNetwork, InitTopology
<1>2. NInv /\ Connected /\ TasksInv /\ TInv /\ [Next]_vars
        => NInv' /\ Connected' /\ TasksInv' /\ TInv'
    BY StepNetwork, StepConnected, StepTasks, StepTopology
<1>3. NInv /\ Connected /\ TasksInv /\ TInv => TypeOK
    BY TypeParts
<1> QED  BY <1>1, <1>2, <1>3, PTL DEF Spec

=============================================================================

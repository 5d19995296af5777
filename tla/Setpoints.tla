----------------------------- MODULE Setpoints -----------------------------
(***************************************************************************)
(* The setpoints of one thermostat, from the poll that seeds them          *)
(* (_dump_device_snapshot and _dump_setpoints, client.py) to the reports   *)
(* that keep them up to date (SetpointValues, models.py; apply_message,    *)
(* state.py).  A device keeps one setpoint per setback and one setback is  *)
(* active.  The line between device and client is first in, first out; a   *)
(* request may be lost or answered after its time-out.                     *)
(*                                                                         *)
(* Setbacks are numbered as in ThaSetback: WAKE_4 is 0 and CURRENT, which  *)
(* stands for the active one, is the greatest.  The number of setbacks     *)
(* between them is a parameter.  The other fields of a snapshot, the other *)
(* setpoint kinds and the delays between requests are left out.            *)
(***************************************************************************)
EXTENDS Integers, Sequences, SequencesExt

CONSTANTS
    None,           \* Python's None
    CURRENT,        \* the number of the setback CURRENT
    MaxMoves,       \* bounds the changes of the device
    MaxTimeouts     \* bounds the requests that time out

WAKE_4 == 0
Setbacks == 0 .. CURRENT - 1

ASSUME SetbackAssumption == CURRENT \in Nat \ {0} /\ None \notin 0 .. CURRENT
ASSUME BoundAssumption == MaxMoves \in Nat /\ MaxTimeouts \in Nat

\* The n-th value of the setpoint of setback s.  Values of different setbacks
\* differ, so that a value in the wrong place shows.
Value == Setbacks \X (0 .. MaxMoves)

ASSUME ValueAssumption == None \notin Value

VARIABLES
    active, point, moves,   \* the device: its active setback, its setpoints
    asked, wire,            \* requests and messages under way
    todo,                   \* the requests left to the poll; the first one
    sent,                   \*   waits for its answer if sent is TRUE
    include_setbacks,       \* the parameter of poll()
    setpoints,              \* the SetpointValues of the device
    backlog,                \* the session's _message_backlog
    listening,              \* reports are on and apply_message gets them
    timeouts,
    excuses                 \* history: why the client cannot know better

device == <<active, point, moves>>
poll == <<todo, sent, include_setbacks>>
vars == <<device, asked, wire, poll, setpoints, backlog, listening, timeouts,
          excuses>>

-----------------------------------------------------------------------------
(* SetpointValues *)

get(v, setback) == IF setback \in DOMAIN v.values THEN v.values[setback] ELSE None

current(v) ==
    IF /\ v.active_setback \notin {None, CURRENT}
       /\ \/ v.current_observed_setback # v.active_setback
          \/ get(v, v.active_setback) # None
    THEN get(v, v.active_setback)
    ELSE get(v, CURRENT)

\* A dict of values with one entry set.
Put(values, setback, value) ==
    [s \in DOMAIN values \cup {setback} |-> IF s = setback THEN value ELSE values[s]]

\* Mutant: a value for CURRENT is not kept under the active setback's name.
with_value_as_named(v, setback, value) ==
    [v EXCEPT !.values = Put(@, setback, value)]

with_value(v, setback, value) ==
    IF setback # CURRENT
    THEN [v EXCEPT !.values = Put(@, setback, value)]
    ELSE LET observed == IF v.active_setback = CURRENT THEN None ELSE v.active_setback
         IN  [v EXCEPT
                !.current_observed_setback = observed,
                !.values = IF observed = None
                           THEN Put(@, CURRENT, value)
                           ELSE Put(Put(@, observed, value), CURRENT, value)]

with_active_setback(v, setback) == [v EXCEPT !.active_setback = setback]

-----------------------------------------------------------------------------
(* Requests and messages *)

StateRequest == [method |-> "SETBACK_STATE", setback |-> None]
SetpointRequest(s) == [method |-> "HEAT_SETPOINT", setback |-> s]

\* Mutant: CURRENT is asked for before the setbacks it may stand for.
CurrentFirst(all) ==
    <<StateRequest, SetpointRequest(CURRENT)>>
        \o (IF all THEN [i \in 1 .. CURRENT |-> SetpointRequest(i - 1)] ELSE <<>>)

PollRequests(all) ==
    <<StateRequest>>
        \o (IF all THEN [i \in 1 .. CURRENT |-> SetpointRequest(i - 1)] ELSE <<>>)
        \o <<SetpointRequest(CURRENT)>>

\* A report or an answer: of a SETBACK_STATE message setback is the payload.
StateMessage(answers, s) ==
    [answers |-> answers, method |-> "SETBACK_STATE", setback |-> s, value |-> None]
SetpointMessage(answers, label, s) ==
    [answers |-> answers, method |-> "HEAT_SETPOINT", setback |-> label,
     value |-> <<s, point[s]>>]

\* What the device may answer to r at this moment.  A request for CURRENT is
\* answered under the name of the active setback, or as CURRENT.
AnswersTo(r) ==
    IF r.method = "SETBACK_STATE" THEN {StateMessage(r, active)}
    ELSE IF r.setback # CURRENT THEN {SetpointMessage(r, r.setback, r.setback)}
    ELSE {SetpointMessage(r, label, active) : label \in {active, CURRENT}}

\* ResponseMatch: only a response matches, and a request for CURRENT has no
\* match_fields.
Matches(r, m) ==
    /\ m.answers # None
    /\ m.method = r.method
    /\ r.setback \in {None, CURRENT} \/ m.setback = r.setback

Requests == {StateRequest} \cup {SetpointRequest(s) : s \in 0 .. CURRENT}
Messages ==
    [answers : Requests \cup {None}, method : {"SETBACK_STATE", "HEAT_SETPOINT"},
     setback : 0 .. CURRENT, value : Value \cup {None}]

-----------------------------------------------------------------------------
(* The poll *)

Init ==
    /\ active \in Setbacks
    /\ point = [s \in Setbacks |-> 0]
    /\ moves = 0
    /\ asked = <<>> /\ wire = <<>> /\ backlog = <<>>
    /\ include_setbacks \in BOOLEAN
    /\ todo = PollRequests(include_setbacks)
    /\ sent = FALSE
    /\ setpoints = [values |-> <<>>, active_setback |-> None,
                    current_observed_setback |-> None]
    /\ listening = FALSE
    /\ timeouts = 0
    /\ excuses = {}

Send ==
    /\ todo # <<>> /\ ~sent
    /\ sent' = TRUE
    /\ asked' = Append(asked, Head(todo))
    /\ UNCHANGED <<device, wire, todo, include_setbacks, setpoints, backlog,
                   listening, timeouts, excuses>>

DeviceAnswers ==
    /\ asked # <<>>
    /\ \E m \in AnswersTo(Head(asked)) : wire' = Append(wire, m)
    /\ asked' = Tail(asked)
    /\ UNCHANGED <<device, poll, setpoints, backlog, listening, timeouts, excuses>>

\* Python's "a or b" on setbacks: WAKE_4 is false as None is.
Or(a, b) == IF a \in {None, WAKE_4} THEN b ELSE a

\* The answer to a request for CURRENT: which setback it is about.
CurrentAnswer(m) ==
    LET reported == Or(m.setback, setpoints.active_setback)
        named == IF reported = None THEN setpoints.values
                 ELSE Put(setpoints.values, reported, m.value)
    IN  [values |-> Put(named, CURRENT, m.value),
         active_setback |-> Or(reported, setpoints.active_setback),
         current_observed_setback |-> reported]

\* What the loop of _dump_setpoints, or the request before it, makes of m.
Seeded(r, m) ==
    IF r.method = "SETBACK_STATE" THEN with_active_setback(setpoints, m.setback)
    ELSE IF r.setback = CURRENT THEN CurrentAnswer(m)
    ELSE [setpoints EXCEPT !.values = Put(@, r.setback, m.value)]

\* What the poll gets wrong: m answers an earlier request, the setback that m
\* names is dropped as false, or CURRENT itself is taken for the active one.
Confusions(r, m) ==
    IF r # SetpointRequest(CURRENT) THEN {}
    ELSE {confusion \in {"mistaken", "misnamed", "echoed"} :
            CASE confusion = "mistaken" -> m.answers # r
              [] confusion = "misnamed" -> Or(m.setback, setpoints.active_setback) # m.setback
              [] confusion = "echoed" -> m.setback = CURRENT}

Answered ==
    /\ sent /\ wire # <<>>
    /\ Matches(Head(todo), Head(wire))
    /\ setpoints' = Seeded(Head(todo), Head(wire))
    /\ excuses' = excuses \cup Confusions(Head(todo), Head(wire))
    /\ wire' = Tail(wire)
    /\ todo' = Tail(todo) /\ sent' = FALSE
    /\ UNCHANGED <<device, asked, include_setbacks, backlog, listening, timeouts>>

\* A message that no request waits for while nobody reads reports.
Unmatched ==
    /\ ~listening /\ wire # <<>>
    /\ ~ (sent /\ Matches(Head(todo), Head(wire)))
    /\ backlog' = Append(backlog, Head(wire))
    /\ wire' = Tail(wire)
    /\ UNCHANGED <<device, asked, poll, setpoints, listening, timeouts, excuses>>

\* The request is lost, if it is still under way, or its answer will be late.
TimesOut ==
    /\ sent /\ timeouts < MaxTimeouts
    /\ timeouts' = timeouts + 1
    /\ \/ UNCHANGED asked
       \/ asked # <<>> /\ asked' = Front(asked)
    /\ setpoints' =
         IF Head(todo) = StateRequest THEN setpoints
         ELSE [setpoints EXCEPT !.values = Put(@, Head(todo).setback, None)]
    /\ todo' = Tail(todo) /\ sent' = FALSE
    /\ UNCHANGED <<device, wire, include_setbacks, backlog, listening, excuses>>

\* The controller turns reports on and reads them, the backlog first.
Listen ==
    /\ todo = <<>> /\ ~listening
    /\ listening' = TRUE
    /\ wire' = backlog \o wire
    /\ backlog' = <<>>
    /\ UNCHANGED <<device, asked, poll, setpoints, timeouts, excuses>>

-----------------------------------------------------------------------------
(* Reports *)

\* Mutant: a change of the setback is only noted in setback_state.
StateOnly(v, raw) == v

\* DeviceRuntime: the setback state makes a setback active in every kind of
\* setpoint; a setpoint has its own slots.
with_scalar(v, raw) == with_active_setback(v, raw)
with_setpoint(v, setback, raw) == with_value(v, setback, raw)

Updated(v, m) ==
    IF m.method = "SETBACK_STATE"
    THEN with_scalar(v, m.setback)
    ELSE with_setpoint(v, m.setback, m.value)

Apply ==
    /\ listening /\ wire # <<>>
    /\ setpoints' = Updated(setpoints, Head(wire))
    /\ excuses' =
         IF Head(wire).method = "HEAT_SETPOINT" /\ Head(wire).setback = CURRENT
                /\ setpoints.active_setback = None
         THEN excuses \cup {"unplaced"} ELSE excuses
    /\ wire' = Tail(wire)
    /\ UNCHANGED <<device, asked, poll, backlog, listening, timeouts>>

\* The device tells of a change, unless reports are off.
Tell(message) ==
    /\ moves < MaxMoves
    /\ moves' = moves + 1
    /\ IF listening
       THEN wire' = Append(wire, message) /\ UNCHANGED excuses
       ELSE excuses' = excuses \cup {"missed"} /\ UNCHANGED wire
    /\ UNCHANGED <<asked, poll, setpoints, backlog, listening, timeouts>>

ChangeActive(s) ==
    /\ s # active
    /\ active' = s
    /\ UNCHANGED point
    /\ Tell(StateMessage(None, s))

\* Changed at the thermostat or by an update: the report, or the response to
\* the update, names the setback or, if it is the active one, CURRENT.
ChangePoint(s) ==
    /\ point' = [point EXCEPT ![s] = @ + 1]
    /\ UNCHANGED active
    /\ \E label \in {s} \cup (IF s = active THEN {CURRENT} ELSE {}) :
        Tell([SetpointMessage(None, label, s) EXCEPT !.value = <<s, point'[s]>>])

Next ==
    \/ Send \/ DeviceAnswers \/ Answered \/ Unmatched \/ TimesOut
    \/ Listen \/ Apply
    \/ \E s \in Setbacks : ChangeActive(s) \/ ChangePoint(s)

Spec == Init /\ [][Next]_vars

-----------------------------------------------------------------------------
(* Properties *)

\* The types, and the poll's program counter: a request that is waited for is
\* the first one left, CURRENT is the last one asked for, and nobody applies
\* reports before the poll is over.
TypeOK ==
    /\ active \in Setbacks
    /\ point \in [Setbacks -> 0 .. MaxMoves]
    /\ moves \in 0 .. MaxMoves
    /\ asked \in Seq(Requests)
    /\ wire \in Seq(Messages) /\ backlog \in Seq(Messages)
    /\ todo \in Seq(Requests)
    /\ todo # <<>> => Last(todo) = SetpointRequest(CURRENT)
    /\ sent \in BOOLEAN /\ include_setbacks \in BOOLEAN /\ listening \in BOOLEAN
    /\ sent \/ listening => (todo = <<>>) = listening
    /\ DOMAIN setpoints.values \subseteq 0 .. CURRENT
    /\ \A s \in DOMAIN setpoints.values : setpoints.values[s] \in Value \cup {None}
    /\ {setpoints.active_setback, setpoints.current_observed_setback}
          \subseteq (0 .. CURRENT) \cup {None}
    /\ timeouts \in 0 .. MaxTimeouts
    /\ excuses \subseteq {"missed", "mistaken", "misnamed", "echoed", "unplaced"}

\* Everything that the device said has been applied, and it said enough.
InStep == listening /\ asked = <<>> /\ wire = <<>> /\ excuses = {}

\* "Return the active setpoint value" (SetpointValues.current): once the
\* client has caught up, current is the device's setpoint for its active
\* setback, whatever order setback changes, setpoint changes, late answers and
\* the backlog came in.  It is unknown only if a request of the poll timed out
\* or the poll did not ask for the setback that is active now; never stale.
CurrentIsActive ==
    InStep =>
        \/ current(setpoints) = <<active, point[active]>>
        \/ current(setpoints) = None /\ (timeouts > 0 \/ ~include_setbacks)

\* Once the client has caught up, no setback has an outdated setpoint: a
\* change that was reported as CURRENT also reached the setback it was about.
SlotsAreCurrent ==
    InStep =>
        \A s \in Setbacks : get(setpoints, s) \in {None, <<s, point[s]>>}

\* "assert values.occ_2 == 52": the value in an answer to a request for
\* CURRENT belongs to the setback that the answer names, so no setback ever
\* shows a value of another one.
SlotsAreOwn ==
    \A s \in Setbacks :
        get(setpoints, s) # None => get(setpoints, s)[1] = s

=============================================================================

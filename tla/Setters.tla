------------------------------ MODULE Setters ------------------------------
(***************************************************************************)
(* What a user of the library does with the setpoints of Setpoints: set    *)
(* them, at once (set_heat_setpoint, client.py) or as latest values        *)
(* (set_latest_heat_setpoint), while the device and its reports go on.     *)
(* A call goes through the coalesced updates or straight to the            *)
(* transaction lock of session.py, over the line to the device, and comes  *)
(* back as a response that both answers the call and is applied to the     *)
(* client's values.                                                        *)
(*                                                                         *)
(* One device and one kind of setpoint: calls for others have other keys   *)
(* and only compete for the lock.  Connections that fail and calls that    *)
(* are cancelled are left to Session; no update is lost on the line.       *)
(***************************************************************************)
EXTENDS Setpoints, FiniteSets

CONSTANT MaxSets    \* bounds the calls and the time-outs of the poll together

ASSUME SetAssumption == MaxSets \in Nat

VARIABLES
    sets,           \* the calls, in the order they were made
    queue,          \* _coalesced_updates
    lockers,        \* the calls that wait for _transaction_lock
    holder,         \* the call that holds it, NoCall if none
    written,        \* updates on the line to the device
    effect,         \* history: the value that each call gave a setpoint
    reordered       \* history: what let a call pass an earlier one

controls == <<sets, queue, lockers, holder, written, effect, reordered>>

NoCall == 0

InitSets ==
    /\ Init
    /\ sets = <<>> /\ queue = <<>> /\ lockers = <<>> /\ holder = NoCall
    /\ written = <<>> /\ effect = <<>> /\ reordered = {}

-----------------------------------------------------------------------------
(* The calls.  "now" is set_heat_setpoint(); "post" and "confirm" are        *)
(* set_latest_heat_setpoint() with confirm=False and with confirm=True.      *)

Update(kind, setback) == [kind |-> kind, setback |-> setback]

New == Len(sets) + 1

\* The bounds: room for the call, and for what it and the others will change.
\* A client that has an excuse keeps it, and no property says what it shows then.
MaySet ==
    /\ listening /\ excuses = {} /\ New + timeouts <= MaxSets
    /\ moves + Cardinality({u \in DOMAIN sets : effect[u] = None}) < MaxMoves

\* update_response() waits for the lock, and may so pass updates in the queue.
SetNow(setback) ==
    /\ MaySet
    /\ sets' = Append(sets, Update("now", setback))
    /\ effect' = Append(effect, None)
    /\ lockers' = Append(lockers, New)
    /\ reordered' = IF queue = <<>> THEN reordered ELSE reordered \cup {"overtook"}
    /\ UNCHANGED <<vars, queue, holder, written>>

\* An update under the same coalesce_key, which names the method, the address
\* and the setback: CURRENT and the setback it stands for have different keys.
Previous(setback) == {u \in ToSet(queue) : sets[u].setback = setback}

\* The new update takes the place of the previous one, or goes to the end.
Enqueue(previous) ==
    IF previous = {} THEN Append(queue, New)
    ELSE [i \in DOMAIN queue |-> IF queue[i] \in previous THEN New ELSE queue[i]]

SetLatest(setback, kind) ==
    LET previous == Previous(setback)
    IN  /\ MaySet
        /\ sets' = Append(sets, Update(kind, setback))
        /\ effect' = Append(effect, None)
        /\ queue' = Enqueue(previous)
        /\ reordered' = IF previous = {} \/ Last(queue) \in previous THEN reordered
                        ELSE reordered \cup {"aliased"}
        /\ UNCHANGED <<vars, lockers, holder, written>>

-----------------------------------------------------------------------------
(* The session *)

\* Mutant: popitem() without last=False.
PopLast == Len(queue)

\* The position of the update that popitem(last=False) takes.
Popped == 1

\* The writer task has one update at a time.
WriterIdle ==
    \A u \in (ToSet(lockers) \cup {holder}) \ {NoCall} : sets[u].kind = "now"

Pop ==
    /\ queue # <<>> /\ WriterIdle
    /\ lockers' = Append(lockers, queue[Popped])
    /\ queue' = RemoveAt(queue, Popped)
    /\ UNCHANGED <<vars, sets, holder, written, effect, reordered>>

\* Mutant: an update nobody confirms keeps the lock like the others.
AwaitsAlways(u) == TRUE

Awaits(u) == sets[u].kind # "post"

Write ==
    /\ lockers # <<>> /\ holder = NoCall
    /\ LET u == Head(lockers)
       IN  /\ written' = Append(written, u)
           /\ holder' = IF Awaits(u) THEN u ELSE NoCall
    /\ lockers' = Tail(lockers)
    /\ UNCHANGED <<vars, sets, queue, effect, reordered>>

\* The ResponseMatch of an update has all of its fields: the response must
\* name the same setback and carry the same value.
Confirms(u, m) ==
    /\ m.method = "HEAT_SETPOINT"
    /\ m.setback = sets[u].setback
    /\ m.value = effect[u]

Ends ==
    /\ holder' = NoCall
    /\ UNCHANGED <<vars, sets, queue, lockers, written, effect, reordered>>

\* The response has been dispatched.  It is applied before or after the
\* caller wakes up.
Confirm ==
    /\ holder # NoCall
    /\ \E m \in ToSet(wire) : Confirms(holder, m)
    /\ Ends

GiveUp == holder # NoCall /\ Ends

\* The report loop gets a message only after the session has dispatched it.
ApplyDispatched ==
    /\ Apply
    /\ holder # NoCall => ~Confirms(holder, Head(wire))
    /\ UNCHANGED controls

-----------------------------------------------------------------------------
(* The device *)

Slot(setback) == IF setback = CURRENT THEN active ELSE setback

\* It takes what is on the line in order, sets the setpoint and responds.
Execute ==
    /\ written # <<>> /\ asked = <<>>
    /\ LET u == Head(written)
           s == Slot(sets[u].setback)
       IN  /\ ChangePoint(s)
           /\ effect' = [effect EXCEPT ![u] = <<s, point'[s]>>]
    /\ written' = Tail(written)
    /\ UNCHANGED <<sets, queue, lockers, holder, reordered>>

Poll == Send \/ DeviceAnswers \/ Answered \/ Unmatched \/ TimesOut \/ Listen

NextSets ==
    \/ Poll /\ UNCHANGED controls
    \/ \E s \in Setbacks : (ChangeActive(s) \/ ChangePoint(s)) /\ UNCHANGED controls
    \/ ApplyDispatched
    \/ \E setback \in 0 .. CURRENT :
            \/ SetNow(setback)
            \/ \E kind \in {"post", "confirm"} : SetLatest(setback, kind)
    \/ Pop \/ Write \/ Confirm \/ GiveUp
    \/ Execute

SpecSets == InitSets /\ [][NextSets]_<<vars, controls>>

-----------------------------------------------------------------------------
(* Properties *)

\* The types.  A call is in one place at most before it is written, and only
\* a call that waits for a response holds the lock.
ControlsOK ==
    /\ sets \in Seq([kind : {"now", "post", "confirm"}, setback : 0 .. CURRENT])
    /\ Len(effect) = Len(sets) /\ ToSet(effect) \subseteq Value \cup {None}
    /\ IsInjective(queue \o lockers) /\ IsInjective(written)
    /\ \A u \in ToSet(queue \o lockers \o written) : effect[u] = None
    /\ \A u \in ToSet(queue) : sets[u].kind # "now"
    /\ holder # NoCall => sets[holder].kind # "post" /\ holder \notin ToSet(lockers)
    /\ reordered \subseteq {"overtook", "aliased"}

Quiet ==
    /\ InStep
    /\ queue = <<>> /\ lockers = <<>> /\ holder = NoCall /\ written = <<>>

\* "Update a heat setpoint, replacing older unsent heat setpoints": when
\* everything has settled, no setpoint has a value that an earlier call gave it
\* after a later one, and the client shows what the last call set or a change
\* after it, whichever name calls and responses used for the active setback.
\* A set at once may pass one that is queued, and an update that replaces
\* another may come before one queued in between under the setback's other
\* name.
LastSetIsShown ==
    Quiet /\ reordered = {} =>
        \A u \in DOMAIN sets :
            effect[u] # None =>
                LET s == effect[u][1]
                IN  /\ get(setpoints, s) # None /\ get(setpoints, s)[2] >= effect[u][2]
                    /\ \A v \in u + 1 .. Len(sets) :
                        effect[v] # None /\ effect[v][1] = s => effect[v][2] > effect[u][2]

=============================================================================

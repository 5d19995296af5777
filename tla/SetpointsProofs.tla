--------------------------- MODULE SetpointsProofs ---------------------------
(***************************************************************************)
(* For any number of setbacks, changes, time-outs and calls: a client that *)
(* has caught up shows the device's setpoints and no outdated one, and the *)
(* last of the user's calls wins.                                          *)
(***************************************************************************)
EXTENDS Setters, SequenceTheorems, TLAPS

-----------------------------------------------------------------------------
(* Sequences *)

LEMMA AppendedTo ==
    ASSUME NEW S, NEW s \in Seq(S), NEW e \in S
    PROVE  /\ Append(s, e) \in Seq(S) /\ Len(Append(s, e)) = Len(s) + 1
           /\ DOMAIN s = 1 .. Len(s) /\ DOMAIN Append(s, e) = 1 .. Len(s) + 1
           /\ Append(s, e)[Len(s) + 1] = e
           /\ \A i \in 1 .. Len(s) : Append(s, e)[i] = s[i]
OBVIOUS

LEMMA WithoutHead ==
    ASSUME NEW S, NEW s \in Seq(S), s # <<>>
    PROVE  /\ Tail(s) \in Seq(S) /\ Len(s) \in Nat \ {0} /\ Len(Tail(s)) = Len(s) - 1
           /\ DOMAIN s = 1 .. Len(s) /\ DOMAIN Tail(s) = 1 .. Len(s) - 1
           /\ Head(s) \in S /\ Head(s) = s[1]
           /\ \A i \in 1 .. Len(s) - 1 : Tail(s)[i] = s[i + 1]
OBVIOUS

Joins(joined, s, t) == joined = s \o t

LEMMA Joined ==
    ASSUME NEW S, NEW s \in Seq(S), NEW t \in Seq(S), NEW joined, Joins(joined, s, t)
    PROVE  /\ joined \in Seq(S) /\ Len(joined) = Len(s) + Len(t)
           /\ Len(s) \in Nat /\ Len(t) \in Nat
           /\ DOMAIN s = 1 .. Len(s) /\ DOMAIN t = 1 .. Len(t)
           /\ DOMAIN joined = 1 .. Len(s) + Len(t)
           /\ \A i \in 1 .. Len(s) : joined[i] = s[i]
           /\ \A i \in 1 .. Len(t) : joined[Len(s) + i] = t[i]
BY DEF Joins

-----------------------------------------------------------------------------
(* The client's values *)

\* The fields of a SetpointValues.
IsClient(v) ==
    v = [values |-> v.values, active_setback |-> v.active_setback,
         current_observed_setback |-> v.current_observed_setback]

\* w has one entry set that v has not.
Sets(w, v, setback, value) == w.values = Put(v.values, setback, value)

LEMMA PutShows ==
    ASSUME NEW v, NEW w, NEW setback, NEW value, Sets(w, v, setback, value)
    PROVE  /\ DOMAIN w.values = DOMAIN v.values \cup {setback}
           /\ \A s : get(w, s) = IF s = setback THEN value ELSE get(v, s)
<1>1. PICK f : f = w.values
    OBVIOUS
<1>2. PICK g : g = v.values
    OBVIOUS
<1>3. f = [s \in DOMAIN g \cup {setback} |-> IF s = setback THEN value ELSE g[s]]
    BY <1>1, <1>2 DEF Put, Sets
<1>4. \A s : get(w, s) = IF s \in DOMAIN f THEN f[s] ELSE None
    BY <1>1 DEF get
<1>5. \A s : get(v, s) = IF s \in DOMAIN g THEN g[s] ELSE None
    BY <1>2 DEF get
<1> QED  BY <1>1, <1>2, <1>3, <1>4, <1>5

\* The setback for which a value under the name of CURRENT is kept.
Observed(v) == IF v.active_setback = CURRENT THEN None ELSE v.active_setback

LEMMA WithValue ==
    ASSUME NEW v, NEW setback, NEW value, IsClient(v)
    PROVE  LET w == with_value(v, setback, value)
               named == IF setback = CURRENT THEN Observed(v) ELSE None
           IN  /\ IsClient(w) /\ w.active_setback = v.active_setback
               /\ w.current_observed_setback =
                    IF setback = CURRENT THEN Observed(v) ELSE v.current_observed_setback
               /\ DOMAIN w.values = DOMAIN v.values \cup {setback}
                                        \cup (IF named = None THEN {} ELSE {named})
               /\ \A s : get(w, s) =
                    IF s = setback \/ (named # None /\ s = named) THEN value ELSE get(v, s)
<1>1. PICK w : w = with_value(v, setback, value)
    OBVIOUS
<1>2. CASE setback # CURRENT
    <2>1. /\ IsClient(w) /\ w.active_setback = v.active_setback
          /\ w.current_observed_setback = v.current_observed_setback
          /\ Sets(w, v, setback, value)
        BY <1>1, <1>2 DEF IsClient, with_value, Sets
    <2> QED  BY <1>1, <1>2, <2>1, PutShows
<1>3. CASE setback = CURRENT /\ Observed(v) = None
    <2>1. /\ IsClient(w) /\ w.active_setback = v.active_setback
          /\ w.current_observed_setback = Observed(v)
          /\ Sets(w, v, setback, value)
        BY <1>1, <1>3 DEF IsClient, with_value, Observed, Sets
    <2> QED  BY <1>1, <1>3, <2>1, PutShows
<1>4. CASE setback = CURRENT /\ Observed(v) # None
    <2>1. PICK u : u = [values |-> Put(v.values, Observed(v), value)]
        OBVIOUS
    <2>2. Sets(u, v, Observed(v), value)
        BY <2>1 DEF Sets
    <2>3. /\ IsClient(w) /\ w.active_setback = v.active_setback
          /\ w.current_observed_setback = Observed(v)
          /\ Sets(w, u, setback, value)
        BY <1>1, <1>4, <2>2 DEF IsClient, with_value, Observed, Sets
    <2>4. /\ DOMAIN u.values = DOMAIN v.values \cup {Observed(v)}
          /\ \A s : get(u, s) = IF s = Observed(v) THEN value ELSE get(v, s)
        BY <2>2, PutShows
    <2>5. /\ DOMAIN w.values = DOMAIN u.values \cup {setback}
          /\ \A s : get(w, s) = IF s = setback THEN value ELSE get(u, s)
        BY <2>3, PutShows
    <2> QED  BY <1>1, <1>4, <2>3, <2>4, <2>5
<1> QED  BY <1>2, <1>3, <1>4

\* The setback that an answer to a request for CURRENT is taken to be about.
Reported(m) == Or(m.setback, setpoints.active_setback)

LEMMA CurrentAnswered ==
    ASSUME NEW m
    PROVE  LET w == CurrentAnswer(m)
           IN  /\ IsClient(w) /\ w.active_setback = Or(Reported(m), setpoints.active_setback)
               /\ w.current_observed_setback = Reported(m)
               /\ DOMAIN w.values = DOMAIN setpoints.values \cup {CURRENT}
                                        \cup (IF Reported(m) = None THEN {} ELSE {Reported(m)})
               /\ \A s : get(w, s) =
                    IF s = CURRENT \/ (Reported(m) # None /\ s = Reported(m)) THEN m.value
                    ELSE get(setpoints, s)
<1>1. PICK w : w = CurrentAnswer(m)
    OBVIOUS
<1>2. PICK u : u = [values |-> IF Reported(m) = None THEN setpoints.values
                               ELSE Put(setpoints.values, Reported(m), m.value)]
    OBVIOUS
<1>3. /\ IsClient(w) /\ w.active_setback = Or(Reported(m), setpoints.active_setback)
      /\ w.current_observed_setback = Reported(m) /\ Sets(w, u, CURRENT, m.value)
    BY <1>1, <1>2 DEF IsClient, CurrentAnswer, Reported, Sets
<1>4. /\ DOMAIN w.values = DOMAIN u.values \cup {CURRENT}
      /\ \A s : get(w, s) = IF s = CURRENT THEN m.value ELSE get(u, s)
    BY <1>3, PutShows
<1>5. CASE Reported(m) = None
    <2>1. u.values = setpoints.values
        BY <1>2, <1>5
    <2>2. \A s : get(u, s) = get(setpoints, s)
        BY <2>1 DEF get
    <2> QED  BY <1>1, <1>3, <1>4, <1>5, <2>1, <2>2
<1>6. CASE Reported(m) # None
    <2>1. Sets(u, setpoints, Reported(m), m.value)
        BY <1>2, <1>6 DEF Sets
    <2>2. /\ DOMAIN u.values = DOMAIN setpoints.values \cup {Reported(m)}
          /\ \A s : get(u, s) = IF s = Reported(m) THEN m.value ELSE get(setpoints, s)
        BY <2>1, PutShows
    <2> QED  BY <1>1, <1>3, <1>4, <1>6, <2>2
<1> QED  BY <1>5, <1>6

\* The value of one setback changes and nothing else.
Enter(v, setback, value) == [v EXCEPT !.values = Put(@, setback, value)]

LEMMA OneSlot ==
    ASSUME NEW setback, NEW value, IsClient(setpoints)
    PROVE  LET w == Enter(setpoints, setback, value)
           IN  /\ IsClient(w) /\ w.active_setback = setpoints.active_setback
               /\ w.current_observed_setback = setpoints.current_observed_setback
               /\ DOMAIN w.values = DOMAIN setpoints.values \cup {setback}
               /\ \A s : get(w, s) = IF s = setback THEN value ELSE get(setpoints, s)
<1>1. PICK w : w = Enter(setpoints, setback, value)
    OBVIOUS
<1>2. /\ IsClient(w) /\ w.active_setback = setpoints.active_setback
      /\ w.current_observed_setback = setpoints.current_observed_setback
      /\ Sets(w, setpoints, setback, value)
    BY <1>1 DEF Enter, IsClient, Sets
<1> QED  BY <1>1, <1>2, PutShows

LEMMA ActiveSetback ==
    ASSUME NEW v, NEW setback, IsClient(v)
    PROVE  LET w == with_active_setback(v, setback)
           IN  /\ IsClient(w) /\ w.active_setback = setback /\ w.values = v.values
               /\ w.current_observed_setback = v.current_observed_setback
               /\ \A s : get(w, s) = get(v, s)
BY DEF IsClient, with_active_setback, get

-----------------------------------------------------------------------------
(* Types *)

Names == 0 .. CURRENT \cup {None}

ClientType(v) ==
    /\ IsClient(v) /\ DOMAIN v.values \subseteq 0 .. CURRENT
    /\ \A s \in DOMAIN v.values : get(v, s) \in Value \cup {None}
    /\ v.active_setback \in Names /\ v.current_observed_setback \in Names

\* A request is waited for while there is one and nobody listens, CURRENT is asked
\* for once, and a setpoint changes at most as often as the device does.
PollInv ==
    /\ sent => todo # <<>> /\ ~listening
    /\ listening => todo = <<>>
    /\ \A i \in DOMAIN todo : todo[i] = SetpointRequest(CURRENT) => i = Len(todo)
    /\ \A s \in Setbacks : point[s] <= moves

TypeInv == TypeOK /\ ClientType(setpoints) /\ PollInv

LEMMA Numbers == CURRENT \in Nat \ {0} /\ MaxMoves \in Nat /\ MaxTimeouts \in Nat
BY SetbackAssumption, BoundAssumption

LEMMA SetbackNames ==
    /\ Setbacks \subseteq 0 .. CURRENT /\ CURRENT \in 0 .. CURRENT /\ CURRENT \notin Setbacks
    /\ None \notin 0 .. CURRENT /\ \A s \in Setbacks : s # None /\ s # CURRENT
BY SetbackAssumption DEF Setbacks

LEMMA DeviceType ==
    ASSUME TypeOK
    PROVE  /\ active \in Setbacks /\ point \in [Setbacks -> 0 .. MaxMoves]
           /\ moves \in 0 .. MaxMoves /\ \A s \in Setbacks : <<s, point[s]>> \in Value
<1>1. /\ active \in Setbacks /\ point \in [Setbacks -> 0 .. MaxMoves] /\ moves \in 0 .. MaxMoves
    BY DEF TypeOK
<1> QED  BY <1>1 DEF Value

LEMMA SeededType ==
    ASSUME ClientType(setpoints), NEW r \in Requests, NEW m \in Messages
    PROVE  ClientType(Seeded(r, m))
<1>1. PICK w : w = Seeded(r, m)
    OBVIOUS
<1>2. m.setback \in 0 .. CURRENT /\ m.value \in Value \cup {None} /\ CURRENT \in 0 .. CURRENT
    BY Numbers DEF Messages
<1>3. CASE r.method = "SETBACK_STATE"
    <2>1. w = with_active_setback(setpoints, m.setback)
        BY <1>1, <1>3 DEF Seeded
    <2> QED  BY <1>1, <1>2, <2>1, ActiveSetback DEF ClientType, Names
<1>4. CASE r.method # "SETBACK_STATE" /\ r.setback = CURRENT
    <2>1. w = CurrentAnswer(m)
        BY <1>1, <1>4 DEF Seeded
    <2>2. Reported(m) \in Names /\ Or(Reported(m), setpoints.active_setback) \in Names
        BY <1>2 DEF Reported, Or, ClientType, Names
    <2>3. PICK reported \in Names : reported = Reported(m)
        BY <2>2
    <2>4. /\ IsClient(w) /\ w.active_setback \in Names /\ w.current_observed_setback \in Names
          /\ DOMAIN w.values = DOMAIN setpoints.values \cup {CURRENT}
                                        \cup (IF reported = None THEN {} ELSE {reported})
          /\ \A s : get(w, s) = IF s = CURRENT \/ (reported # None /\ s = reported) THEN m.value
                                ELSE get(setpoints, s)
        BY <2>1, <2>2, <2>3, CurrentAnswered
    <2> QED  BY <1>1, <1>2, <2>4 DEF ClientType, Names
<1>5. CASE r.method # "SETBACK_STATE" /\ r.setback # CURRENT
    <2>1. w = Enter(setpoints, r.setback, m.value)
        BY <1>1, <1>5 DEF Seeded, Enter
    <2>2. r.setback \in 0 .. CURRENT
        BY <1>5 DEF Requests, StateRequest, SetpointRequest
    <2> QED  BY <1>1, <1>2, <2>1, <2>2, OneSlot DEF ClientType
<1> QED  BY <1>3, <1>4, <1>5

LEMMA UpdatedType ==
    ASSUME ClientType(setpoints), NEW m \in Messages
    PROVE  ClientType(Updated(setpoints, m))
<1>1. PICK w : w = Updated(setpoints, m)
    OBVIOUS
<1>2. m.setback \in 0 .. CURRENT /\ m.value \in Value \cup {None}
    BY DEF Messages
<1>3. CASE m.method = "SETBACK_STATE"
    <2>1. w = with_active_setback(setpoints, m.setback)
        BY <1>1, <1>3 DEF Updated, with_scalar
    <2> QED  BY <1>1, <1>2, <2>1, ActiveSetback DEF ClientType, Names
<1>4. CASE m.method # "SETBACK_STATE"
    <2>1. w = with_value(setpoints, m.setback, m.value)
        BY <1>1, <1>4 DEF Updated, with_setpoint
    <2>2. PICK named : named = IF m.setback = CURRENT THEN Observed(setpoints) ELSE None
        OBVIOUS
    <2>3. /\ IsClient(w) /\ w.active_setback = setpoints.active_setback
          /\ w.current_observed_setback =
                IF m.setback = CURRENT THEN Observed(setpoints)
                ELSE setpoints.current_observed_setback
          /\ DOMAIN w.values = DOMAIN setpoints.values \cup {m.setback}
                                    \cup (IF named = None THEN {} ELSE {named})
          /\ \A s : get(w, s) = IF s = m.setback \/ (named # None /\ s = named) THEN m.value
                                ELSE get(setpoints, s)
        BY <2>1, <2>2, WithValue DEF ClientType
    <2>4. Observed(setpoints) \in Names /\ named \in Names
        BY <2>2 DEF Observed, ClientType, Names
    <2> QED  BY <1>1, <1>2, <2>3, <2>4 DEF ClientType, Names
<1> QED  BY <1>3, <1>4

LEMMA AnswerTypes ==
    ASSUME TypeOK, NEW r \in Requests, NEW m \in AnswersTo(r)
    PROVE  m \in Messages
<1>1. /\ active \in Setbacks /\ Setbacks \subseteq 0 .. CURRENT /\ CURRENT \in 0 .. CURRENT
      /\ \A s \in Setbacks : <<s, point[s]>> \in Value
    BY SetbackNames, DeviceType
<1>2. CASE r.method = "SETBACK_STATE"
    BY <1>1, <1>2 DEF AnswersTo, StateMessage, Messages
<1>3. CASE r.method # "SETBACK_STATE"
    <2>1. r.setback \in 0 .. CURRENT
        BY <1>3 DEF Requests, StateRequest, SetpointRequest
    <2>2. r.setback # CURRENT => r.setback \in Setbacks
        BY <2>1, Numbers DEF Setbacks
    <2>3. \E label \in 0 .. CURRENT, s \in Setbacks : m = SetpointMessage(r, label, s)
        BY <1>1, <1>3, <2>1, <2>2 DEF AnswersTo
    <2> QED  BY <1>1, <2>3 DEF SetpointMessage, Messages
<1> QED  BY <1>2, <1>3

\* The first request is done with.
LEMMA NextRequestTypes ==
    ASSUME TypeInv, sent, todo' = Tail(todo)
    PROVE  /\ todo' \in Seq(Requests) /\ Head(todo) \in Requests
           /\ todo' # <<>> => Last(todo') = SetpointRequest(CURRENT)
           /\ \A i \in DOMAIN todo' : todo'[i] = SetpointRequest(CURRENT) => i = Len(todo')
<1>1. todo \in Seq(Requests) /\ todo # <<>>
    BY DEF TypeInv, PollInv, TypeOK
<1>2. PICK rest \in Seq(Requests) : rest = Tail(todo)
    BY <1>1, WithoutHead
<1>3. /\ Len(todo) \in Nat \ {0} /\ Len(rest) = Len(todo) - 1 /\ Head(todo) \in Requests
      /\ DOMAIN todo = 1 .. Len(todo) /\ DOMAIN rest = 1 .. Len(todo) - 1
      /\ \A i \in 1 .. Len(todo) - 1 : rest[i] = todo[i + 1]
    BY <1>1, <1>2, WithoutHead
<1>4. todo[Len(todo)] = SetpointRequest(CURRENT)
    BY <1>1 DEF TypeInv, TypeOK, Last
<1>5. \A i \in DOMAIN todo : todo[i] = SetpointRequest(CURRENT) => i = Len(todo)
    BY DEF TypeInv, PollInv
<1>6. rest # <<>> => rest[Len(rest)] = SetpointRequest(CURRENT)
    BY <1>3, <1>4
<1>7. \A i \in DOMAIN rest : rest[i] = SetpointRequest(CURRENT) => i = Len(rest)
    <2> SUFFICES ASSUME NEW i \in 1 .. Len(todo) - 1, rest[i] = SetpointRequest(CURRENT)
                 PROVE  i = Len(rest)
        BY <1>3
    <2>1. i + 1 \in 1 .. Len(todo) /\ todo[i + 1] = SetpointRequest(CURRENT)
        BY <1>3
    <2> QED  BY <1>3, <1>5, <2>1
<1>8. rest # <<>> => Last(rest) = SetpointRequest(CURRENT)
    BY <1>6 DEF Last
<1> QED  BY <1>2, <1>3, <1>7, <1>8

\* The device tells of a change; the line is as it was, or has one message more.
LEMMA TellTypes ==
    ASSUME TypeInv, NEW m \in Messages, Tell(m), active' \in Setbacks,
           point' \in [Setbacks -> Nat], \A s \in Setbacks : point'[s] <= moves + 1
    PROVE  TypeInv'
<1>1. wire' \in Seq(Messages)
    <2>1. wire \in Seq(Messages)
        BY DEF TypeInv, TypeOK
    <2> QED  BY <2>1, AppendedTo DEF Tell
<1>2. moves' \in 0 .. MaxMoves /\ moves' = moves + 1
    <2>1. moves < MaxMoves /\ moves' = moves + 1
        BY DEF Tell
    <2>2. moves \in 0 .. MaxMoves
        BY DEF TypeInv, TypeOK
    <2> QED  BY <2>1, <2>2, Numbers
<1>3. point' \in [Setbacks -> 0 .. MaxMoves] /\ \A s \in Setbacks : point'[s] <= moves'
    BY <1>2, Numbers
<1>4. excuses' \subseteq {"missed", "mistaken", "misnamed", "echoed", "unplaced"}
    BY DEF TypeInv, TypeOK, Tell
<1>5. UNCHANGED <<asked, poll, setpoints, backlog, listening, timeouts>>
    BY DEF Tell
<1>6. TypeOK'
    BY <1>1, <1>2, <1>3, <1>4, <1>5 DEF TypeInv, TypeOK, poll
<1>7. PollInv'
    BY <1>3, <1>5 DEF TypeInv, PollInv, poll
<1>8. ClientType(setpoints)'
    BY <1>5 DEF TypeInv
<1> QED  BY <1>6, <1>7, <1>8 DEF TypeInv

LEMMA DeviceTypes ==
    ASSUME TypeInv, NEW s \in Setbacks, ChangeActive(s) \/ ChangePoint(s)
    PROVE  TypeInv'
<1>1. /\ s \in 0 .. CURRENT /\ CURRENT \in 0 .. CURRENT /\ active \in Setbacks
      /\ point \in [Setbacks -> 0 .. MaxMoves] /\ moves \in 0 .. MaxMoves
      /\ \A z \in Setbacks : point[z] <= moves
    BY SetbackNames, DeviceType DEF TypeInv, PollInv
<1>2. CASE ChangeActive(s)
    <2>1. StateMessage(None, s) \in Messages
        BY <1>1 DEF StateMessage, Messages
    <2>2. /\ active' = s /\ point' = point /\ Tell(StateMessage(None, s))
          /\ point \in [Setbacks -> Nat] /\ \A z \in Setbacks : point[z] <= moves + 1
        BY <1>1, <1>2, Numbers DEF ChangeActive
    <2> QED  BY <2>1, <2>2, TellTypes
<1>3. CASE ChangePoint(s)
    <2>1. point' = [point EXCEPT ![s] = point[s] + 1] /\ active' = active
        BY <1>3 DEF ChangePoint
    <2>2. /\ \A z \in Setbacks : point'[z] = IF z = s THEN point[s] + 1 ELSE point[z]
          /\ \A z \in Setbacks : point[z] \in 0 .. MaxMoves /\ point[z] \in Nat
        BY <1>1, <2>1, Numbers
    <2>3. point' \in [Setbacks -> Nat] /\ \A z \in Setbacks : point'[z] <= moves + 1
        <3>1. \A z \in Setbacks : point[z] + 1 \in Nat /\ point[z] + 1 <= moves + 1
                                  /\ point[z] <= moves + 1
            BY <1>1, <2>2, Numbers
        <3>2. point' \in [Setbacks -> Nat]
            BY <1>1, <2>1, <2>2, <3>1
        <3> QED  BY <2>2, <3>1, <3>2
    <2>4. PICK label \in {s, CURRENT} :
                Tell([SetpointMessage(None, label, s) EXCEPT !.value = <<s, point'[s]>>])
        BY <1>3 DEF ChangePoint
    <2>5. PICK m : m = [SetpointMessage(None, label, s) EXCEPT !.value = <<s, point'[s]>>]
        OBVIOUS
    <2>6. point'[s] \in 0 .. MaxMoves
        <3>1. moves < MaxMoves
            BY <2>4 DEF Tell
        <3> QED  BY <1>1, <2>2, <3>1, Numbers
    <2>7. m = [answers |-> None, method |-> "HEAT_SETPOINT", setback |-> label,
               value |-> <<s, point'[s]>>]
        BY <2>5 DEF SetpointMessage
    <2>8. m \in Messages
        BY <1>1, <2>6, <2>7 DEF Messages, Value
    <2> QED  BY <1>1, <2>1, <2>3, <2>4, <2>5, <2>8, TellTypes
<1> QED  BY <1>2, <1>3

LEMMA PollTypes ==
    ASSUME TypeInv, Send \/ DeviceAnswers \/ Answered \/ Unmatched \/ TimesOut \/ Listen \/ Apply
    PROVE  TypeInv'
<1>1. /\ asked \in Seq(Requests) /\ wire \in Seq(Messages) /\ backlog \in Seq(Messages)
      /\ todo \in Seq(Requests) /\ ClientType(setpoints)
    BY DEF TypeInv, TypeOK
<1>2. CASE Send
    <2>1. asked' \in Seq(Requests)
        BY <1>1, <1>2, WithoutHead, AppendedTo DEF Send
    <2>2. /\ todo # <<>> /\ sent' = TRUE /\ UNCHANGED <<device, wire, todo, include_setbacks,
             setpoints, backlog, listening, timeouts, excuses>>
        BY <1>2 DEF Send
    <2>3. PollInv'
        BY <2>2 DEF TypeInv, PollInv, device
    <2>4. TypeOK'
        BY <2>1, <2>2, <2>3 DEF TypeInv, TypeOK, PollInv, device
    <2> QED  BY <2>2, <2>3, <2>4 DEF TypeInv
<1>3. CASE DeviceAnswers
    <2>1. asked' \in Seq(Requests) /\ Head(asked) \in Requests
        BY <1>1, <1>3, WithoutHead DEF DeviceAnswers
    <2>2. PICK m \in AnswersTo(Head(asked)) : wire' = Append(wire, m)
        BY <1>3 DEF DeviceAnswers
    <2>3. wire' \in Seq(Messages)
        BY <1>1, <2>1, <2>2, AnswerTypes, AppendedTo DEF TypeInv
    <2>4. UNCHANGED <<device, poll, setpoints, backlog, listening, timeouts, excuses>>
        BY <1>3 DEF DeviceAnswers
    <2> QED  BY <2>1, <2>3, <2>4 DEF TypeInv, TypeOK, PollInv, device, poll
<1>4. CASE Answered
    <2>1. Head(wire) \in Messages /\ wire' \in Seq(Messages)
        BY <1>1, <1>4, WithoutHead DEF Answered
    <2>2. /\ todo' \in Seq(Requests) /\ Head(todo) \in Requests
          /\ todo' # <<>> => Last(todo') = SetpointRequest(CURRENT)
          /\ \A i \in DOMAIN todo' : todo'[i] = SetpointRequest(CURRENT) => i = Len(todo')
        BY <1>4, NextRequestTypes DEF Answered
    <2>3. PICK w : w = Seeded(Head(todo), Head(wire))
        OBVIOUS
    <2>4. ClientType(w) /\ setpoints' = w
        BY <1>1, <1>4, <2>1, <2>2, <2>3, SeededType DEF Answered
    <2>5. ClientType(setpoints)'
        BY <2>4
    <2>6. sent' = FALSE /\ ~listening
          /\ UNCHANGED <<device, asked, include_setbacks, backlog, listening, timeouts>>
        BY <1>4 DEF Answered, TypeInv, PollInv
    <2>7. excuses' \subseteq {"missed", "mistaken", "misnamed", "echoed", "unplaced"}
        BY <1>4 DEF Answered, Confusions, TypeInv, TypeOK
    <2>8. PollInv'
        BY <2>2, <2>6 DEF TypeInv, PollInv, device
    <2>9. /\ DOMAIN setpoints'.values \subseteq 0 .. CURRENT
          /\ \A s \in DOMAIN setpoints'.values : setpoints'.values[s] \in Value \cup {None}
          /\ {setpoints'.active_setback, setpoints'.current_observed_setback}
                  \subseteq (0 .. CURRENT) \cup {None}
        BY <2>4 DEF ClientType, get, Names
    <2>10. TypeOK'
        BY <2>1, <2>2, <2>6, <2>7, <2>9 DEF TypeInv, TypeOK, device
    <2> QED  BY <2>5, <2>8, <2>10 DEF TypeInv
<1>5. CASE Unmatched
    <2>1. wire' \in Seq(Messages) /\ backlog' \in Seq(Messages)
        BY <1>1, <1>5, WithoutHead, AppendedTo DEF Unmatched
    <2>2. UNCHANGED <<device, asked, poll, setpoints, listening, timeouts, excuses>>
        BY <1>5 DEF Unmatched
    <2> QED  BY <2>1, <2>2 DEF TypeInv, TypeOK, PollInv, device, poll
<1>6. CASE TimesOut
    <2>1. asked' \in Seq(Requests)
        <3>1. CASE UNCHANGED asked
            BY <1>1, <3>1
        <3>2. CASE asked # <<>> /\ asked' = Front(asked)
            BY <1>1, <3>2 DEF Front
        <3> QED  BY <1>6, <3>1, <3>2 DEF TimesOut
    <2>2. /\ todo' \in Seq(Requests) /\ Head(todo) \in Requests
          /\ todo' # <<>> => Last(todo') = SetpointRequest(CURRENT)
          /\ \A i \in DOMAIN todo' : todo'[i] = SetpointRequest(CURRENT) => i = Len(todo')
        BY <1>6, NextRequestTypes DEF TimesOut
    <2>3. PICK w : w = setpoints'
        OBVIOUS
    <2>4. ClientType(w)
        <3>1. CASE Head(todo) = StateRequest
            BY <1>1, <1>6, <2>3, <3>1 DEF TimesOut
        <3>2. CASE Head(todo) # StateRequest
            <4>1. Head(todo).setback \in 0 .. CURRENT
                BY <2>2, <3>2 DEF Requests, SetpointRequest
            <4>2. w = Enter(setpoints, Head(todo).setback, None)
                BY <1>6, <2>3, <3>2 DEF TimesOut, Enter
            <4> QED  BY <1>1, <4>1, <4>2, OneSlot DEF ClientType
        <3> QED  BY <3>1, <3>2
    <2>5. ClientType(setpoints)'
        BY <2>3, <2>4
    <2>6. sent' = FALSE /\ ~listening /\ timeouts' \in 0 .. MaxTimeouts
          /\ UNCHANGED <<device, wire, include_setbacks, backlog, listening, excuses>>
        <3>1. sent' = FALSE /\ timeouts < MaxTimeouts /\ timeouts' = timeouts + 1
              /\ UNCHANGED <<device, wire, include_setbacks, backlog, listening, excuses>>
            BY <1>6 DEF TimesOut
        <3>2. ~listening /\ timeouts \in Nat
            BY <1>6 DEF TimesOut, TypeInv, PollInv, TypeOK
        <3> QED  BY <3>1, <3>2, Numbers
    <2>7. PollInv'
        BY <2>2, <2>6 DEF TypeInv, PollInv, device
    <2>8. /\ DOMAIN setpoints'.values \subseteq 0 .. CURRENT
          /\ \A s \in DOMAIN setpoints'.values : setpoints'.values[s] \in Value \cup {None}
          /\ {setpoints'.active_setback, setpoints'.current_observed_setback}
                  \subseteq (0 .. CURRENT) \cup {None}
        BY <2>3, <2>4 DEF ClientType, get, Names
    <2>9. TypeOK'
        BY <2>1, <2>2, <2>6, <2>8 DEF TypeInv, TypeOK, device
    <2> QED  BY <2>5, <2>7, <2>9 DEF TypeInv
<1>7. CASE Listen
    <2>1. wire' \in Seq(Messages) /\ backlog' \in Seq(Messages)
        BY <1>1, <1>7, Joined DEF Listen, Joins
    <2>2. /\ todo = <<>> /\ listening' = TRUE
          /\ UNCHANGED <<device, asked, poll, setpoints, timeouts, excuses>>
        BY <1>7 DEF Listen
    <2>3. ~sent
        BY <2>2 DEF TypeInv, PollInv
    <2>4. PollInv'
        BY <2>2, <2>3 DEF TypeInv, PollInv, device, poll
    <2>5. TypeOK'
        BY <2>1, <2>2 DEF TypeInv, TypeOK, device, poll
    <2> QED  BY <2>2, <2>4, <2>5 DEF TypeInv
<1>8. CASE Apply
    <2>1. Head(wire) \in Messages /\ wire' \in Seq(Messages)
        BY <1>1, <1>8, WithoutHead DEF Apply
    <2>2. PICK w : w = Updated(setpoints, Head(wire))
        OBVIOUS
    <2>3. ClientType(w) /\ setpoints' = w
        BY <1>1, <1>8, <2>1, <2>2, UpdatedType DEF Apply
    <2>4. ClientType(setpoints)'
        BY <2>3
    <2>5. UNCHANGED <<device, asked, poll, backlog, listening, timeouts>>
        BY <1>8 DEF Apply
    <2>6. excuses' \subseteq {"missed", "mistaken", "misnamed", "echoed", "unplaced"}
        BY <1>8 DEF Apply, TypeInv, TypeOK
    <2>7. /\ DOMAIN setpoints'.values \subseteq 0 .. CURRENT
          /\ \A s \in DOMAIN setpoints'.values : setpoints'.values[s] \in Value \cup {None}
          /\ {setpoints'.active_setback, setpoints'.current_observed_setback}
                  \subseteq (0 .. CURRENT) \cup {None}
        BY <2>3 DEF ClientType, get, Names
    <2>8. TypeOK' /\ PollInv'
        BY <2>1, <2>5, <2>6, <2>7 DEF TypeInv, TypeOK, PollInv, device, poll
    <2> QED  BY <2>4, <2>8 DEF TypeInv
<1> QED  BY <1>2, <1>3, <1>4, <1>5, <1>6, <1>7, <1>8

LEMMA TypeStep == TypeInv /\ [Next]_vars => TypeInv'
<1>1. ASSUME TypeInv, UNCHANGED vars PROVE TypeInv'
    BY <1>1 DEF TypeInv, TypeOK, PollInv, vars, device, poll
<1> QED  BY <1>1, PollTypes, DeviceTypes DEF Next

LEMMA PollOrder ==
    ASSUME NEW all \in BOOLEAN
    PROVE  LET requests == PollRequests(all)
               last == IF all THEN CURRENT + 2 ELSE 2
           IN  /\ requests \in Seq(Requests) /\ Len(requests) = last
               /\ requests[1] = StateRequest /\ requests[last] = SetpointRequest(CURRENT)
               /\ \A i \in 2 .. last - 1 : requests[i] = SetpointRequest(i - 2)
<1>1. PICK middle \in Seq(Requests) :
            middle = (IF all THEN [i \in 1 .. CURRENT |-> SetpointRequest(i - 1)] ELSE <<>>)
    <2>1. \A i \in 1 .. CURRENT : i - 1 \in 0 .. CURRENT
        BY Numbers
    <2>2. \A i \in 1 .. CURRENT : SetpointRequest(i - 1) \in Requests
        BY <2>1 DEF Requests
    <2>3. [i \in 1 .. CURRENT |-> SetpointRequest(i - 1)] \in Seq(Requests)
        BY <2>2, Numbers
    <2>4. <<>> \in Seq(Requests)
        OBVIOUS
    <2> QED  BY <2>3, <2>4
<1>2. Len(middle) = (IF all THEN CURRENT ELSE 0)
      /\ \A i \in 1 .. Len(middle) : middle[i] = SetpointRequest(i - 1)
    BY <1>1, Numbers
<1>3. PICK first \in Seq(Requests), end \in Seq(Requests) :
            first = <<StateRequest>> /\ end = <<SetpointRequest(CURRENT)>>
    <2>1. CURRENT \in 0 .. CURRENT
        BY Numbers
    <2>2. StateRequest \in Requests /\ SetpointRequest(CURRENT) \in Requests
        BY <2>1 DEF Requests
    <2>3. <<StateRequest>> \in Seq(Requests) /\ <<SetpointRequest(CURRENT)>> \in Seq(Requests)
        BY <2>2
    <2> QED  BY <2>3
<1>4. Len(first) = 1 /\ first[1] = StateRequest /\ Len(end) = 1
      /\ end[1] = SetpointRequest(CURRENT)
    BY <1>3
<1>5. PICK front : Joins(front, first, middle)
    BY DEF Joins
<1>6. PICK requests : Joins(requests, front, end)
    BY DEF Joins
<1>7. /\ front \in Seq(Requests)
      /\ Len(middle) \in Nat /\ Len(front) = 1 + Len(middle) /\ front[1] = StateRequest
      /\ \A i \in 1 .. Len(middle) : front[1 + i] = middle[i]
    <2>1. /\ front \in Seq(Requests)
          /\ Len(middle) \in Nat /\ Len(front) = Len(first) + Len(middle)
          /\ \A i \in 1 .. Len(first) : front[i] = first[i]
          /\ \A i \in 1 .. Len(middle) : front[Len(first) + i] = middle[i]
        <3>1. first \in Seq(Requests) /\ middle \in Seq(Requests)
            OBVIOUS
        <3> QED  BY <1>5, <3>1, Joined
    <2> QED  BY <1>4, <2>1
<1>8. /\ requests \in Seq(Requests) /\ Len(requests) = Len(middle) + 2
      /\ requests[1] = StateRequest /\ requests[Len(middle) + 2] = SetpointRequest(CURRENT)
      /\ \A i \in 1 .. Len(middle) : requests[i + 1] = middle[i]
    <2>1. /\ requests \in Seq(Requests) /\ Len(requests) = Len(front) + Len(end)
          /\ \A i \in 1 .. Len(front) : requests[i] = front[i]
          /\ \A i \in 1 .. Len(end) : requests[Len(front) + i] = end[i]
        <3>1. front \in Seq(Requests)
            BY <1>7
        <3> QED  BY <1>6, <3>1, Joined
    <2> QED  BY <1>4, <1>7, <2>1
<1>9. requests = PollRequests(all)
    BY <1>1, <1>3, <1>5, <1>6 DEF PollRequests, Joins
<1>10. \A i \in 2 .. Len(middle) + 1 : requests[i] = SetpointRequest(i - 2)
    <2> SUFFICES ASSUME NEW i \in 2 .. Len(middle) + 1 PROVE requests[i] = SetpointRequest(i - 2)
        OBVIOUS
    <2>1. PICK j \in 1 .. Len(middle) : j = i - 1
        <3>1. Len(middle) \in Nat
            BY <1>7
        <3>2. i - 1 \in 1 .. Len(middle)
            BY <3>1
        <3> QED  BY <3>2
    <2>2. requests[j + 1] = middle[j]
        BY <1>8
    <2>3. middle[j] = SetpointRequest(j - 1)
        BY <1>2
    <2>4. j + 1 = i /\ j - 1 = i - 2
        BY <2>1
    <2> QED  BY <2>2, <2>3, <2>4
<1>11. PICK last : last = IF all THEN CURRENT + 2 ELSE 2
    OBVIOUS
<1>12. last = Len(middle) + 2 /\ last - 1 = Len(middle) + 1
    BY <1>2, <1>7, <1>11, Numbers
<1> QED  BY <1>8, <1>9, <1>10, <1>11, <1>12

LEMMA TypeInit == Init => TypeInv
<1> SUFFICES ASSUME Init PROVE TypeInv
    OBVIOUS
<1>1. PICK v : v = setpoints
    OBVIOUS
<1>2. /\ DOMAIN v.values = {} /\ v.active_setback = None /\ v.current_observed_setback = None
      /\ IsClient(v)
    BY <1>1 DEF Init, IsClient
<1>3. ClientType(setpoints)
    BY <1>1, <1>2 DEF ClientType, Names
<1>4. /\ todo \in Seq(Requests) /\ todo # <<>> /\ Len(todo) \in Nat
      /\ todo[Len(todo)] = SetpointRequest(CURRENT)
      /\ \A i \in DOMAIN todo : todo[i] = SetpointRequest(CURRENT) => i = Len(todo)
    <2>1. PICK last \in Nat : last = (IF include_setbacks THEN CURRENT + 2 ELSE 2)
        BY Numbers
    <2>2. /\ todo \in Seq(Requests) /\ Len(todo) = last /\ last > 1
          /\ todo[1] = StateRequest /\ todo[last] = SetpointRequest(CURRENT)
          /\ \A i \in 2 .. last - 1 : todo[i] = SetpointRequest(i - 2)
        BY <2>1, PollOrder, Numbers DEF Init
    <2>3. \A i \in 2 .. last - 1 : i - 2 # CURRENT
        BY <2>1, Numbers
    <2>4. StateRequest # SetpointRequest(CURRENT)
          /\ \A i \in 2 .. last - 1 : SetpointRequest(i - 2) # SetpointRequest(CURRENT)
        BY <2>3 DEF StateRequest, SetpointRequest
    <2> QED  BY <2>2, <2>4
<1>5. TypeOK
    <2>1. point \in [Setbacks -> 0 .. MaxMoves] /\ moves \in 0 .. MaxMoves
          /\ timeouts \in 0 .. MaxTimeouts
        BY Numbers DEF Init
    <2>2. Last(todo) = SetpointRequest(CURRENT)
        BY <1>4 DEF Last
    <2>3. /\ active \in Setbacks /\ asked = <<>> /\ wire = <<>> /\ backlog = <<>>
          /\ include_setbacks \in BOOLEAN /\ sent = FALSE /\ listening = FALSE /\ excuses = {}
        BY DEF Init
    <2>4. /\ DOMAIN setpoints.values \subseteq 0 .. CURRENT
          /\ \A s \in DOMAIN setpoints.values : setpoints.values[s] \in Value \cup {None}
          /\ {setpoints.active_setback, setpoints.current_observed_setback}
                  \subseteq (0 .. CURRENT) \cup {None}
        BY <1>1, <1>2
    <2>5. asked \in Seq(Requests) /\ wire \in Seq(Messages) /\ backlog \in Seq(Messages)
        BY <2>3
    <2> QED  BY <1>4, <2>1, <2>2, <2>3, <2>4, <2>5 DEF TypeOK
<1>6. PollInv
    BY <1>4 DEF Init, PollInv
<1> QED  BY <1>3, <1>5, <1>6 DEF TypeInv

\* What the poll and the reports keep has the types of SetpointValues, and the poll
\* asks for one thing at a time, CURRENT last (client.py:759-887; models.py:496-578).
THEOREM SetpointTypeCorrect == Spec => []TypeOK
<1>1. TypeInv => TypeOK
    BY DEF TypeInv
<1> QED  BY <1>1, TypeInit, TypeStep, PTL DEF Spec

-----------------------------------------------------------------------------
(* What the line tells *)

IsState(m) == m.method = "SETBACK_STATE"

\* m has a value of setback s, under whatever name.
About(m, s) == ~IsState(m) /\ m.value[1] = s

\* A client that takes known to be active when it reads line takes a to be active, or
\* knows of none, when it comes to position i.
Tells(line, known, i, a) ==
    /\ \A j \in DOMAIN line :
        /\ j < i /\ IsState(line[j])
        /\ \A k \in DOMAIN line : j < k /\ k < i => ~IsState(line[k])
        => line[j].setback = a
    /\ (\A j \in DOMAIN line : j < i => ~IsState(line[j])) => known \in {None, a}

\* A client that shows x for s when it reads line shows value at its end, or nothing.
Settles(line, x, s, value) ==
    /\ \A i \in DOMAIN line :
        /\ About(line[i], s)
        /\ \A j \in DOMAIN line : i < j => ~About(line[j], s)
        => line[i].value = value
    /\ (\A i \in DOMAIN line : ~About(line[i], s)) => x \in {None, value}

LEMMA TellsMore ==
    ASSUME NEW line \in Seq(Messages), NEW m \in Messages, NEW longer, NEW known,
           longer = Append(line, m)
    PROVE  /\ \A a : \A i \in 1 .. Len(line) + 1 :
                    Tells(line, known, i, a) => Tells(longer, known, i, a)
           /\ IsState(m) => Tells(longer, known, Len(line) + 2, m.setback)
           /\ \A a : ~IsState(m) /\ Tells(line, known, Len(line) + 1, a)
                        => Tells(longer, known, Len(line) + 2, a)
<1>1. PICK n \in Nat : n = Len(line)
    OBVIOUS
<1>2. /\ DOMAIN line = 1 .. n /\ DOMAIN longer = 1 .. n + 1 /\ longer[n + 1] = m
      /\ \A i \in 1 .. n : longer[i] = line[i]
    BY <1>1, AppendedTo
<1>3. ASSUME NEW i \in 1 .. n + 1, NEW a, Tells(line, known, i, a)
      PROVE  Tells(longer, known, i, a)
    <2>1. \A j \in 1 .. n + 1 : j < i => j \in 1 .. n
        OBVIOUS
    <2> QED  BY <1>2, <1>3, <2>1 DEF Tells
<1>4. ASSUME IsState(m) PROVE Tells(longer, known, n + 2, m.setback)
    <2>1. n + 1 \in DOMAIN longer /\ n + 1 < n + 2 /\ IsState(longer[n + 1])
        BY <1>2, <1>4
    <2>2. ASSUME NEW j \in DOMAIN longer,
                 \A k \in DOMAIN longer : j < k /\ k < n + 2 => ~IsState(longer[k])
          PROVE  longer[j].setback = m.setback
        <3>1. ~ j < n + 1
            BY <2>1, <2>2
        <3>2. j = n + 1
            BY <1>2, <3>1
        <3> QED  BY <1>2, <3>2
    <2> QED  BY <2>1, <2>2 DEF Tells
<1>5. ASSUME NEW a, ~IsState(m), Tells(line, known, n + 1, a)
      PROVE  Tells(longer, known, n + 2, a)
    <2>1. ASSUME NEW j \in DOMAIN longer, IsState(longer[j]),
                 \A k \in DOMAIN longer : j < k /\ k < n + 2 => ~IsState(longer[k])
          PROVE  longer[j].setback = a
        <3>1. j \in 1 .. n
            BY <1>2, <1>5, <2>1
        <3>2. \A k \in DOMAIN line : j < k /\ k < n + 1 => ~IsState(line[k])
            BY <1>2, <2>1
        <3> QED  BY <1>2, <1>5, <2>1, <3>1, <3>2 DEF Tells
    <2>2. (\A j \in DOMAIN longer : j < n + 2 => ~IsState(longer[j])) => known \in {None, a}
        <3> SUFFICES ASSUME \A j \in DOMAIN longer : j < n + 2 => ~IsState(longer[j])
                     PROVE  known \in {None, a}
            OBVIOUS
        <3>1. \A j \in DOMAIN line : ~IsState(line[j])
            BY <1>2
        <3> QED  BY <1>5, <3>1 DEF Tells
    <2> QED  BY <2>1, <2>2 DEF Tells
<1> QED  BY <1>1, <1>3, <1>4, <1>5

LEMMA TellsRest ==
    ASSUME NEW line \in Seq(Messages), line # <<>>, NEW rest, rest = Tail(line), NEW known
    PROVE  \A a : \A i \in 1 .. Len(line) : Tells(line, known, i + 1, a) =>
                Tells(rest, IF IsState(Head(line)) THEN Head(line).setback ELSE known, i, a)
<1>1. PICK n \in Nat : n = Len(line)
    OBVIOUS
<1>2. /\ n > 0 /\ DOMAIN line = 1 .. n /\ DOMAIN rest = 1 .. n - 1 /\ Head(line) = line[1]
      /\ \A i \in 1 .. n - 1 : rest[i] = line[i + 1]
    BY <1>1, WithoutHead
<1> SUFFICES ASSUME NEW i \in 1 .. n, NEW a, Tells(line, known, i + 1, a)
             PROVE  Tells(rest, IF IsState(Head(line)) THEN Head(line).setback ELSE known, i, a)
    BY <1>1
<1>3. \A k \in 1 .. n : k # 1 => k - 1 \in 1 .. n - 1 /\ line[k] = rest[k - 1]
    <2> SUFFICES ASSUME NEW k \in 1 .. n, k # 1
                 PROVE  k - 1 \in 1 .. n - 1 /\ line[k] = rest[k - 1]
        OBVIOUS
    <2>1. k - 1 \in 1 .. n - 1 /\ (k - 1) + 1 = k
        OBVIOUS
    <2> QED  BY <1>2, <2>1
<1>4. ASSUME NEW j \in 1 .. n - 1, j < i, IsState(rest[j]),
             \A k \in 1 .. n - 1 : j < k /\ k < i => ~IsState(rest[k])
      PROVE  rest[j].setback = a
    <2>1. j + 1 \in 1 .. n /\ j + 1 < i + 1 /\ rest[j] = line[j + 1]
        BY <1>2, <1>4
    <2>2. \A k \in 1 .. n : j + 1 < k /\ k < i + 1 => ~IsState(line[k])
        <3> SUFFICES ASSUME NEW k \in 1 .. n, j + 1 < k, k < i + 1 PROVE ~IsState(line[k])
            OBVIOUS
        <3>1. k # 1 /\ j < k - 1 /\ k - 1 < i
            OBVIOUS
        <3>2. k - 1 \in 1 .. n - 1 /\ line[k] = rest[k - 1]
            BY <1>3, <3>1
        <3> QED  BY <1>4, <3>1, <3>2
    <2> QED  BY <1>2, <1>4, <2>1, <2>2 DEF Tells
<1>5. ASSUME \A j \in 1 .. n - 1 : j < i => ~IsState(rest[j])
      PROVE  (IF IsState(Head(line)) THEN Head(line).setback ELSE known) \in {None, a}
    <2>1. \A k \in 1 .. n : 1 < k /\ k < i + 1 => ~IsState(line[k])
        <3> SUFFICES ASSUME NEW k \in 1 .. n, 1 < k, k < i + 1 PROVE ~IsState(line[k])
            OBVIOUS
        <3>1. k # 1 /\ k - 1 < i
            OBVIOUS
        <3>2. k - 1 \in 1 .. n - 1 /\ line[k] = rest[k - 1]
            BY <1>3, <3>1
        <3> QED  BY <1>5, <3>1, <3>2
    <2>2. CASE IsState(line[1])
        <3>1. line[1].setback = a
            BY <1>2, <2>1, <2>2 DEF Tells
        <3> QED  BY <1>2, <2>2, <3>1
    <2>3. CASE ~IsState(line[1])
        <3>1. \A k \in 1 .. n : k < i + 1 => ~IsState(line[k])
            BY <2>1, <2>3
        <3> QED  BY <1>2, <2>3, <3>1 DEF Tells
    <2> QED  BY <2>2, <2>3
<1> QED  BY <1>2, <1>4, <1>5 DEF Tells

LEMMA SettlesMore ==
    ASSUME NEW line \in Seq(Messages), NEW m \in Messages, NEW longer, NEW x, NEW s,
           NEW value, longer = Append(line, m)
    PROVE  /\ About(m, s) => Settles(longer, x, s, m.value)
           /\ ~About(m, s) /\ Settles(line, x, s, value) => Settles(longer, x, s, value)
<1>1. PICK n \in Nat : n = Len(line)
    OBVIOUS
<1>2. /\ DOMAIN line = 1 .. n /\ DOMAIN longer = 1 .. n + 1 /\ longer[n + 1] = m
      /\ \A i \in 1 .. n : longer[i] = line[i]
    BY <1>1, AppendedTo
<1>3. ASSUME About(m, s) PROVE Settles(longer, x, s, m.value)
    <2>1. n + 1 \in DOMAIN longer /\ About(longer[n + 1], s)
        BY <1>2, <1>3
    <2>2. ASSUME NEW i \in DOMAIN longer,
                 \A j \in DOMAIN longer : i < j => ~About(longer[j], s)
          PROVE  longer[i].value = m.value
        <3>1. ~ i < n + 1
            BY <2>1, <2>2
        <3>2. i = n + 1
            BY <1>2, <3>1
        <3> QED  BY <1>2, <3>2
    <2> QED  BY <2>1, <2>2 DEF Settles
<1>4. ASSUME ~About(m, s), Settles(line, x, s, value) PROVE Settles(longer, x, s, value)
    <2>1. ASSUME NEW i \in DOMAIN longer, About(longer[i], s),
                 \A j \in DOMAIN longer : i < j => ~About(longer[j], s)
          PROVE  longer[i].value = value
        <3>1. i \in 1 .. n
            BY <1>2, <1>4, <2>1
        <3>2. \A j \in DOMAIN line : i < j => ~About(line[j], s)
            BY <1>2, <2>1
        <3> QED  BY <1>2, <1>4, <2>1, <3>1, <3>2 DEF Settles
    <2>2. (\A i \in DOMAIN longer : ~About(longer[i], s)) => x \in {None, value}
        BY <1>2, <1>4 DEF Settles
    <2> QED  BY <2>1, <2>2 DEF Settles
<1> QED  BY <1>3, <1>4

LEMMA SettlesRest ==
    ASSUME NEW line \in Seq(Messages), line # <<>>, NEW rest, rest = Tail(line), NEW x,
           NEW s, NEW value, Settles(line, x, s, value)
    PROVE  Settles(rest, IF About(Head(line), s) THEN Head(line).value ELSE x, s, value)
<1>1. PICK n \in Nat : n = Len(line)
    OBVIOUS
<1>2. /\ n > 0 /\ DOMAIN line = 1 .. n /\ DOMAIN rest = 1 .. n - 1 /\ Head(line) = line[1]
      /\ \A i \in 1 .. n - 1 : rest[i] = line[i + 1]
    BY <1>1, WithoutHead
<1>3. \A k \in 1 .. n : k # 1 => k - 1 \in 1 .. n - 1 /\ line[k] = rest[k - 1]
    <2> SUFFICES ASSUME NEW k \in 1 .. n, k # 1
                 PROVE  k - 1 \in 1 .. n - 1 /\ line[k] = rest[k - 1]
        OBVIOUS
    <2>1. k - 1 \in 1 .. n - 1 /\ (k - 1) + 1 = k
        OBVIOUS
    <2> QED  BY <1>2, <2>1
<1>4. ASSUME NEW i \in 1 .. n - 1, About(rest[i], s),
             \A j \in 1 .. n - 1 : i < j => ~About(rest[j], s)
      PROVE  rest[i].value = value
    <2>1. i + 1 \in 1 .. n /\ rest[i] = line[i + 1]
        BY <1>2, <1>4
    <2>2. \A k \in 1 .. n : i + 1 < k => ~About(line[k], s)
        <3> SUFFICES ASSUME NEW k \in 1 .. n, i + 1 < k PROVE ~About(line[k], s)
            OBVIOUS
        <3>1. k # 1 /\ i < k - 1
            OBVIOUS
        <3>2. k - 1 \in 1 .. n - 1 /\ line[k] = rest[k - 1]
            BY <1>3, <3>1
        <3> QED  BY <1>4, <3>1, <3>2
    <2> QED  BY <1>2, <1>4, <2>1, <2>2 DEF Settles
<1>5. ASSUME \A i \in 1 .. n - 1 : ~About(rest[i], s)
      PROVE  (IF About(Head(line), s) THEN Head(line).value ELSE x) \in {None, value}
    <2>1. \A k \in 1 .. n : k # 1 => ~About(line[k], s)
        BY <1>3, <1>5
    <2>2. CASE About(line[1], s)
        <3>1. 1 \in 1 .. n /\ \A k \in 1 .. n : 1 < k => ~About(line[k], s)
            BY <1>2, <2>1
        <3>2. line[1].value = value
            BY <1>2, <2>2, <3>1 DEF Settles
        <3> QED  BY <1>2, <2>2, <3>2
    <2>3. CASE ~About(line[1], s)
        <3>1. \A k \in 1 .. n : ~About(line[k], s)
            BY <2>1, <2>3
        <3> QED  BY <1>2, <2>3, <3>1 DEF Settles
    <2> QED  BY <2>2, <2>3
<1> QED  BY <1>2, <1>4, <1>5 DEF Settles

-----------------------------------------------------------------------------
(* A client that has no excuse *)

Known == setpoints.active_setback
Shown(s) == get(setpoints, s)
Present(s) == <<s, point[s]>>

\* m tells what the device has; the answer to a request for CURRENT, the active one.
Genuine(m) ==
    IF IsState(m) THEN m.setback = active
    ELSE \E s \in Setbacks :
            /\ m.value = Present(s)
            /\ m.setback = s \/ (m.setback = CURRENT /\ s = active)
            /\ m.answers = SetpointRequest(CURRENT) /\ m.answers # None => s = active

\* Before reports are on: nothing has changed, and what is known is true.
Polled ==
    /\ \A i \in DOMAIN wire : Genuine(wire[i])
    /\ \A i \in DOMAIN backlog : Genuine(backlog[i])
    /\ Known \in {None, active}
    /\ \A s \in Setbacks : Shown(s) \in {None, Present(s)}

\* A value under the name of CURRENT will be taken to be for the right setback.
Named ==
    \A i \in DOMAIN wire : ~IsState(wire[i]) =>
        /\ wire[i].value \in Value
        /\ \/ wire[i].setback = wire[i].value[1]
           \/ wire[i].setback = CURRENT /\ Tells(wire, Known, i, wire[i].value[1])

\* With reports: once the line has been read, what is known is true.
Heard ==
    /\ Named
    /\ Tells(wire, Known, Len(wire) + 1, active)
    /\ \A s \in Setbacks : Settles(wire, Shown(s), s, Present(s))

\* What has been asked for is known, but for what timed out, and a value that was
\* shown as current is kept for its setback.
Kept ==
    /\ Known = None => Shown(CURRENT) = None
    /\ setpoints.current_observed_setback # None =>
            todo = <<>> /\ Shown(setpoints.current_observed_setback) # None
    /\ timeouts = 0 => Known # None \/ \E i \in DOMAIN todo : todo[i] = StateRequest
    /\ include_setbacks /\ timeouts = 0 => \A s \in Setbacks :
            Shown(s) # None \/ \E i \in DOMAIN todo : todo[i] = SetpointRequest(s)

CaughtUp == excuses = {} => Kept /\ IF listening THEN Heard ELSE Polled

LEMMA HeardMore ==
    ASSUME TypeInv, Heard, UNCHANGED setpoints, NEW m \in Messages, wire' = Append(wire, m),
           \/ IsState(m) /\ m.setback = active' /\ point' = point
           \/ /\ ~IsState(m) /\ active' = active
              /\ \E s \in Setbacks :
                    /\ m.value = <<s, point'[s]>> /\ m.value \in Value
                    /\ m.setback = s \/ (m.setback = CURRENT /\ s = active)
                    /\ \A z \in Setbacks : z # s => point'[z] = point[z]
    PROVE  Heard'
<1>1. wire \in Seq(Messages) /\ Known' = Known /\ \A s : Shown(s)' = Shown(s)
    BY DEF TypeInv, TypeOK, Known, Shown
<1>2. PICK n \in Nat : n = Len(wire)
    BY <1>1
<1>3. PICK line \in Seq(Messages) : line = wire
    BY <1>1
<1>4. PICK longer \in Seq(Messages) : longer = wire'
    BY <1>1, AppendedTo
<1>5. /\ DOMAIN line = 1 .. n /\ DOMAIN longer = 1 .. n + 1 /\ Len(longer) = n + 1
      /\ longer[n + 1] = m /\ \A i \in 1 .. n : longer[i] = line[i]
    BY <1>2, <1>3, <1>4, AppendedTo
<1>6. longer = Append(line, m) /\ Len(line) = n
    BY <1>2, <1>3, <1>4
<1>7. /\ \A a : \A i \in 1 .. n + 1 : Tells(line, Known, i, a) => Tells(longer, Known, i, a)
      /\ IsState(m) => Tells(longer, Known, n + 2, m.setback)
      /\ \A a : ~IsState(m) /\ Tells(line, Known, n + 1, a) => Tells(longer, Known, n + 2, a)
    BY <1>6, TellsMore
<1>8. Tells(line, Known, n + 1, active)
    BY <1>2, <1>3 DEF Heard
<1>9. Named'
    <2> SUFFICES ASSUME NEW i \in 1 .. n + 1, ~IsState(longer[i])
                 PROVE  /\ longer[i].value \in Value
                        /\ \/ longer[i].setback = longer[i].value[1]
                           \/ /\ longer[i].setback = CURRENT
                              /\ Tells(longer, Known, i, longer[i].value[1])
        BY <1>1, <1>4, <1>5 DEF Named
    <2>1. CASE i \in 1 .. n
        BY <1>3, <1>5, <1>7, <2>1 DEF Heard, Named
    <2>2. CASE i = n + 1
        BY <1>5, <1>7, <1>8, <2>2
    <2> QED  BY <2>1, <2>2
<1>10. Tells(wire, Known, Len(wire) + 1, active)'
    <2>1. Tells(longer, Known, n + 2, active')
        BY <1>7, <1>8
    <2>2. Len(longer) + 1 = n + 2
        BY <1>5
    <2> QED  BY <1>1, <1>4, <2>1, <2>2
<1>11. ASSUME NEW s \in Setbacks PROVE Settles(wire, Shown(s), s, Present(s))'
    <2>1. /\ About(m, s) => Settles(longer, Shown(s), s, m.value)
          /\ ~About(m, s) /\ Settles(line, Shown(s), s, Present(s))
                => Settles(longer, Shown(s), s, Present(s))
        BY <1>6, SettlesMore
    <2>2. About(m, s) => m.value = <<s, point'[s]>>
        BY DEF About
    <2>3. ~About(m, s) => <<s, point'[s]>> = Present(s)
        BY DEF About, Present
    <2>4. Settles(longer, Shown(s), s, <<s, point'[s]>>)
        BY <1>3, <2>1, <2>2, <2>3 DEF Heard
    <2> QED  BY <1>1, <1>4, <2>4 DEF Present
<1> QED  BY <1>9, <1>10, <1>11 DEF Heard

LEMMA HeardRest ==
    ASSUME TypeInv, Heard, wire # <<>>, wire' = Tail(wire), UNCHANGED device,
           Known' = IF IsState(Head(wire)) THEN Head(wire).setback ELSE Known,
           \A s \in Setbacks :
                get(setpoints', s) = IF About(Head(wire), s) THEN Head(wire).value ELSE Shown(s)
    PROVE  Heard'
<1>1. wire \in Seq(Messages)
    BY DEF TypeInv, TypeOK
<1>2. PICK line \in Seq(Messages) : line = wire
    BY <1>1
<1>3. PICK rest \in Seq(Messages) : rest = wire'
    BY <1>1, WithoutHead
<1>4. line # <<>> /\ rest = Tail(line)
    BY <1>2, <1>3
<1>5. PICK n \in Nat : n = Len(line)
    OBVIOUS
<1>6. /\ DOMAIN line = 1 .. n /\ DOMAIN rest = 1 .. n - 1 /\ Len(rest) = n - 1
      /\ n > 0 /\ \A i \in 1 .. n - 1 : rest[i] = line[i + 1]
    BY <1>4, <1>5, WithoutHead
<1>7. PICK known : known = Known'
    OBVIOUS
<1>8. \A a : \A i \in 1 .. n : Tells(line, Known, i + 1, a) => Tells(rest, known, i, a)
    BY <1>2, <1>4, <1>5, <1>7, TellsRest
<1>9. Named'
    <2> SUFFICES ASSUME NEW i \in 1 .. n - 1, ~IsState(rest[i])
                 PROVE  /\ rest[i].value \in Value
                        /\ \/ rest[i].setback = rest[i].value[1]
                           \/ rest[i].setback = CURRENT /\ Tells(rest, known, i, rest[i].value[1])
        BY <1>3, <1>6, <1>7 DEF Named
    <2>1. i + 1 \in 1 .. n /\ rest[i] = line[i + 1] /\ i \in 1 .. n
        BY <1>6
    <2>2. /\ line[i + 1].value \in Value
          /\ \/ line[i + 1].setback = line[i + 1].value[1]
             \/ /\ line[i + 1].setback = CURRENT
                /\ Tells(line, Known, i + 1, line[i + 1].value[1])
        BY <1>2, <1>6, <2>1 DEF Heard, Named
    <2> QED  BY <1>8, <2>1, <2>2
<1>10. Tells(wire, Known, Len(wire) + 1, active)'
    <2>1. Tells(line, Known, n + 1, active)
        BY <1>2, <1>5 DEF Heard
    <2>2. Tells(rest, known, n, active) /\ Len(rest) + 1 = n
        BY <1>6, <1>8, <2>1
    <2> QED  BY <1>3, <1>7, <2>2 DEF device
<1>11. ASSUME NEW s \in Setbacks PROVE Settles(wire, Shown(s), s, Present(s))'
    <2>1. Settles(line, Shown(s), s, Present(s))
        BY <1>2 DEF Heard
    <2>2. Settles(rest, IF About(Head(line), s) THEN Head(line).value ELSE Shown(s), s, Present(s))
        BY <1>4, <2>1, SettlesRest
    <2>3. Shown(s)' = (IF About(Head(line), s) THEN Head(line).value ELSE Shown(s))
        BY <1>2 DEF Shown
    <2> QED  BY <1>3, <2>2, <2>3 DEF Present, device
<1> QED  BY <1>9, <1>10, <1>11 DEF Heard

LEMMA ExcusesStay == [Next]_vars /\ excuses' = {} => excuses = {}
BY DEF Next, Send, DeviceAnswers, Answered, Unmatched, TimesOut, Listen, Apply, ChangeActive,
       ChangePoint, Tell, vars

\* What was kept for later is read before what is still on the line.
LEMMA ListenHears ==
    ASSUME TypeInv, Polled, Listen
    PROVE  Heard'
<1>1. /\ backlog \in Seq(Messages) /\ wire \in Seq(Messages) /\ active \in Setbacks
      /\ \A s \in Setbacks : Present(s) \in Value
    BY DEF TypeInv, TypeOK, Present, Value
<1>2. /\ wire' = backlog \o wire /\ UNCHANGED <<device, setpoints>>
    BY DEF Listen
<1>3. PICK line : Joins(line, backlog, wire)
    BY DEF Joins
<1>4. /\ line \in Seq(Messages) /\ line = wire' /\ Len(line) \in Nat
      /\ DOMAIN line = 1 .. Len(line)
      /\ \A i \in DOMAIN line : (\E j \in DOMAIN backlog : line[i] = backlog[j])
                                \/ \E j \in DOMAIN wire : line[i] = wire[j]
    <2>1. /\ line \in Seq(Messages) /\ Len(line) = Len(backlog) + Len(wire)
          /\ Len(backlog) \in Nat /\ Len(wire) \in Nat
          /\ DOMAIN backlog = 1 .. Len(backlog) /\ DOMAIN wire = 1 .. Len(wire)
          /\ DOMAIN line = 1 .. Len(backlog) + Len(wire)
          /\ \A i \in 1 .. Len(backlog) : line[i] = backlog[i]
          /\ \A i \in 1 .. Len(wire) : line[Len(backlog) + i] = wire[i]
        BY <1>1, <1>3, Joined
    <2>2. ASSUME NEW i \in Len(backlog) + 1 .. Len(backlog) + Len(wire)
          PROVE  \E j \in DOMAIN wire : line[i] = wire[j]
        <3>1. i - Len(backlog) \in 1 .. Len(wire) /\ Len(backlog) + (i - Len(backlog)) = i
            BY <2>1
        <3> QED  BY <2>1, <3>1
    <2>3. \A i \in DOMAIN line : i \in 1 .. Len(backlog)
                                 \/ i \in Len(backlog) + 1 .. Len(backlog) + Len(wire)
        BY <2>1
    <2>4. line = wire'
        BY <1>2, <1>3 DEF Joins
    <2> QED  BY <2>1, <2>2, <2>3, <2>4
<1>5. \A i \in DOMAIN line : Genuine(line[i])
    BY <1>4 DEF Polled
<1>6. \A i : Tells(line, Known, i, active)
    BY <1>5 DEF Tells, Genuine, Polled
<1>7. \A s \in Setbacks : Settles(line, Shown(s), s, Present(s))
    <2>1. \A m, s : Genuine(m) /\ About(m, s) => m.value = Present(s)
        BY DEF Genuine, About, Present
    <2> QED  BY <1>5, <2>1 DEF Settles, Polled
<1>8. \A i \in DOMAIN line : ~IsState(line[i]) =>
        /\ line[i].value \in Value
        /\ \/ line[i].setback = line[i].value[1]
           \/ line[i].setback = CURRENT /\ Tells(line, Known, i, line[i].value[1])
    <2> SUFFICES ASSUME NEW i \in DOMAIN line, ~IsState(line[i])
                 PROVE  /\ line[i].value \in Value
                        /\ \/ line[i].setback = line[i].value[1]
                           \/ /\ line[i].setback = CURRENT
                              /\ Tells(line, Known, i, line[i].value[1])
        OBVIOUS
    <2>1. PICK s \in Setbacks :
                /\ line[i].value = Present(s)
                /\ line[i].setback = s \/ (line[i].setback = CURRENT /\ s = active)
        BY <1>5 DEF Genuine
    <2>2. line[i].value[1] = s
        BY <2>1 DEF Present
    <2> QED  BY <1>1, <1>6, <2>1, <2>2
<1>9. Named'
    BY <1>2, <1>4, <1>8 DEF Named, Known
<1>10. Tells(wire, Known, Len(wire) + 1, active)'
    BY <1>2, <1>4, <1>6 DEF Known, device
<1>11. \A s \in Setbacks : Settles(wire, Shown(s), s, Present(s))'
    BY <1>2, <1>4, <1>7 DEF Shown, Present, device
<1> QED  BY <1>9, <1>10, <1>11 DEF Heard

\* What the poll makes of an answer, unless it gets it wrong.
LEMMA AnsweredEffect ==
    ASSUME TypeInv, Polled, Answered, excuses' = {}
    PROVE  LET r == Head(todo)
               observed == setpoints.current_observed_setback
               v == setpoints'
           IN  \/ /\ r = StateRequest /\ v.active_setback = active
                  /\ v.current_observed_setback = observed
                  /\ \A s : get(v, s) = Shown(s)
               \/ /\ v.active_setback = Known /\ v.current_observed_setback = observed
                  /\ \E a \in Setbacks :
                        /\ r = SetpointRequest(a)
                        /\ \A s : get(v, s) = IF s = a THEN Present(a) ELSE Shown(s)
               \/ /\ r = SetpointRequest(CURRENT) /\ v.active_setback = active
                  /\ v.current_observed_setback = active
                  /\ \A s : get(v, s) = IF s = CURRENT \/ s = active THEN Present(active)
                                        ELSE Shown(s)
<1>1. PICK r : r = Head(todo)
    OBVIOUS
<1>2. PICK m : m = Head(wire)
    OBVIOUS
<1>3. PICK w : w = Seeded(r, m)
    OBVIOUS
<1>4. /\ setpoints' = w /\ Matches(r, m) /\ Confusions(r, m) = {} /\ wire # <<>>
    BY <1>1, <1>2, <1>3 DEF Answered
<1>5. r \in Requests
    BY <1>1, NextRequestTypes DEF Answered
<1>6. Genuine(m) /\ m \in Messages
    <2>1. wire \in Seq(Messages)
        BY DEF TypeInv, TypeOK
    <2>2. 1 \in DOMAIN wire /\ m = wire[1] /\ m \in Messages
        BY <1>2, <1>4, <2>1, WithoutHead
    <2> QED  BY <2>2 DEF Polled
<1>7. /\ IsClient(setpoints) /\ active \in Setbacks /\ active # CURRENT /\ active # None
      /\ None \notin 0 .. CURRENT /\ CURRENT \notin Setbacks /\ Setbacks \subseteq 0 .. CURRENT
    BY SetbackNames, DeviceType DEF TypeInv, ClientType
<1>8. CASE r = StateRequest
    <2>1. r.method = "SETBACK_STATE" /\ IsState(m)
        BY <1>4, <1>8 DEF StateRequest, Matches, IsState
    <2>2. w = with_active_setback(setpoints, active)
        BY <1>3, <1>6, <2>1 DEF Seeded, Genuine
    <2>3. /\ w.active_setback = active
          /\ w.current_observed_setback = setpoints.current_observed_setback
          /\ \A s : get(w, s) = Shown(s)
        BY <1>7, <2>2, ActiveSetback DEF Shown
    <2> QED  BY <1>1, <1>4, <1>8, <2>3
<1>9. ASSUME NEW a \in 0 .. CURRENT, r = SetpointRequest(a)
      PROVE  /\ r.method # "SETBACK_STATE" /\ r.setback = a /\ ~IsState(m)
             /\ a # CURRENT => m.setback = a
             /\ m.answers # None
    BY <1>4, <1>7, <1>9 DEF SetpointRequest, Matches, IsState
<1>10. CASE \E a \in Setbacks : r = SetpointRequest(a)
    <2>1. PICK a \in Setbacks : r = SetpointRequest(a)
        BY <1>10
    <2>2. /\ r.method # "SETBACK_STATE" /\ r.setback = a /\ ~IsState(m) /\ a # CURRENT
          /\ m.setback = a
        BY <1>7, <1>9, <2>1
    <2>3. m.value = Present(a)
        BY <1>6, <1>7, <2>2 DEF Genuine
    <2>4. w = Enter(setpoints, a, Present(a))
        BY <1>3, <2>2, <2>3 DEF Seeded, Enter
    <2>5. /\ w.active_setback = Known
          /\ w.current_observed_setback = setpoints.current_observed_setback
          /\ \A s : get(w, s) = IF s = a THEN Present(a) ELSE Shown(s)
        BY <1>7, <2>4, OneSlot DEF Shown, Known
    <2> QED  BY <1>1, <1>4, <2>1, <2>5
<1>11. CASE r = SetpointRequest(CURRENT)
    <2>1. /\ r.method # "SETBACK_STATE" /\ r.setback = CURRENT /\ ~IsState(m) /\ m.answers # None
        BY <1>9, <1>11, Numbers
    <2>2. m.answers = r
        <3>1. m.answers # r => "mistaken" \in Confusions(r, m)
            BY <1>11 DEF Confusions
        <3> QED  BY <1>4, <3>1
    <2>3. m.setback # CURRENT
        <3>1. m.setback = CURRENT => "echoed" \in Confusions(r, m)
            BY <1>11 DEF Confusions
        <3> QED  BY <1>4, <3>1
    <2>4. Or(m.setback, Known) = m.setback
        <3>1. Or(m.setback, Known) # m.setback => "misnamed" \in Confusions(r, m)
            BY <1>11 DEF Confusions, Known
        <3> QED  BY <1>4, <3>1
    <2>5. m.setback = active /\ m.value = Present(active)
        BY <1>6, <1>11, <2>1, <2>2, <2>3 DEF Genuine
    <2>6. Reported(m) = active /\ Or(Reported(m), Known) = active
        BY <2>4, <2>5 DEF Reported, Known, Or
    <2>7. w = CurrentAnswer(m)
        BY <1>3, <2>1 DEF Seeded
    <2>8. /\ w.active_setback = active /\ w.current_observed_setback = active
          /\ \A s : get(w, s) = IF s = CURRENT \/ s = active THEN Present(active) ELSE Shown(s)
        BY <1>7, <2>5, <2>6, <2>7, CurrentAnswered DEF Shown, Known
    <2> QED  BY <1>1, <1>4, <1>11, <2>8
<1>12. r = StateRequest \/ \E a \in 0 .. CURRENT : r = SetpointRequest(a)
    BY <1>5 DEF Requests
<1>13. \A a \in 0 .. CURRENT : a = CURRENT \/ a \in Setbacks
    BY Numbers DEF Setbacks
<1> QED  BY <1>8, <1>10, <1>11, <1>12, <1>13

\* What the report loop makes of a message, if it knows which setback is active.
LEMMA ApplyEffect ==
    ASSUME TypeInv, Heard, Apply, excuses' = {}
    PROVE  LET m == Head(wire)
               observed == setpoints.current_observed_setback
               v == setpoints'
           IN  /\ m \in Messages
               /\ IF IsState(m)
                  THEN /\ v.active_setback = m.setback /\ m.setback # None
                       /\ v.current_observed_setback = observed
                       /\ \A s : get(v, s) = Shown(s)
                  ELSE /\ v.active_setback = Known /\ m.value \in Value /\ m.value # None
                       /\ \E a \in Setbacks :
                            /\ m.value[1] = a
                            /\ \/ /\ v.current_observed_setback = observed
                                  /\ \A s : get(v, s) = IF s = a THEN m.value ELSE Shown(s)
                               \/ /\ Known = a /\ v.current_observed_setback = a
                                  /\ \A s : get(v, s) = IF s = CURRENT \/ s = a THEN m.value
                                                        ELSE Shown(s)
<1>1. PICK m : m = Head(wire)
    OBVIOUS
<1>2. PICK w : w = Updated(setpoints, m)
    OBVIOUS
<1>3. /\ setpoints' = w /\ wire # <<>>
      /\ ~(m.method = "HEAT_SETPOINT" /\ m.setback = CURRENT /\ Known = None)
    BY <1>1, <1>2 DEF Apply, Known
<1>4. wire \in Seq(Messages) /\ IsClient(setpoints) /\ None \notin 0 .. CURRENT
      /\ CURRENT \notin Setbacks /\ None \notin Value
    BY SetbackAssumption, ValueAssumption DEF TypeInv, TypeOK, ClientType, Setbacks
<1>5. m \in Messages /\ 1 \in DOMAIN wire /\ m = wire[1]
    BY <1>1, <1>3, <1>4, WithoutHead
<1>6. CASE IsState(m)
    <2>1. w = with_active_setback(setpoints, m.setback)
        BY <1>2, <1>6 DEF Updated, with_scalar, IsState
    <2>2. m.setback # None
        BY <1>4, <1>5 DEF Messages
    <2>3. /\ w.active_setback = m.setback
          /\ w.current_observed_setback = setpoints.current_observed_setback
          /\ \A s : get(w, s) = Shown(s)
        BY <1>4, <2>1, ActiveSetback DEF Shown
    <2> QED  BY <1>1, <1>3, <1>5, <1>6, <2>2, <2>3
<1>7. CASE ~IsState(m)
    <2>1. w = with_value(setpoints, m.setback, m.value)
        BY <1>2, <1>7 DEF Updated, with_setpoint, IsState
    <2>2. /\ m.value \in Value
          /\ m.setback = m.value[1] \/ (m.setback = CURRENT /\ Tells(wire, Known, 1, m.value[1]))
        BY <1>5, <1>7 DEF Heard, Named
    <2>3. PICK a \in Setbacks : a = m.value[1]
        BY <2>2 DEF Value
    <2>4. a # CURRENT /\ a # None /\ m.value # None
        BY <1>4, <2>2, <2>3, Numbers DEF Setbacks
    <2>5. CASE m.setback = a
        <3>1. m.setback # CURRENT
            BY <2>4, <2>5
        <3>2. /\ w.active_setback = Known
              /\ w.current_observed_setback = setpoints.current_observed_setback
              /\ \A s : get(w, s) = IF s = a THEN m.value ELSE Shown(s)
            BY <1>4, <2>1, <2>5, <3>1, WithValue DEF Shown, Known
        <3> QED  BY <1>1, <1>3, <1>5, <1>7, <2>2, <2>3, <2>4, <3>2
    <2>6. CASE m.setback = CURRENT
        <3>1. Tells(wire, Known, 1, a)
            BY <2>2, <2>3, <2>4, <2>6
        <3>2. Known \in {None, a}
            <4>1. \A j \in DOMAIN wire : ~ j < 1
                BY <1>4
            <4> QED  BY <3>1, <4>1 DEF Tells
        <3>3. m.method = "HEAT_SETPOINT"
            BY <1>5, <1>7 DEF Messages, IsState
        <3>4. Known = a /\ Observed(setpoints) = a
            BY <1>3, <2>4, <2>6, <3>2, <3>3 DEF Observed, Known
        <3>5. /\ w.active_setback = Known /\ w.current_observed_setback = a
              /\ \A s : get(w, s) = IF s = CURRENT \/ s = a THEN m.value ELSE Shown(s)
            BY <1>4, <2>1, <2>4, <2>6, <3>4, WithValue DEF Shown, Known
        <3> QED  BY <1>1, <1>3, <1>5, <1>7, <2>2, <2>3, <2>4, <3>4, <3>5
    <2> QED  BY <2>2, <2>3, <2>5, <2>6
<1> QED  BY <1>6, <1>7

LEMMA AnswersAreGenuine ==
    ASSUME TypeInv, NEW r \in Requests, NEW m \in AnswersTo(r)
    PROVE  /\ Genuine(m)
           /\ ~IsState(m) => \E s \in Setbacks :
                /\ m.value = Present(s) /\ m.value \in Value
                /\ m.setback = s \/ (m.setback = CURRENT /\ s = active)
<1>1. /\ active \in Setbacks /\ CURRENT \notin Setbacks
      /\ \A s \in Setbacks : Present(s) \in Value
    BY SetbackNames, DeviceType DEF TypeInv, Present
<1>2. CASE r.method = "SETBACK_STATE"
    BY <1>2 DEF AnswersTo, StateMessage, Genuine, IsState
<1>3. CASE r.method # "SETBACK_STATE"
    <2>1. PICK a \in 0 .. CURRENT : r = SetpointRequest(a)
        BY <1>3 DEF Requests, StateRequest
    <2>2. CASE a # CURRENT
        <3>1. a \in Setbacks /\ m = SetpointMessage(r, a, a)
            BY <1>3, <2>1, <2>2, Numbers DEF AnswersTo, SetpointRequest, Setbacks
        <3>2. ~IsState(m) /\ m.value = Present(a) /\ m.setback = a /\ m.answers = r
            BY <3>1 DEF SetpointMessage, IsState, Present
        <3>3. r # SetpointRequest(CURRENT)
            BY <2>1, <2>2 DEF SetpointRequest
        <3> QED  BY <1>1, <3>1, <3>2, <3>3 DEF Genuine
    <2>3. CASE a = CURRENT
        <3>1. PICK label \in {active, CURRENT} : m = SetpointMessage(r, label, active)
            BY <1>3, <2>1, <2>3 DEF AnswersTo, SetpointRequest
        <3>2. ~IsState(m) /\ m.value = Present(active) /\ m.setback = label
            BY <3>1 DEF SetpointMessage, IsState, Present
        <3> QED  BY <1>1, <3>1, <3>2 DEF Genuine
    <2> QED  BY <2>2, <2>3
<1> QED  BY <1>2, <1>3

\* Nothing changes at the device; what is said and shown stays true.
LEMMA PolledKept ==
    ASSUME UNCHANGED device, NEW line, NEW later, NEW v,
           line = wire', later = backlog', v = setpoints',
           \A i \in DOMAIN line : Genuine(line[i]), \A i \in DOMAIN later : Genuine(later[i]),
           v.active_setback \in {None, active},
           \A s \in Setbacks : get(v, s) \in {None, Present(s)}
    PROVE  Polled'
<1>1. active' = active /\ point' = point
    BY DEF device
<1>2. (\A i \in DOMAIN wire : Genuine(wire[i]))'
    BY <1>1 DEF Genuine, IsState, Present
<1>3. (\A i \in DOMAIN backlog : Genuine(backlog[i]))'
    BY <1>1 DEF Genuine, IsState, Present
<1>4. Known' \in {None, active'}
    BY <1>1 DEF Known
<1>5. (\A s \in Setbacks : Shown(s) \in {None, Present(s)})'
    BY <1>1 DEF Shown, Present
<1> QED  BY <1>2, <1>3, <1>4, <1>5 DEF Polled

LEMMA PolledStep ==
    ASSUME TypeInv, Polled, [Next]_vars, ~listening, ~listening', excuses' = {}
    PROVE  Polled'
<1>1. /\ wire \in Seq(Messages) /\ backlog \in Seq(Messages) /\ asked \in Seq(Requests)
      /\ None \notin 0 .. CURRENT /\ CURRENT \notin Setbacks /\ active \in Setbacks
      /\ IsClient(setpoints)
    BY SetbackAssumption DEF TypeInv, TypeOK, ClientType, Setbacks
<1>2. /\ \A i \in DOMAIN wire : Genuine(wire[i])
      /\ \A i \in DOMAIN backlog : Genuine(backlog[i])
      /\ Known \in {None, active} /\ \A s \in Setbacks : Shown(s) \in {None, Present(s)}
    BY DEF Polled
<1>3. PICK line : line = wire'
    OBVIOUS
<1>4. PICK later : later = backlog'
    OBVIOUS
<1>5. PICK v : v = setpoints'
    OBVIOUS
<1>6. ASSUME wire # <<>>, line = Tail(wire)
      PROVE  (\A i \in DOMAIN line : Genuine(line[i])) /\ Genuine(Head(wire))
    <2>1. /\ Len(wire) \in Nat \ {0} /\ DOMAIN wire = 1 .. Len(wire)
          /\ DOMAIN line = 1 .. Len(wire) - 1 /\ Head(wire) = wire[1]
          /\ \A i \in 1 .. Len(wire) - 1 : line[i] = wire[i + 1]
        BY <1>1, <1>6, WithoutHead
    <2> QED  BY <1>2, <2>1
<1>7. CASE UNCHANGED vars \/ Send
    <2>1. UNCHANGED <<device, wire, backlog, setpoints>>
        BY <1>7 DEF vars, Send
    <2> QED  BY <1>2, <1>3, <1>4, <1>5, <2>1, PolledKept DEF Known, Shown
<1>8. CASE DeviceAnswers
    <2>1. Head(asked) \in Requests
        BY <1>1, <1>8, WithoutHead DEF DeviceAnswers
    <2>2. PICK m \in AnswersTo(Head(asked)) : line = Append(wire, m)
        BY <1>3, <1>8 DEF DeviceAnswers
    <2>3. Genuine(m) /\ m \in Messages
        BY <2>1, AnswersAreGenuine, AnswerTypes DEF TypeInv
    <2>4. \A i \in DOMAIN line : Genuine(line[i])
        <3>1. /\ Len(wire) \in Nat /\ DOMAIN wire = 1 .. Len(wire)
              /\ DOMAIN line = 1 .. Len(wire) + 1 /\ line[Len(wire) + 1] = m
              /\ \A i \in 1 .. Len(wire) : line[i] = wire[i]
            BY <1>1, <2>2, <2>3, AppendedTo
        <3> QED  BY <1>2, <2>3, <3>1
    <2>5. UNCHANGED <<device, backlog, setpoints>>
        BY <1>8 DEF DeviceAnswers
    <2> QED  BY <1>2, <1>3, <1>4, <1>5, <2>4, <2>5, PolledKept DEF Known, Shown
<1>9. CASE Answered
    <2>1. /\ UNCHANGED <<device, backlog>> /\ wire # <<>> /\ line = Tail(wire)
        BY <1>3, <1>9 DEF Answered
    <2>2. \/ v.active_setback = active /\ \A s : get(v, s) = Shown(s)
          \/ /\ v.active_setback = Known
             /\ \E a \in Setbacks :
                    \A s : get(v, s) = IF s = a THEN Present(a) ELSE Shown(s)
          \/ /\ v.active_setback = active
             /\ \A s : get(v, s) = IF s = CURRENT \/ s = active THEN Present(active) ELSE Shown(s)
        BY <1>5, <1>9, AnsweredEffect
    <2>3. v.active_setback \in {None, active}
        BY <1>2, <2>2
    <2>4. \A s \in Setbacks : get(v, s) \in {None, Present(s)}
        BY <1>1, <1>2, <2>2
    <2> QED  BY <1>2, <1>3, <1>4, <1>5, <1>6, <2>1, <2>3, <2>4, PolledKept
<1>10. CASE Unmatched
    <2>1. /\ UNCHANGED <<device, setpoints>> /\ wire # <<>> /\ line = Tail(wire)
          /\ later = Append(backlog, Head(wire))
        BY <1>3, <1>4, <1>10 DEF Unmatched
    <2>2. Head(wire) \in Messages
        BY <1>1, <2>1, WithoutHead
    <2>3. \A i \in DOMAIN later : Genuine(later[i])
        <3>1. /\ Len(backlog) \in Nat /\ DOMAIN backlog = 1 .. Len(backlog)
              /\ DOMAIN later = 1 .. Len(backlog) + 1 /\ later[Len(backlog) + 1] = Head(wire)
              /\ \A i \in 1 .. Len(backlog) : later[i] = backlog[i]
            BY <1>1, <2>1, <2>2, AppendedTo
        <3> QED  BY <1>2, <1>6, <2>1, <3>1
    <2> QED  BY <1>2, <1>3, <1>4, <1>5, <1>6, <2>1, <2>3, PolledKept DEF Known, Shown
<1>11. CASE TimesOut
    <2>1. UNCHANGED <<device, wire, backlog>>
        BY <1>11 DEF TimesOut
    <2>2. v.active_setback = Known /\ \A s : get(v, s) \in {None, Shown(s)}
        <3>1. CASE Head(todo) = StateRequest
            BY <1>5, <1>11, <3>1 DEF TimesOut, Known, Shown
        <3>2. CASE Head(todo) # StateRequest
            <4>1. v = Enter(setpoints, Head(todo).setback, None)
                BY <1>5, <1>11, <3>2 DEF TimesOut, Enter
            <4> QED  BY <1>1, <4>1, OneSlot DEF Known, Shown
        <3> QED  BY <3>1, <3>2
    <2>3. \A s \in Setbacks : get(v, s) \in {None, Present(s)}
        BY <1>2, <2>2
    <2> QED  BY <1>2, <1>3, <1>4, <1>5, <2>1, <2>2, <2>3, PolledKept
<1>12. CASE Listen \/ Apply
    BY <1>12 DEF Listen, Apply
<1>13. ASSUME NEW s \in Setbacks, ChangeActive(s) \/ ChangePoint(s) PROVE FALSE
    BY <1>13 DEF ChangeActive, ChangePoint, Tell
<1> QED  BY <1>7, <1>8, <1>9, <1>10, <1>11, <1>12, <1>13 DEF Next

\* Every message that follows keeps the client on the way to what the device has.
LEMMA HeardStep ==
    ASSUME TypeInv, Heard, [Next]_vars, listening, excuses' = {}
    PROVE  Heard'
<1>1. /\ wire \in Seq(Messages) /\ asked \in Seq(Requests) /\ CURRENT \notin Setbacks
      /\ point \in [Setbacks -> 0 .. MaxMoves] /\ moves \in 0 .. MaxMoves
      /\ todo = <<>> /\ ~sent /\ Setbacks \subseteq 0 .. CURRENT /\ CURRENT \in 0 .. CURRENT
      /\ \A z \in Setbacks : point[z] <= moves
    BY Numbers DEF TypeInv, TypeOK, PollInv, Setbacks
<1>2. CASE UNCHANGED vars
    BY <1>2 DEF Heard, Named, Tells, Settles, IsState, About, Known, Shown, Present, vars, device
<1>3. CASE Send \/ Answered \/ Unmatched \/ TimesOut \/ Listen
    BY <1>1, <1>3 DEF Send, Answered, Unmatched, TimesOut, Listen
<1>4. CASE DeviceAnswers
    <2>1. Head(asked) \in Requests
        BY <1>1, <1>4, WithoutHead DEF DeviceAnswers
    <2>2. PICK m \in AnswersTo(Head(asked)) : wire' = Append(wire, m)
        BY <1>4 DEF DeviceAnswers
    <2>3. /\ m \in Messages /\ Genuine(m)
          /\ ~IsState(m) => \E s \in Setbacks :
                /\ m.value = Present(s) /\ m.value \in Value
                /\ m.setback = s \/ (m.setback = CURRENT /\ s = active)
        BY <2>1, AnswersAreGenuine, AnswerTypes DEF TypeInv
    <2>4. UNCHANGED <<active, point, setpoints>>
        BY <1>4 DEF DeviceAnswers, device
    <2>5. CASE IsState(m)
        <3>1. m.setback = active'
            BY <2>3, <2>4, <2>5 DEF Genuine
        <3> QED  BY <2>2, <2>3, <2>4, <2>5, <3>1, HeardMore
    <2>6. CASE ~IsState(m)
        <3>1. \E s \in Setbacks :
                    /\ m.value = <<s, point'[s]>> /\ m.value \in Value
                    /\ m.setback = s \/ (m.setback = CURRENT /\ s = active)
                    /\ \A z \in Setbacks : z # s => point'[z] = point[z]
            BY <2>3, <2>4, <2>6 DEF Present
        <3> QED  BY <2>2, <2>3, <2>4, <2>6, <3>1, HeardMore
    <2> QED  BY <2>5, <2>6
<1>5. CASE Apply
    <2>1. PICK m : m = Head(wire)
        OBVIOUS
    <2>2. PICK v : v = setpoints'
        OBVIOUS
    <2>3. IF IsState(m)
          THEN v.active_setback = m.setback /\ \A s : get(v, s) = Shown(s)
          ELSE /\ v.active_setback = Known
               /\ \E a \in Setbacks :
                    /\ m.value[1] = a
                    /\ \/ \A s : get(v, s) = IF s = a THEN m.value ELSE Shown(s)
                       \/ \A s : get(v, s) = IF s = CURRENT \/ s = a THEN m.value ELSE Shown(s)
        BY <1>5, <2>1, <2>2, ApplyEffect
    <2>4. \A s \in Setbacks : get(v, s) = IF About(m, s) THEN m.value ELSE Shown(s)
        BY <1>1, <2>3 DEF About
    <2>5. v.active_setback = IF IsState(m) THEN m.setback ELSE Known
        BY <2>3
    <2>6. wire # <<>> /\ wire' = Tail(wire) /\ UNCHANGED device
        BY <1>5 DEF Apply
    <2>7. Known' = IF IsState(Head(wire)) THEN Head(wire).setback ELSE Known
        BY <2>1, <2>2, <2>5 DEF Known
    <2>8. \A s \in Setbacks :
                get(setpoints', s) = IF About(Head(wire), s) THEN Head(wire).value ELSE Shown(s)
        BY <2>1, <2>2, <2>4
    <2> QED  BY <2>6, <2>7, <2>8, HeardRest
<1>6. ASSUME NEW s \in Setbacks, ChangeActive(s) PROVE Heard'
    <2>1. PICK m : m = StateMessage(None, s)
        OBVIOUS
    <2>2. m \in Messages /\ IsState(m) /\ m.setback = s
        BY <1>1, <2>1 DEF StateMessage, Messages, IsState
    <2>3. /\ wire' = Append(wire, m) /\ active' = s /\ point' = point /\ UNCHANGED setpoints
        BY <1>1, <1>6, <2>1 DEF ChangeActive, Tell
    <2> QED  BY <2>2, <2>3, HeardMore
<1>7. ASSUME NEW s \in Setbacks, ChangePoint(s) PROVE Heard'
    <2>1. PICK label \in {s} \cup (IF s = active THEN {CURRENT} ELSE {}) :
                Tell([SetpointMessage(None, label, s) EXCEPT !.value = <<s, point'[s]>>])
        BY <1>7 DEF ChangePoint
    <2>2. PICK m : m = [SetpointMessage(None, label, s) EXCEPT !.value = <<s, point'[s]>>]
        OBVIOUS
    <2>3. m = [answers |-> None, method |-> "HEAT_SETPOINT", setback |-> label,
               value |-> <<s, point'[s]>>]
        BY <2>2 DEF SetpointMessage
    <2>4. /\ active' = active /\ point'[s] = point[s] + 1
          /\ \A z \in Setbacks : z # s => point'[z] = point[z]
        BY <1>1, <1>7 DEF ChangePoint
    <2>5. wire' = Append(wire, m) /\ UNCHANGED setpoints /\ moves < MaxMoves
        BY <2>1, <2>2 DEF Tell
    <2>6. m.value \in Value /\ m.value = <<s, point'[s]>>
        <3>1. point'[s] \in 0 .. MaxMoves
            BY <1>1, <2>4, <2>5, Numbers
        <3> QED  BY <2>3, <3>1 DEF Value
    <2>7. m \in Messages /\ ~IsState(m) /\ m.setback = label
        BY <1>1, <2>1, <2>3, <2>6 DEF Messages, IsState
    <2>8. m.setback = s \/ (m.setback = CURRENT /\ s = active)
        BY <2>1, <2>7
    <2> QED  BY <2>4, <2>5, <2>6, <2>7, <2>8, HeardMore
<1> QED  BY <1>2, <1>3, <1>4, <1>5, <1>6, <1>7 DEF Next

LEMMA KeptStep ==
    ASSUME TypeInv, Kept, IF listening THEN Heard ELSE Polled, [Next]_vars, excuses' = {}
    PROVE  Kept'
<1>1. /\ None \notin 0 .. CURRENT /\ CURRENT \notin Setbacks /\ Setbacks \subseteq 0 .. CURRENT
      /\ active \in Setbacks /\ todo \in Seq(Requests) /\ IsClient(setpoints)
      /\ timeouts \in 0 .. MaxTimeouts /\ \A s \in Setbacks : Present(s) # None
    <2>1. \A s \in Setbacks : Present(s) \in Value
        BY DEF TypeInv, TypeOK, Present, Value
    <2>2. \A s \in Setbacks : Present(s) # None
        BY <2>1, ValueAssumption
    <2>3. /\ active \in Setbacks /\ todo \in Seq(Requests) /\ IsClient(setpoints)
          /\ timeouts \in 0 .. MaxTimeouts
        BY DEF TypeInv, TypeOK, ClientType
    <2> QED  BY <2>2, <2>3, SetbackNames
<1>2. PICK v : v = setpoints'
    OBVIOUS
<1>3. PICK observed : observed = setpoints.current_observed_setback
    OBVIOUS
<1>4. /\ Known = None => Shown(CURRENT) = None
      /\ observed # None => todo = <<>> /\ Shown(observed) # None
      /\ timeouts = 0 => Known # None \/ \E i \in DOMAIN todo : todo[i] = StateRequest
      /\ include_setbacks /\ timeouts = 0 => \A s \in Setbacks :
            Shown(s) # None \/ \E i \in DOMAIN todo : todo[i] = SetpointRequest(s)
    BY <1>3 DEF Kept
<1>5. CASE UNCHANGED <<setpoints, todo, timeouts, include_setbacks>>
    BY <1>5 DEF Kept, Known, Shown
<1>6. ASSUME sent, todo' = Tail(todo)
      PROVE  /\ todo # <<>> /\ observed = None
             /\ Head(todo) = SetpointRequest(CURRENT) => todo' = <<>>
             /\ \A r : r # Head(todo) /\ (\E i \in DOMAIN todo : todo[i] = r)
                            => \E i \in DOMAIN todo' : todo'[i] = r
    <2>1. todo # <<>>
        BY <1>6 DEF TypeInv, PollInv
    <2>2. PICK rest \in Seq(Requests) : rest = Tail(todo)
        BY <1>1, <2>1, WithoutHead
    <2>3. /\ Len(todo) \in Nat \ {0} /\ DOMAIN todo = 1 .. Len(todo)
          /\ DOMAIN rest = 1 .. Len(todo) - 1 /\ Len(rest) = Len(todo) - 1
          /\ Head(todo) = todo[1] /\ \A i \in 1 .. Len(todo) - 1 : rest[i] = todo[i + 1]
        BY <1>1, <2>1, <2>2, WithoutHead
    <2>4. Head(todo) = SetpointRequest(CURRENT) => rest = <<>>
        <3>1. Head(todo) = SetpointRequest(CURRENT) => 1 = Len(todo)
            BY <2>3 DEF TypeInv, PollInv
        <3> QED  BY <2>2, <2>3, <3>1
    <2>5. ASSUME NEW i \in 1 .. Len(todo), todo[i] # todo[1]
          PROVE  i - 1 \in DOMAIN rest /\ rest[i - 1] = todo[i]
        <3>1. i # 1
            BY <2>5
        <3>2. i - 1 \in 1 .. Len(todo) - 1 /\ (i - 1) + 1 = i
            BY <2>3, <3>1
        <3> QED  BY <2>3, <3>2
    <2> QED  BY <1>4, <1>6, <2>1, <2>2, <2>3, <2>4, <2>5
<1>7. ASSUME NEW r, NEW s, r \in {StateRequest, SetpointRequest(CURRENT)}, s \in Setbacks
      PROVE  r # SetpointRequest(s)
    BY <1>1, <1>7 DEF StateRequest, SetpointRequest
<1>8. ASSUME NEW s \in 0 .. CURRENT PROVE StateRequest # SetpointRequest(s)
    BY DEF StateRequest, SetpointRequest
<1>9. CASE Answered
    <2>1. /\ sent /\ todo' = Tail(todo) /\ UNCHANGED <<timeouts, include_setbacks>> /\ ~listening
        BY <1>9 DEF Answered, TypeInv, PollInv
    <2>2. \/ /\ Head(todo) = StateRequest /\ v.active_setback = active
             /\ v.current_observed_setback = observed
             /\ \A s : get(v, s) = Shown(s)
          \/ /\ v.active_setback = Known /\ v.current_observed_setback = observed
             /\ \E a \in Setbacks :
                    /\ Head(todo) = SetpointRequest(a)
                    /\ \A s : get(v, s) = IF s = a THEN Present(a) ELSE Shown(s)
          \/ /\ Head(todo) = SetpointRequest(CURRENT) /\ v.active_setback = active
             /\ v.current_observed_setback = active
             /\ \A s : get(v, s) = IF s = CURRENT \/ s = active THEN Present(active) ELSE Shown(s)
        BY <1>2, <1>3, <1>9, <2>1, AnsweredEffect
    <2>3. v.active_setback = None => get(v, CURRENT) = None
        BY <1>1, <1>4, <2>2
    <2>4. v.current_observed_setback # None =>
                todo' = <<>> /\ get(v, v.current_observed_setback) # None
        BY <1>1, <1>6, <2>1, <2>2
    <2>5. timeouts = 0 => v.active_setback # None \/ \E i \in DOMAIN todo' : todo'[i] = StateRequest
        BY <1>1, <1>4, <1>6, <1>8, <2>1, <2>2
    <2>6. ASSUME NEW s \in Setbacks, include_setbacks, timeouts = 0
          PROVE  get(v, s) # None \/ \E i \in DOMAIN todo' : todo'[i] = SetpointRequest(s)
        <3>1. Shown(s) # None \/ \E i \in DOMAIN todo : todo[i] = SetpointRequest(s)
            BY <1>4, <2>6
        <3>2. CASE Head(todo) \in {StateRequest, SetpointRequest(CURRENT)}
            <4>1. get(v, s) # None \/ get(v, s) = Shown(s)
                BY <1>1, <1>7, <2>2, <3>2
            <4>2. Head(todo) # SetpointRequest(s)
                BY <1>7, <3>2
            <4> QED  BY <1>6, <2>1, <3>1, <4>1, <4>2
        <3>3. ASSUME NEW a \in Setbacks, Head(todo) = SetpointRequest(a),
                     \A z : get(v, z) = IF z = a THEN Present(a) ELSE Shown(z)
              PROVE  get(v, s) # None \/ \E i \in DOMAIN todo' : todo'[i] = SetpointRequest(s)
            <4>1. CASE s = a
                BY <1>1, <3>3, <4>1
            <4>2. CASE s # a
                <5>1. SetpointRequest(s) # Head(todo)
                    BY <3>3, <4>2 DEF SetpointRequest
                <5> QED  BY <1>6, <2>1, <3>1, <3>3, <4>2, <5>1
            <4> QED  BY <4>1, <4>2
        <3> QED  BY <2>2, <3>2, <3>3
    <2> QED  BY <1>2, <2>1, <2>3, <2>4, <2>5, <2>6 DEF Kept, Known, Shown
<1>10. CASE TimesOut
    <2>1. sent /\ todo' = Tail(todo) /\ timeouts' # 0
        BY <1>1, <1>10, Numbers DEF TimesOut
    <2>2. /\ v.active_setback = Known /\ v.current_observed_setback = observed
          /\ \A s : get(v, s) \in {None, Shown(s)}
        <3>1. CASE Head(todo) = StateRequest
            BY <1>2, <1>3, <1>10, <3>1 DEF TimesOut, Known, Shown
        <3>2. CASE Head(todo) # StateRequest
            <4>1. v = Enter(setpoints, Head(todo).setback, None)
                BY <1>2, <1>10, <3>2 DEF TimesOut, Enter
            <4> QED  BY <1>1, <1>3, <4>1, OneSlot DEF Known, Shown
        <3> QED  BY <3>1, <3>2
    <2>3. v.active_setback = None => get(v, CURRENT) = None
        BY <1>4, <2>2
    <2>4. v.current_observed_setback = None
        BY <1>6, <2>1, <2>2
    <2> QED  BY <1>2, <2>1, <2>3, <2>4 DEF Kept, Known, Shown
<1>11. CASE Apply
    <2>1. listening /\ todo = <<>> /\ UNCHANGED <<todo, timeouts, include_setbacks>>
        BY <1>11 DEF Apply, TypeInv, PollInv, poll
    <2>2. PICK m : m = Head(wire)
        OBVIOUS
    <2>3. IF IsState(m)
          THEN /\ v.active_setback # None /\ v.current_observed_setback = observed
               /\ \A s : get(v, s) = Shown(s)
          ELSE /\ v.active_setback = Known /\ m.value # None
               /\ \E a \in Setbacks :
                    \/ /\ v.current_observed_setback = observed
                       /\ \A s : get(v, s) = IF s = a THEN m.value ELSE Shown(s)
                    \/ /\ Known = a /\ v.current_observed_setback = a
                       /\ \A s : get(v, s) = IF s = CURRENT \/ s = a THEN m.value ELSE Shown(s)
        <3>1. m.setback = v.active_setback => (m.setback # None => v.active_setback # None)
            OBVIOUS
        <3> QED  BY <1>2, <1>3, <1>11, <2>1, <2>2, ApplyEffect
    <2>4. v.active_setback = None => get(v, CURRENT) = None
        BY <1>1, <1>4, <2>3
    <2>5. v.current_observed_setback # None => get(v, v.current_observed_setback) # None
        BY <1>4, <2>3
    <2>6. Known # None => v.active_setback # None
        BY <2>3
    <2>7. \A s \in Setbacks : Shown(s) # None => get(v, s) # None
        BY <2>3
    <2> QED  BY <1>2, <1>4, <2>1, <2>4, <2>5, <2>6, <2>7 DEF Kept, Known, Shown
<1>12. Send \/ DeviceAnswers \/ Unmatched \/ Listen \/ UNCHANGED vars
            => UNCHANGED <<setpoints, todo, timeouts, include_setbacks>>
    BY DEF Send, DeviceAnswers, Unmatched, Listen, vars, poll
<1>13. \A s \in Setbacks : ChangeActive(s) \/ ChangePoint(s)
            => UNCHANGED <<setpoints, todo, timeouts, include_setbacks>>
    BY DEF ChangeActive, ChangePoint, Tell, poll
<1> QED  BY <1>5, <1>9, <1>10, <1>11, <1>12, <1>13 DEF Next

LEMMA CaughtUpInit == Init => CaughtUp
<1> SUFFICES ASSUME Init PROVE Kept /\ Polled /\ ~listening
    BY DEF CaughtUp
<1>1. PICK v : v = setpoints
    OBVIOUS
<1>2. DOMAIN v.values = {} /\ v.active_setback = None /\ v.current_observed_setback = None
    BY <1>1 DEF Init
<1>3. \A s : get(v, s) = None
    BY <1>2 DEF get
<1>4. PICK last \in Nat : last = IF include_setbacks THEN CURRENT + 2 ELSE 2
    BY Numbers
<1>5. /\ DOMAIN todo = 1 .. last /\ 1 \in 1 .. last /\ todo[1] = StateRequest
      /\ \A i \in 2 .. last - 1 : todo[i] = SetpointRequest(i - 2)
    <2>1. /\ todo \in Seq(Requests) /\ Len(todo) = last /\ last > 1 /\ todo[1] = StateRequest
          /\ \A i \in 2 .. last - 1 : todo[i] = SetpointRequest(i - 2)
        BY <1>4, PollOrder, Numbers DEF Init
    <2> QED  BY <2>1
<1>6. ASSUME NEW s \in Setbacks, include_setbacks
      PROVE  \E i \in DOMAIN todo : todo[i] = SetpointRequest(s)
    <2>1. s + 2 \in 2 .. last - 1 /\ (s + 2) - 2 = s /\ s + 2 \in 1 .. last
        BY <1>4, <1>6, Numbers DEF Setbacks
    <2> QED  BY <1>5, <2>1
<1>7. Kept
    BY <1>1, <1>2, <1>3, <1>5, <1>6 DEF Kept, Known, Shown
<1>8. Polled /\ ~listening
    <2>1. wire = <<>> /\ backlog = <<>> /\ ~listening
        BY DEF Init
    <2> QED  BY <1>1, <1>2, <1>3, <2>1 DEF Polled, Known, Shown
<1> QED  BY <1>7, <1>8

LEMMA CaughtUpStep == TypeInv /\ CaughtUp /\ [Next]_vars => CaughtUp'
<1> SUFFICES ASSUME TypeInv, CaughtUp, [Next]_vars, excuses' = {}
             PROVE  Kept' /\ IF listening' THEN Heard' ELSE Polled'
    BY DEF CaughtUp
<1>1. Kept /\ IF listening THEN Heard ELSE Polled
    BY ExcusesStay DEF CaughtUp
<1>2. Kept'
    BY <1>1, KeptStep
<1>3. CASE listening
    <2>1. listening' = listening
        BY <1>3 DEF Next, Send, DeviceAnswers, Answered, Unmatched, TimesOut, Listen, Apply,
                    ChangeActive, ChangePoint, Tell, vars
    <2>2. Heard'
        BY <1>1, <1>3, HeardStep
    <2> QED  BY <1>2, <1>3, <2>1, <2>2
<1>4. CASE ~listening /\ listening'
    <2>1. Listen
        BY <1>4 DEF Next, Send, DeviceAnswers, Answered, Unmatched, TimesOut, Apply,
                    ChangeActive, ChangePoint, Tell, vars
    <2>2. Heard'
        BY <1>1, <1>4, <2>1, ListenHears
    <2> QED  BY <1>2, <1>4, <2>2
<1>5. CASE ~listening /\ ~listening'
    <2>1. Polled'
        BY <1>1, <1>5, PolledStep
    <2> QED  BY <1>2, <1>5, <2>1
<1> QED  BY <1>3, <1>4, <1>5

LEMMA CaughtUpShows ==
    ASSUME TypeInv, CaughtUp
    PROVE  CurrentIsActive /\ SlotsAreCurrent
<1> SUFFICES ASSUME InStep PROVE CurrentIsActive /\ SlotsAreCurrent
    BY DEF CurrentIsActive, SlotsAreCurrent
<1>1. /\ Kept /\ Heard /\ wire = <<>> /\ todo = <<>>
      /\ active \in Setbacks /\ CURRENT \notin Setbacks /\ None \notin 0 .. CURRENT
      /\ Setbacks \subseteq 0 .. CURRENT /\ None \notin Value
    BY SetbackAssumption, ValueAssumption
       DEF InStep, CaughtUp, TypeInv, TypeOK, PollInv, Setbacks
<1>2. PICK line : line = wire
    OBVIOUS
<1>3. line = <<>> /\ DOMAIN line = {}
    BY <1>1, <1>2
<1>4. Known \in {None, active}
    BY <1>1, <1>2, <1>3 DEF Heard, Tells
<1>5. \A s \in Setbacks : Shown(s) \in {None, Present(s)}
    BY <1>1, <1>2, <1>3 DEF Heard, Settles
<1>6. SlotsAreCurrent
    BY <1>5 DEF SlotsAreCurrent, Shown, Present
<1>7. timeouts = 0 => Known # None
    BY <1>1 DEF Kept
<1>8. include_setbacks /\ timeouts = 0 => Shown(active) # None
    BY <1>1 DEF Kept
<1>9. timeouts # 0 => timeouts > 0
    BY Numbers DEF TypeInv, TypeOK
<1>10. CASE Known = None
    <2>1. current(setpoints) = Shown(CURRENT) /\ Shown(CURRENT) = None
        BY <1>1, <1>10 DEF current, Known, Shown, Kept
    <2> QED  BY <1>6, <1>7, <1>9, <1>10, <2>1 DEF CurrentIsActive
<1>11. CASE Known = active
    <2>1. setpoints.current_observed_setback = active => Shown(active) # None
        BY <1>1 DEF Kept
    <2>2. current(setpoints) = Shown(active)
        BY <1>1, <1>11, <2>1 DEF current, Known, Shown
    <2>3. \/ Shown(active) = Present(active)
          \/ Shown(active) = None /\ (timeouts > 0 \/ ~include_setbacks)
        BY <1>1, <1>5, <1>8, <1>9
    <2> QED  BY <1>6, <2>2, <2>3 DEF CurrentIsActive, Present
<1> QED  BY <1>4, <1>10, <1>11

LEMMA CaughtUpAlways == Spec => [](TypeInv /\ CaughtUp)
BY TypeInit, TypeStep, CaughtUpInit, CaughtUpStep, PTL DEF Spec

\* Once the client has read what the device said, and the device said enough, the current
\* value is the one of the device's active setback, in whatever order changes, late answers
\* and the backlog came (SetpointValues.current, models.py:505-522).
THEOREM CurrentNeverStale == Spec => []CurrentIsActive
BY CaughtUpAlways, CaughtUpShows, PTL

\* The same for the setbacks: none has a value that the device has changed since
\* (SetpointValues.with_value, models.py:558-571).
THEOREM SlotsNeverStale == Spec => []SlotsAreCurrent
BY CaughtUpAlways, CaughtUpShows, PTL

-----------------------------------------------------------------------------
(* The user's calls *)

Increasing(q) == \A i, j \in DOMAIN q : i < j => q[i] < q[j]

LEMMA OneMore ==
    ASSUME NEW q \in Seq(Nat), NEW e \in Nat, NEW longer, longer = Append(q, e)
    PROVE  /\ longer \in Seq(Nat) /\ ToSet(longer) = ToSet(q) \cup {e}
           /\ IsInjective(q) /\ e \notin ToSet(q) => IsInjective(longer)
           /\ Increasing(q) /\ (\A u \in ToSet(q) : u < e) => Increasing(longer)
<1>1. PICK n \in Nat : n = Len(q)
    OBVIOUS
<1>2. /\ longer \in Seq(Nat) /\ DOMAIN q = 1 .. n /\ DOMAIN longer = 1 .. n + 1
      /\ longer[n + 1] = e /\ \A i \in 1 .. n : longer[i] = q[i]
    BY <1>1, AppendedTo
<1>3. \A i \in 1 .. n + 1 : i \in 1 .. n \/ i = n + 1
    OBVIOUS
<1>4. ToSet(longer) = ToSet(q) \cup {e}
    BY <1>2, <1>3 DEF ToSet
<1>5. IsInjective(q) /\ e \notin ToSet(q) => IsInjective(longer)
    BY <1>2, <1>3 DEF ToSet, IsInjective
<1>6. Increasing(q) /\ (\A u \in ToSet(q) : u < e) => Increasing(longer)
    <2> SUFFICES ASSUME Increasing(q), \A u \in ToSet(q) : u < e,
                        NEW i \in 1 .. n + 1, NEW j \in 1 .. n + 1, i < j
                 PROVE  longer[i] < longer[j]
        BY <1>2 DEF Increasing
    <2>1. i \in 1 .. n
        OBVIOUS
    <2> QED  BY <1>2, <1>3, <2>1 DEF Increasing, ToSet
<1> QED  BY <1>2, <1>4, <1>5, <1>6

LEMMA OneLess ==
    ASSUME NEW q \in Seq(Nat), q # <<>>, NEW rest, rest = Tail(q)
    PROVE  /\ rest \in Seq(Nat) /\ ToSet(rest) \subseteq ToSet(q)
           /\ Head(q) \in ToSet(q) /\ Head(q) \in Nat /\ Head(q) = q[1]
           /\ IsInjective(q) => IsInjective(rest) /\ ToSet(rest) = ToSet(q) \ {Head(q)}
           /\ Increasing(q) => Increasing(rest) /\ \A u \in ToSet(rest) : Head(q) < u
<1>1. PICK n \in Nat \ {0} : n = Len(q)
    BY WithoutHead
<1>2. /\ rest \in Seq(Nat) /\ DOMAIN q = 1 .. n /\ DOMAIN rest = 1 .. n - 1
      /\ Head(q) \in Nat /\ Head(q) = q[1] /\ \A i \in 1 .. n - 1 : rest[i] = q[i + 1]
    BY <1>1, WithoutHead
<1>3. \A i \in 1 .. n - 1 : i + 1 \in 1 .. n /\ i + 1 # 1 /\ 1 < i + 1 /\ 1 \in 1 .. n
    OBVIOUS
<1>4. ASSUME NEW i \in 1 .. n, i # 1 PROVE i - 1 \in 1 .. n - 1 /\ q[i] = rest[i - 1]
    <2>1. i - 1 \in 1 .. n - 1 /\ (i - 1) + 1 = i
        BY <1>4
    <2> QED  BY <1>2, <2>1
<1>5. ToSet(rest) \subseteq ToSet(q) /\ Head(q) \in ToSet(q)
    BY <1>2, <1>3 DEF ToSet
<1>6. ASSUME IsInjective(q)
      PROVE  IsInjective(rest) /\ ToSet(rest) = ToSet(q) \ {Head(q)}
    <2>1. IsInjective(rest)
        <3> SUFFICES ASSUME NEW i \in 1 .. n - 1, NEW j \in 1 .. n - 1, rest[i] = rest[j]
                     PROVE  i = j
            BY <1>2 DEF IsInjective
        <3>1. PICK k \in 1 .. n, l \in 1 .. n : k = i + 1 /\ l = j + 1
            BY <1>3
        <3>2. q[k] = q[l]
            BY <1>2, <3>1
        <3>3. k = l
            BY <1>2, <1>6, <3>2 DEF IsInjective
        <3> QED  BY <3>1, <3>3
    <2>2. Head(q) \notin ToSet(rest)
        <3> SUFFICES ASSUME NEW i \in 1 .. n - 1, rest[i] = q[1] PROVE FALSE
            BY <1>2 DEF ToSet
        <3>1. q[i + 1] = q[1] /\ i + 1 \in 1 .. n /\ 1 \in 1 .. n /\ i + 1 # 1
            BY <1>2, <1>3
        <3> QED  BY <1>2, <1>6, <3>1 DEF IsInjective
    <2>3. ASSUME NEW u \in ToSet(q), u # Head(q) PROVE u \in ToSet(rest)
        <3>1. PICK i \in 1 .. n : q[i] = u
            BY <1>2 DEF ToSet
        <3>2. i # 1
            BY <1>2, <2>3, <3>1
        <3>3. i - 1 \in DOMAIN rest /\ rest[i - 1] = u
            BY <1>2, <1>4, <3>1, <3>2
        <3> QED  BY <3>3 DEF ToSet
    <2> QED  BY <1>5, <2>1, <2>2, <2>3
<1>7. ASSUME Increasing(q) PROVE Increasing(rest) /\ \A u \in ToSet(rest) : Head(q) < u
    <2>1. \A i, j \in 1 .. n - 1 : i < j => i + 1 < j + 1
        OBVIOUS
    <2>2. Increasing(rest)
        <3>1. \A i, j \in 1 .. n : i < j => q[i] < q[j]
            BY <1>2, <1>7 DEF Increasing
        <3>2. \A i \in 1 .. n - 1 : i + 1 \in 1 .. n /\ rest[i] = q[i + 1]
            BY <1>2, <1>3
        <3>3. \A i, j \in 1 .. n - 1 : i < j => rest[i] < rest[j]
            BY <2>1, <3>1, <3>2
        <3> QED  BY <1>2, <3>3 DEF Increasing
    <2>3. \A i \in 1 .. n - 1 : q[1] < rest[i]
        BY <1>2, <1>3, <1>7 DEF Increasing
    <2>4. \A u \in ToSet(rest) : Head(q) < u
        BY <1>2, <2>3 DEF ToSet
    <2> QED  BY <2>2, <2>4
<1> QED  BY <1>2, <1>5, <1>6, <1>7

LEMMA FirstRemoved ==
    ASSUME NEW q \in Seq(Nat), q # <<>>
    PROVE  RemoveAt(q, 1) = Tail(q)
<1>1. Len(q) \in Nat \ {0}
    BY WithoutHead
<1>2. SubSeq(q, 1, 0) = <<>> /\ SubSeq(q, 2, Len(q)) = Tail(q)
    BY <1>1
<1>3. Tail(q) \in Seq(Nat)
    BY WithoutHead
<1>4. RemoveAt(q, 1) = SubSeq(q, 1, 0) \o SubSeq(q, 2, Len(q))
    BY DEF RemoveAt
<1>5. <<>> \o Tail(q) = Tail(q)
    BY <1>3
<1> QED  BY <1>2, <1>4, <1>5

\* The new update stands in the queue once, for those it replaces or at the end.
LEMMA Enqueued ==
    ASSUME NEW q \in Seq(Nat), queue = q, New \in Nat, New \notin ToSet(q), IsInjective(q),
           NEW previous \in SUBSET ToSet(q), \A u, v \in previous : u = v,
           NEW longer, longer = Enqueue(previous)
    PROVE  /\ longer \in Seq(Nat) /\ ToSet(longer) = (ToSet(q) \ previous) \cup {New}
           /\ IsInjective(longer)
           /\ /\ Increasing(q) /\ \A u \in ToSet(q) : u < New
              /\ previous = {} \/ Last(q) \in previous
              => Increasing(longer)
<1>1. CASE previous = {}
    <2>1. longer = Append(q, New)
        BY <1>1 DEF Enqueue
    <2> QED  BY <1>1, <2>1, OneMore
<1>2. CASE previous # {}
    <2>1. PICK n \in Nat : n = Len(q) /\ DOMAIN q = 1 .. n /\ \A i \in 1 .. n : q[i] \in Nat
        OBVIOUS
    <2>2. PICK e \in Nat : e = New
        OBVIOUS
    <2>3. PICK k \in 1 .. n : q[k] \in previous
        BY <1>2, <2>1 DEF ToSet
    <2>4. \A i \in 1 .. n : q[i] \in previous => i = k
        BY <2>1, <2>3 DEF IsInjective
    <2>5. longer = [i \in 1 .. n |-> IF i = k THEN e ELSE q[i]]
        <3>1. longer = [i \in DOMAIN q |-> IF q[i] \in previous THEN e ELSE q[i]]
            BY <1>2, <2>2 DEF Enqueue
        <3> QED  BY <2>1, <2>3, <2>4, <3>1
    <2>6. /\ longer \in Seq(Nat) /\ DOMAIN longer = 1 .. n
          /\ \A i \in 1 .. n : longer[i] = IF i = k THEN e ELSE q[i]
        BY <2>1, <2>5
    <2>7. \A i \in 1 .. n : q[i] # e
        BY <2>1, <2>2 DEF ToSet
    <2>8. IsInjective(longer)
        <3> SUFFICES ASSUME NEW i \in 1 .. n, NEW j \in 1 .. n, longer[i] = longer[j]
                     PROVE  i = j
            BY <2>6 DEF IsInjective
        <3>1. i # k /\ j # k => q[i] = q[j]
            BY <2>6
        <3>2. i # k /\ j # k => i = j
            BY <2>1, <3>1 DEF IsInjective
        <3> QED  BY <2>6, <2>7, <3>2
    <2>9. ToSet(longer) = (ToSet(q) \ previous) \cup {e}
        <3>1. ASSUME NEW u \in ToSet(longer) PROVE u \in (ToSet(q) \ previous) \cup {e}
            <4>1. PICK i \in 1 .. n : longer[i] = u
                BY <2>6 DEF ToSet
            <4>2. i # k => q[i] = u /\ q[i] \notin previous
                BY <2>4, <2>6, <4>1
            <4> QED  BY <2>1, <2>6, <4>1, <4>2 DEF ToSet
        <3>2. ASSUME NEW u \in ToSet(q), u \notin previous PROVE u \in ToSet(longer)
            <4>1. PICK i \in 1 .. n : q[i] = u
                BY <2>1 DEF ToSet
            <4>2. longer[i] = u
                BY <2>3, <2>6, <3>2, <4>1
            <4> QED  BY <2>6, <4>2 DEF ToSet
        <3>3. e \in ToSet(longer)
            BY <2>6 DEF ToSet
        <3> QED  BY <3>1, <3>2, <3>3
    <2>10. ASSUME Increasing(q), \A u \in ToSet(q) : u < New, Last(q) \in previous
           PROVE  Increasing(longer)
        <3>1. k = n
            BY <2>1, <2>3, <2>4, <2>10 DEF Last
        <3>2. \A i \in 1 .. n : q[i] < e
            BY <2>1, <2>2, <2>10 DEF ToSet
        <3>3. \A i, j \in 1 .. n : i < j => i # n
            OBVIOUS
        <3> QED  BY <2>1, <2>6, <2>10, <3>1, <3>2, <3>3 DEF Increasing
    <2> QED  BY <1>2, <2>2, <2>6, <2>8, <2>9, <2>10
<1> QED  BY <1>1, <1>2

Updates == [kind : {"now", "post", "confirm"}, setback : 0 .. CURRENT]

\* The types, and nobody sets anything before reports are on.
CallTypes ==
    /\ sets \in Seq(Updates)
    /\ effect \in Seq(Value \cup {None}) /\ Len(effect) = Len(sets)
    /\ queue \in Seq(Nat) /\ lockers \in Seq(Nat) /\ written \in Seq(Nat)
    /\ holder \in DOMAIN sets \cup {NoCall}
    /\ reordered \subseteq {"overtook", "aliased"}
    /\ sets # <<>> => listening

\* The calls that the device has not executed, and those that it has.
Waiting == {u \in DOMAIN sets : effect[u] = None}
Executed == {u \in DOMAIN sets : effect[u] # None}

\* A call waits in one place, and the queue has one update of a name.
Places ==
    /\ ToSet(queue) \cup ToSet(lockers) \cup ToSet(written) \subseteq Waiting
    /\ IsInjective(queue) /\ IsInjective(lockers) /\ IsInjective(written)
    /\ ToSet(queue) \cap ToSet(lockers) = {} /\ ToSet(queue) \cap ToSet(written) = {}
    /\ ToSet(lockers) \cap ToSet(written) = {}
    /\ \A u \in ToSet(queue) : sets[u].kind # "now"
    /\ \A u, v \in ToSet(queue) : sets[u].setback = sets[v].setback => u = v
    /\ holder # NoCall =>
            /\ sets[holder].kind # "post"
            /\ holder \notin ToSet(queue) \cup ToSet(lockers)

Before(A, B) == \A u \in A, v \in B : u < v

\* Unless something let a call pass an earlier one, they go on in the order of the calls.
InOrder ==
    reordered = {} =>
        /\ Increasing(queue) /\ Increasing(lockers) /\ Increasing(written)
        /\ Before(ToSet(lockers), ToSet(queue)) /\ Before(ToSet(written), ToSet(queue))
        /\ Before(ToSet(written), ToSet(lockers)) /\ Before(Executed, ToSet(queue))
        /\ Before(Executed, ToSet(lockers)) /\ Before(Executed, ToSet(written))

\* What the calls gave the setpoints was not more than they have now, later calls gave
\* more, and the client has heard of it or will.
Effects ==
    /\ \A u \in Executed : effect[u][2] <= point[effect[u][1]]
    /\ reordered = {} =>
            \A u, v \in Executed :
                u < v /\ effect[u][1] = effect[v][1] => effect[u][2] < effect[v][2]
    /\ excuses = {} =>
            \A u \in Executed :
                \/ Shown(effect[u][1]) # None
                \/ \E i \in DOMAIN wire : About(wire[i], effect[u][1])

LEMMA NewCall ==
    ASSUME CallTypes, NEW call \in Updates,
           sets' = Append(sets, call), effect' = Append(effect, None)
    PROVE  /\ sets' \in Seq(Updates) /\ effect' \in Seq(Value \cup {None})
           /\ Len(effect') = Len(sets') /\ New \in Nat \ {0} /\ New \notin DOMAIN sets
           /\ DOMAIN sets' = DOMAIN sets \cup {New} /\ DOMAIN sets \subseteq Nat \ {0}
           /\ sets'[New] = call /\ effect'[New] = None
           /\ \A u \in DOMAIN sets : u < New /\ sets'[u] = sets[u] /\ effect'[u] = effect[u]
<1>1. PICK n \in Nat : n = Len(sets) /\ n = Len(effect)
    BY DEF CallTypes
<1>2. /\ sets' \in Seq(Updates) /\ DOMAIN sets = 1 .. n /\ DOMAIN sets' = 1 .. n + 1
      /\ Len(sets') = n + 1 /\ sets'[n + 1] = call /\ \A i \in 1 .. n : sets'[i] = sets[i]
    BY <1>1, AppendedTo DEF CallTypes
<1>3. /\ effect' \in Seq(Value \cup {None}) /\ Len(effect') = n + 1
      /\ effect'[n + 1] = None /\ \A i \in 1 .. n : effect'[i] = effect[i]
    <2>1. effect \in Seq(Value \cup {None}) /\ None \in Value \cup {None}
        BY DEF CallTypes
    <2> QED  BY <1>1, <2>1, AppendedTo
<1>4. New = n + 1
    BY <1>1 DEF New
<1>5. 1 .. n + 1 = 1 .. n \cup {n + 1} /\ n + 1 \notin 1 .. n /\ 1 .. n \subseteq Nat \ {0}
      /\ \A i \in 1 .. n : i < n + 1
    OBVIOUS
<1> QED  BY <1>2, <1>3, <1>4, <1>5

LEMMA NewWaits ==
    ASSUME CallTypes, Places, NEW call \in Updates,
           sets' = Append(sets, call), effect' = Append(effect, None)
    PROVE  /\ Waiting' = Waiting \cup {New} /\ Executed' = Executed
           /\ New \in Nat /\ New \notin Waiting /\ New \notin Executed
           /\ \A u \in Waiting \cup Executed : u \in Nat /\ u < New
<1>1. /\ DOMAIN sets' = DOMAIN sets \cup {New} /\ DOMAIN sets \subseteq Nat \ {0}
      /\ New \in Nat \ {0} /\ New \notin DOMAIN sets /\ effect'[New] = None
      /\ \A u \in DOMAIN sets : u < New /\ effect'[u] = effect[u]
    BY NewCall
<1> QED  BY <1>1 DEF Waiting, Executed

CallsInv == CallTypes /\ Places /\ InOrder

LEMMA SetNowCalls ==
    ASSUME CallsInv, NEW setback \in 0 .. CURRENT, SetNow(setback)
    PROVE  CallsInv'
<1>1. PICK call \in Updates : call = Update("now", setback)
    BY DEF Update, Updates
<1>2. /\ sets' = Append(sets, call) /\ effect' = Append(effect, None) /\ listening
      /\ lockers' = Append(lockers, New)
      /\ reordered' = (IF queue = <<>> THEN reordered ELSE reordered \cup {"overtook"})
      /\ UNCHANGED <<vars, queue, holder, written>>
    BY <1>1 DEF SetNow, MaySet
<1>3. /\ sets' \in Seq(Updates) /\ effect' \in Seq(Value \cup {None})
      /\ Len(effect') = Len(sets') /\ DOMAIN sets' = DOMAIN sets \cup {New}
      /\ \A u \in DOMAIN sets : sets'[u] = sets[u]
      /\ New \notin DOMAIN sets /\ New \in Nat \ {0}
    BY <1>2, NewCall DEF CallsInv
<1>4. /\ Waiting' = Waiting \cup {New} /\ Executed' = Executed /\ New \notin Waiting
      /\ \A u \in Waiting \cup Executed : u \in Nat /\ u < New
    BY <1>2, NewWaits DEF CallsInv
<1>5. /\ lockers' \in Seq(Nat) /\ ToSet(lockers') = ToSet(lockers) \cup {New}
      /\ IsInjective(lockers) /\ New \notin ToSet(lockers) => IsInjective(lockers')
      /\ Increasing(lockers) /\ (\A u \in ToSet(lockers) : u < New) => Increasing(lockers')
    BY <1>2, <1>3, OneMore DEF CallsInv, CallTypes
<1>6. CallTypes'
    BY <1>2, <1>3, <1>5 DEF CallsInv, CallTypes, vars
<1>7. ToSet(queue) \cup ToSet(lockers) \cup ToSet(written) \subseteq Waiting
      /\ Waiting \subseteq DOMAIN sets
    BY DEF CallsInv, Places, Waiting
<1>8. Places'
    <2>1. ToSet(queue') \cup ToSet(lockers') \cup ToSet(written') \subseteq Waiting'
        BY <1>2, <1>4, <1>5, <1>7
    <2>2. IsInjective(queue') /\ IsInjective(lockers') /\ IsInjective(written')
        BY <1>2, <1>4, <1>5, <1>7 DEF CallsInv, Places
    <2>3. /\ ToSet(queue') \cap ToSet(lockers') = {} /\ ToSet(queue') \cap ToSet(written') = {}
          /\ ToSet(lockers') \cap ToSet(written') = {}
        BY <1>2, <1>4, <1>5, <1>7 DEF CallsInv, Places
    <2>4. /\ \A u \in ToSet(queue') : sets'[u].kind # "now"
          /\ \A u, v \in ToSet(queue') : sets'[u].setback = sets'[v].setback => u = v
        BY <1>2, <1>3, <1>7 DEF CallsInv, Places
    <2>5. holder' # NoCall =>
            /\ sets'[holder'].kind # "post"
            /\ holder' \notin ToSet(queue') \cup ToSet(lockers')
        BY <1>2, <1>3, <1>5 DEF CallsInv, Places, CallTypes
    <2> QED  BY <2>1, <2>2, <2>3, <2>4, <2>5 DEF Places
<1>9. InOrder'
    <2> SUFFICES ASSUME reordered' = {} PROVE InOrder'
        BY DEF InOrder
    <2>1. reordered = {} /\ ToSet(queue) = {}
        <3>1. reordered = {} /\ queue = <<>>
            BY <1>2
        <3>2. DOMAIN queue = {}
            BY <3>1
        <3> QED  BY <3>1, <3>2 DEF ToSet
    <2>2. Increasing(lockers')
        BY <1>4, <1>5, <1>7, <2>1 DEF CallsInv, InOrder
    <2> QED  BY <1>2, <1>4, <1>5, <1>7, <2>1, <2>2 DEF CallsInv, InOrder, Before
<1> QED  BY <1>6, <1>8, <1>9 DEF CallsInv

LEMMA SetLatestCalls ==
    ASSUME CallsInv, NEW setback \in 0 .. CURRENT, NEW kind \in {"post", "confirm"},
           SetLatest(setback, kind)
    PROVE  CallsInv'
<1>1. PICK call \in Updates : call = Update(kind, setback)
    BY DEF Update, Updates
<1>2. PICK previous : previous = Previous(setback)
    OBVIOUS
<1>3. /\ sets' = Append(sets, call) /\ effect' = Append(effect, None) /\ listening
      /\ queue' = Enqueue(previous)
      /\ reordered' = (IF previous = {} \/ Last(queue) \in previous THEN reordered
                       ELSE reordered \cup {"aliased"})
      /\ UNCHANGED <<vars, lockers, holder, written>>
    BY <1>1, <1>2 DEF SetLatest, MaySet
<1>4. /\ sets' \in Seq(Updates) /\ effect' \in Seq(Value \cup {None})
      /\ Len(effect') = Len(sets') /\ DOMAIN sets' = DOMAIN sets \cup {New}
      /\ sets'[New] = call /\ \A u \in DOMAIN sets : sets'[u] = sets[u]
      /\ New \notin DOMAIN sets /\ New \in Nat \ {0}
    BY <1>3, NewCall DEF CallsInv
<1>5. /\ Waiting' = Waiting \cup {New} /\ Executed' = Executed /\ New \notin Waiting
      /\ \A u \in Waiting \cup Executed : u \in Nat /\ u < New
    BY <1>3, NewWaits DEF CallsInv
<1>6. /\ ToSet(queue) \cup ToSet(lockers) \cup ToSet(written) \subseteq Waiting
      /\ Waiting \subseteq DOMAIN sets
    BY DEF CallsInv, Places, Waiting
<1>7. /\ previous \in SUBSET ToSet(queue) /\ \A u, v \in previous : u = v
      /\ \A u \in ToSet(queue) : sets[u].setback = setback => u \in previous
    BY <1>2 DEF Previous, CallsInv, Places
<1>8. /\ queue' \in Seq(Nat) /\ ToSet(queue') = (ToSet(queue) \ previous) \cup {New}
      /\ IsInjective(queue')
      /\ /\ Increasing(queue) /\ \A u \in ToSet(queue) : u < New
         /\ previous = {} \/ Last(queue) \in previous
         => Increasing(queue')
    <2>1. queue \in Seq(Nat) /\ IsInjective(queue) /\ New \notin ToSet(queue) /\ New \in Nat
        BY <1>4, <1>5, <1>6 DEF CallsInv, CallTypes, Places
    <2>2. PICK q \in Seq(Nat) : q = queue
        BY <2>1
    <2>3. PICK longer : longer = Enqueue(previous)
        OBVIOUS
    <2>4. /\ longer \in Seq(Nat) /\ ToSet(longer) = (ToSet(q) \ previous) \cup {New}
          /\ IsInjective(longer)
          /\ /\ Increasing(q) /\ \A u \in ToSet(q) : u < New
             /\ previous = {} \/ Last(q) \in previous
             => Increasing(longer)
        BY <1>7, <2>1, <2>2, <2>3, Enqueued
    <2> QED  BY <1>3, <2>2, <2>3, <2>4
<1>9. CallTypes'
    BY <1>3, <1>4, <1>8 DEF CallsInv, CallTypes, vars
<1>10. Places'
    <2>1. ToSet(queue') \cup ToSet(lockers') \cup ToSet(written') \subseteq Waiting'
        BY <1>3, <1>5, <1>6, <1>8
    <2>2. IsInjective(queue') /\ IsInjective(lockers') /\ IsInjective(written')
        BY <1>3, <1>8 DEF CallsInv, Places
    <2>3. /\ ToSet(queue') \cap ToSet(lockers') = {} /\ ToSet(queue') \cap ToSet(written') = {}
          /\ ToSet(lockers') \cap ToSet(written') = {}
        BY <1>3, <1>5, <1>6, <1>8 DEF CallsInv, Places
    <2>4. call.kind # "now" /\ call.setback = setback
        BY <1>1 DEF Update
    <2>5. \A u \in ToSet(queue') : sets'[u].kind # "now"
        BY <1>4, <1>6, <1>8, <2>4 DEF CallsInv, Places
    <2>6. \A u, v \in ToSet(queue') : sets'[u].setback = sets'[v].setback => u = v
        <3>1. \A u \in ToSet(queue) \ previous : sets'[u].setback # sets'[New].setback
            BY <1>4, <1>6, <1>7, <2>4
        <3>2. \A u, v \in ToSet(queue) : sets'[u].setback = sets'[v].setback => u = v
            BY <1>4, <1>6 DEF CallsInv, Places
        <3> QED  BY <1>8, <3>1, <3>2
    <2>7. holder' # NoCall =>
            /\ sets'[holder'].kind # "post"
            /\ holder' \notin ToSet(queue') \cup ToSet(lockers')
        BY <1>3, <1>4, <1>8 DEF CallsInv, Places, CallTypes
    <2> QED  BY <2>1, <2>2, <2>3, <2>5, <2>6, <2>7 DEF Places
<1>11. InOrder'
    <2> SUFFICES ASSUME reordered' = {} PROVE InOrder'
        BY DEF InOrder
    <2>1. reordered = {} /\ (previous = {} \/ Last(queue) \in previous)
        BY <1>3
    <2>2. Increasing(queue')
        BY <1>5, <1>6, <1>8, <2>1 DEF CallsInv, InOrder
    <2> QED  BY <1>3, <1>5, <1>6, <1>8, <2>1, <2>2 DEF CallsInv, InOrder, Before
<1> QED  BY <1>9, <1>10, <1>11 DEF CallsInv

\* A call goes from one place to the next one, and nothing else changes.
LEMMA PopCalls == ASSUME CallsInv, Pop PROVE CallsInv'
<1>1. /\ queue # <<>> /\ queue \in Seq(Nat) /\ lockers \in Seq(Nat)
      /\ IsInjective(queue) /\ IsInjective(lockers)
    BY DEF Pop, CallsInv, CallTypes, Places
<1>2. PICK u : u = Head(queue)
    OBVIOUS
<1>3. /\ u = queue[1] /\ u \in Nat /\ u \in ToSet(queue) /\ Tail(queue) \in Seq(Nat)
      /\ IsInjective(Tail(queue)) /\ ToSet(Tail(queue)) = ToSet(queue) \ {u}
      /\ Increasing(queue) =>
            Increasing(Tail(queue)) /\ \A v \in ToSet(Tail(queue)) : u < v
    BY <1>1, <1>2, OneLess
<1>4. /\ lockers' = Append(lockers, u) /\ queue' = Tail(queue)
      /\ UNCHANGED <<vars, sets, holder, written, effect, reordered>>
    BY <1>1, <1>3, FirstRemoved DEF Pop, Popped
<1>5. /\ lockers' \in Seq(Nat) /\ ToSet(lockers') = ToSet(lockers) \cup {u}
      /\ u \notin ToSet(lockers) => IsInjective(lockers')
      /\ Increasing(lockers) /\ (\A v \in ToSet(lockers) : v < u) => Increasing(lockers')
    BY <1>1, <1>3, <1>4, OneMore
<1>6. CallTypes'
    BY <1>3, <1>4, <1>5 DEF CallsInv, CallTypes, vars
<1>7. Waiting' = Waiting /\ Executed' = Executed
    BY <1>4 DEF Waiting, Executed
<1>8. Places'
    BY <1>3, <1>4, <1>5, <1>7 DEF CallsInv, Places
<1>9. InOrder'
    <2> SUFFICES ASSUME reordered' = {} PROVE InOrder'
        BY DEF InOrder
    <2>1. reordered = {} /\ \A v \in ToSet(lockers) : v < u
        BY <1>3, <1>4 DEF CallsInv, InOrder, Before
    <2> QED  BY <1>3, <1>4, <1>5, <1>7, <2>1 DEF CallsInv, InOrder, Before
<1> QED  BY <1>6, <1>8, <1>9 DEF CallsInv

LEMMA WriteCalls == ASSUME CallsInv, Write PROVE CallsInv'
<1>1. /\ lockers # <<>> /\ lockers \in Seq(Nat) /\ written \in Seq(Nat)
      /\ IsInjective(lockers) /\ IsInjective(written)
    BY DEF Write, CallsInv, CallTypes, Places
<1>2. PICK u : u = Head(lockers)
    OBVIOUS
<1>3. /\ u \in Nat /\ u \in ToSet(lockers) /\ Tail(lockers) \in Seq(Nat)
      /\ IsInjective(Tail(lockers)) /\ ToSet(Tail(lockers)) = ToSet(lockers) \ {u}
      /\ Increasing(lockers) =>
            Increasing(Tail(lockers)) /\ \A v \in ToSet(Tail(lockers)) : u < v
    BY <1>1, <1>2, OneLess
<1>4. /\ written' = Append(written, u) /\ lockers' = Tail(lockers)
      /\ holder' = (IF sets[u].kind # "post" THEN u ELSE NoCall)
      /\ UNCHANGED <<vars, sets, queue, effect, reordered>>
    BY <1>2 DEF Write, Awaits
<1>5. /\ written' \in Seq(Nat) /\ ToSet(written') = ToSet(written) \cup {u}
      /\ u \notin ToSet(written) => IsInjective(written')
      /\ Increasing(written) /\ (\A v \in ToSet(written) : v < u) => Increasing(written')
    BY <1>1, <1>3, <1>4, OneMore
<1>6. u \in DOMAIN sets /\ u \notin ToSet(queue)
    BY <1>3 DEF CallsInv, Places, Waiting
<1>7. CallTypes'
    BY <1>3, <1>4, <1>5, <1>6 DEF CallsInv, CallTypes, vars
<1>8. Waiting' = Waiting /\ Executed' = Executed
    BY <1>4 DEF Waiting, Executed
<1>9. Places'
    BY <1>3, <1>4, <1>5, <1>6, <1>8 DEF CallsInv, Places
<1>10. InOrder'
    <2> SUFFICES ASSUME reordered' = {} PROVE InOrder'
        BY DEF InOrder
    <2>1. reordered = {} /\ \A v \in ToSet(written) : v < u
        BY <1>3, <1>4 DEF CallsInv, InOrder, Before
    <2> QED  BY <1>3, <1>4, <1>5, <1>8, <2>1 DEF CallsInv, InOrder, Before
<1> QED  BY <1>7, <1>9, <1>10 DEF CallsInv

\* What the device does with an update is a change of the setpoint that it names.
LEMMA ExecuteEffect ==
    ASSUME TypeInv, CallsInv, Execute
    PROVE  \E u \in ToSet(written), s \in Setbacks :
                /\ ChangePoint(s) /\ u = Head(written) /\ written' = Tail(written)
                /\ effect' = [effect EXCEPT ![u] = <<s, point'[s]>>]
                /\ point'[s] = point[s] + 1 /\ <<s, point'[s]>> \in Value
                /\ UNCHANGED <<sets, queue, lockers, holder, reordered>>
<1>1. PICK u : u = Head(written)
    OBVIOUS
<1>2. PICK s : s = Slot(sets[u].setback)
    OBVIOUS
<1>3. /\ ChangePoint(s) /\ written # <<>> /\ written' = Tail(written)
      /\ effect' = [effect EXCEPT ![u] = <<s, point'[s]>>]
      /\ UNCHANGED <<sets, queue, lockers, holder, reordered>>
    BY <1>1, <1>2 DEF Execute
<1>4. u \in ToSet(written)
    BY <1>1, <1>3, OneLess DEF CallsInv, CallTypes
<1>5. sets[u] \in Updates
    <2>1. u \in DOMAIN sets /\ sets \in Seq(Updates)
        BY <1>4 DEF CallsInv, Places, Waiting, CallTypes
    <2> QED  BY <2>1
<1>6. s \in Setbacks
    BY <1>2, <1>5, Numbers DEF Updates, Slot, Setbacks, TypeInv, TypeOK
<1>7. TypeInv'
    BY <1>3, <1>6, DeviceTypes
<1>8. point'[s] \in 0 .. MaxMoves
    BY <1>6, <1>7 DEF TypeInv, TypeOK
<1>9. point'[s] = point[s] + 1
    BY <1>3, <1>6 DEF ChangePoint, TypeInv, TypeOK
<1> QED  BY <1>1, <1>3, <1>4, <1>6, <1>8, <1>9 DEF Value

LEMMA ExecutedMore ==
    ASSUME CallsInv, NEW u \in ToSet(written), NEW e \in Value,
           effect' = [effect EXCEPT ![u] = e], UNCHANGED sets
    PROVE  /\ effect' \in Seq(Value \cup {None}) /\ Len(effect') = Len(sets)
           /\ effect'[u] = e /\ \A v \in DOMAIN sets : v # u => effect'[v] = effect[v]
           /\ Waiting' = Waiting \ {u} /\ Executed' = Executed \cup {u} /\ u \notin Executed
<1>1. u \in DOMAIN sets /\ effect[u] = None
    BY DEF CallsInv, Places, Waiting
<1>2. /\ effect \in Seq(Value \cup {None}) /\ Len(effect) = Len(sets)
      /\ DOMAIN effect = DOMAIN sets /\ None \notin Value
    BY ValueAssumption DEF CallsInv, CallTypes
<1>3. /\ effect' \in Seq(Value \cup {None}) /\ Len(effect') = Len(sets) /\ effect'[u] = e
      /\ \A v \in DOMAIN sets : v # u => effect'[v] = effect[v]
    BY <1>1, <1>2
<1> QED  BY <1>1, <1>2, <1>3 DEF Waiting, Executed

LEMMA ExecuteCalls == ASSUME TypeInv, CallsInv, Execute PROVE CallsInv'
<1>1. PICK u \in ToSet(written), s \in Setbacks :
                /\ ChangePoint(s) /\ u = Head(written) /\ written' = Tail(written)
                /\ effect' = [effect EXCEPT ![u] = <<s, point'[s]>>]
                /\ point'[s] = point[s] + 1 /\ <<s, point'[s]>> \in Value
                /\ UNCHANGED <<sets, queue, lockers, holder, reordered>>
    BY ExecuteEffect
<1>2. /\ written # <<>> /\ written \in Seq(Nat) /\ IsInjective(written)
    BY DEF Execute, CallsInv, CallTypes, Places
<1>3. /\ Tail(written) \in Seq(Nat)
      /\ IsInjective(Tail(written)) /\ ToSet(Tail(written)) = ToSet(written) \ {u}
      /\ Increasing(written) =>
            Increasing(Tail(written)) /\ \A v \in ToSet(Tail(written)) : u < v
    BY <1>1, <1>2, OneLess
<1>4. /\ effect' \in Seq(Value \cup {None}) /\ Len(effect') = Len(sets)
      /\ Waiting' = Waiting \ {u} /\ Executed' = Executed \cup {u}
    BY <1>1, ExecutedMore
<1>5. listening' = listening
    BY <1>1 DEF ChangePoint, Tell
<1>6. CallTypes'
    BY <1>1, <1>3, <1>4, <1>5 DEF CallsInv, CallTypes
<1>7. Places'
    BY <1>1, <1>3, <1>4 DEF CallsInv, Places
<1>8. InOrder'
    BY <1>1, <1>3, <1>4 DEF CallsInv, InOrder, Before
<1> QED  BY <1>6, <1>7, <1>8 DEF CallsInv

LEMMA CallsStep ==
    ASSUME TypeInv, CallsInv, [NextSets]_<<vars, controls>>
    PROVE  CallsInv'
<1>1. ASSUME UNCHANGED controls, listening => listening' PROVE CallsInv'
    BY <1>1 DEF CallsInv, CallTypes, Places, InOrder, Waiting, Executed, controls
<1>2. Poll \/ Apply \/ UNCHANGED vars => (listening => listening')
    BY DEF Poll, Send, DeviceAnswers, Answered, Unmatched, TimesOut, Listen, Apply, vars
<1>3. \A s \in Setbacks : ChangeActive(s) \/ ChangePoint(s) => (listening => listening')
    BY DEF ChangeActive, ChangePoint, Tell
<1>4. CASE Confirm \/ GiveUp
    <2>1. holder' = NoCall
          /\ UNCHANGED <<vars, sets, queue, lockers, written, effect, reordered>>
        BY <1>4 DEF Confirm, GiveUp, Ends
    <2> QED  BY <2>1 DEF CallsInv, CallTypes, Places, InOrder, Waiting, Executed, vars
<1> QED  BY <1>1, <1>2, <1>3, <1>4, SetNowCalls, SetLatestCalls, PopCalls, WriteCalls,
            ExecuteCalls DEF NextSets, ApplyDispatched

LEMMA CallsInit == InitSets => Init /\ CallsInv
<1> SUFFICES ASSUME InitSets PROVE CallsInv
    BY DEF InitSets
<1>1. /\ sets = <<>> /\ queue = <<>> /\ lockers = <<>> /\ holder = NoCall
      /\ written = <<>> /\ effect = <<>> /\ reordered = {}
    BY DEF InitSets
<1>2. CallTypes
    BY <1>1 DEF CallTypes
<1>3. \A q : q = <<>> => DOMAIN q = {} /\ ToSet(q) = {} /\ IsInjective(q) /\ Increasing(q)
    BY DEF ToSet, IsInjective, Increasing
<1>4. ToSet(queue) = {} /\ ToSet(lockers) = {} /\ ToSet(written) = {} /\ Executed = {}
      /\ IsInjective(queue) /\ IsInjective(lockers) /\ IsInjective(written)
      /\ Increasing(queue) /\ Increasing(lockers) /\ Increasing(written)
    BY <1>1, <1>3 DEF Executed
<1>5. Places
    BY <1>1, <1>4 DEF Places
<1>6. InOrder
    BY <1>4 DEF InOrder, Before
<1> QED  BY <1>2, <1>5, <1>6 DEF CallsInv

\* What the user's calls do to device, line and client, the device or the session may do
\* without them.
LEMMA SetsStep ==
    ASSUME TypeInv, CallsInv, [NextSets]_<<vars, controls>>
    PROVE  [Next]_vars
<1>1. Poll => Next
    BY DEF Poll, Next
<1>2. \A s \in Setbacks : ChangeActive(s) \/ ChangePoint(s) => Next
    BY DEF Next
<1>3. ApplyDispatched => Next
    BY DEF ApplyDispatched, Next
<1>4. \A setback : SetNow(setback) => UNCHANGED vars
    BY DEF SetNow
<1>5. \A setback, kind : SetLatest(setback, kind) => UNCHANGED vars
    BY DEF SetLatest
<1>6. Pop \/ Write \/ Confirm \/ GiveUp => UNCHANGED vars
    BY DEF Pop, Write, Confirm, GiveUp, Ends
<1>7. Execute => Next
    BY <1>2, ExecuteEffect
<1> QED  BY <1>1, <1>2, <1>3, <1>4, <1>5, <1>6, <1>7 DEF NextSets

\* Values that a call gave stay below what the device has, and the client hears of them.
LEMMA EffectsStep ==
    ASSUME TypeInv, CaughtUp, CallsInv, Effects, [NextSets]_<<vars, controls>>
    PROVE  Effects'
<1>1. /\ [Next]_vars /\ TypeInv' /\ CallsInv'
    BY SetsStep, TypeStep, CallsStep
<1>2. /\ wire \in Seq(Messages) /\ point \in [Setbacks -> 0 .. MaxMoves]
      /\ None \notin Value /\ CURRENT \notin Setbacks
      /\ effect \in Seq(Value \cup {None}) /\ DOMAIN effect = DOMAIN sets
      /\ Executed # {} => listening
    <2>1. effect \in Seq(Value \cup {None}) /\ Len(effect) = Len(sets) /\ sets \in Seq(Updates)
        BY DEF CallsInv, CallTypes
    <2>2. Executed # {} => sets # <<>>
        BY DEF Executed
    <2>3. Executed # {} => listening
        BY <2>2 DEF CallsInv, CallTypes
    <2>4. DOMAIN effect = DOMAIN sets
        BY <2>1
    <2>5. wire \in Seq(Messages) /\ point \in [Setbacks -> 0 .. MaxMoves]
        BY DEF TypeInv, TypeOK
    <2> QED  BY <2>1, <2>3, <2>4, <2>5, ValueAssumption, SetbackNames
<1>3. \A u \in Executed : effect[u] \in Value /\ effect[u][1] \in Setbacks
                          /\ effect[u][2] \in Nat /\ effect[u] = <<effect[u][1], effect[u][2]>>
    <2> SUFFICES ASSUME NEW u \in Executed
                 PROVE  /\ effect[u] \in Value /\ effect[u][1] \in Setbacks
                        /\ effect[u][2] \in Nat /\ effect[u] = <<effect[u][1], effect[u][2]>>
        OBVIOUS
    <2>1. effect[u] \in Value
        BY <1>2 DEF Executed
    <2> QED  BY <2>1, Numbers DEF Value
<1>4. \A s \in Setbacks : point[s] \in Nat /\ point'[s] \in Nat /\ point[s] <= point'[s]
    <2>1. point' \in [Setbacks -> 0 .. MaxMoves]
        BY <1>1 DEF TypeInv, TypeOK
    <2>2. \A s \in Setbacks : point[s] \in Nat /\ point'[s] \in Nat
        BY <1>2, <2>1, Numbers
    <2>3. Send \/ DeviceAnswers \/ Answered \/ Unmatched \/ TimesOut \/ Listen \/ Apply
            \/ UNCHANGED vars \/ (\E s \in Setbacks : ChangeActive(s)) => point' = point
        BY DEF Send, DeviceAnswers, Answered, Unmatched, TimesOut, Listen, Apply, ChangeActive,
               vars, device
    <2>4. ASSUME NEW s \in Setbacks, ChangePoint(s), NEW z \in Setbacks
          PROVE  point[z] <= point'[z]
        <3>1. point' = [point EXCEPT ![s] = point[s] + 1]
            BY <2>4 DEF ChangePoint
        <3>2. point'[z] = IF z = s THEN point[s] + 1 ELSE point[z]
            BY <1>2, <3>1
        <3> QED  BY <2>2, <3>2
    <2> QED  BY <1>1, <2>2, <2>3, <2>4 DEF Next
\* A message about s that is read is shown, and one that is not stays on the line.
<1>5. ASSUME NEW s \in Setbacks, excuses' = {}, listening,
             Shown(s) # None \/ \E i \in DOMAIN wire : About(wire[i], s)
      PROVE  (Shown(s) # None \/ \E i \in DOMAIN wire : About(wire[i], s))'
    <2>1. PICK line : line = wire'
        OBVIOUS
    <2>2. PICK v : v = setpoints'
        OBVIOUS
    <2> SUFFICES get(v, s) # None \/ \E i \in DOMAIN line : About(line[i], s)
        BY <2>1, <2>2 DEF Shown, About, IsState
    <2>3. todo = <<>> /\ ~sent /\ excuses = {} /\ Heard
        BY <1>1, <1>5, ExcusesStay DEF TypeInv, PollInv, CaughtUp
    <2>4. CASE line = wire /\ v = setpoints
        BY <1>5, <2>4 DEF Shown
    <2>5. ASSUME NEW m \in Messages, line = Append(wire, m), v = setpoints
          PROVE  get(v, s) # None \/ \E i \in DOMAIN line : About(line[i], s)
        <3>1. /\ DOMAIN wire = 1 .. Len(wire) /\ DOMAIN line = 1 .. Len(wire) + 1
              /\ Len(wire) \in Nat /\ \A i \in 1 .. Len(wire) : line[i] = wire[i]
            BY <1>2, <2>5, AppendedTo
        <3> QED  BY <1>5, <2>5, <3>1 DEF Shown
    <2>6. CASE Apply
        <3>1. PICK m : m = Head(wire)
            OBVIOUS
        <3>2. /\ m.value # None \/ IsState(m)
              /\ About(m, s) => get(v, s) = m.value
              /\ get(v, s) # None \/ get(v, s) = Shown(s)
            <4>1. IF IsState(m)
                  THEN \A z : get(v, z) = Shown(z)
                  ELSE /\ m.value # None
                       /\ \E a \in Setbacks :
                            /\ m.value[1] = a
                            /\ \/ \A z : get(v, z) = IF z = a THEN m.value ELSE Shown(z)
                               \/ \A z : get(v, z) = IF z = CURRENT \/ z = a THEN m.value
                                                     ELSE Shown(z)
                BY <1>5, <2>2, <2>3, <2>6, <3>1, ApplyEffect
            <4> QED  BY <1>2, <4>1 DEF About
        <3>3. CASE Shown(s) # None \/ About(m, s)
            BY <3>2, <3>3 DEF About
        <3>4. CASE Shown(s) = None /\ ~About(m, s)
            <4>1. PICK i \in DOMAIN wire : About(wire[i], s)
                BY <1>5, <3>4
            <4>2. /\ wire # <<>> /\ line = Tail(wire)
                BY <2>1, <2>6 DEF Apply
            <4>3. /\ Len(wire) \in Nat /\ DOMAIN wire = 1 .. Len(wire) /\ m = wire[1]
                  /\ DOMAIN line = 1 .. Len(wire) - 1
                  /\ \A j \in 1 .. Len(wire) - 1 : line[j] = wire[j + 1]
                BY <1>2, <3>1, <4>2, WithoutHead
            <4>4. i # 1
                BY <3>4, <4>1, <4>3
            <4>5. i - 1 \in 1 .. Len(wire) - 1 /\ (i - 1) + 1 = i
                BY <4>3, <4>4
            <4> QED  BY <4>1, <4>3, <4>5
        <3> QED  BY <3>3, <3>4
    <2>7. CASE DeviceAnswers
        <3>1. Head(asked) \in Requests
            BY <2>7, WithoutHead DEF DeviceAnswers, TypeInv, TypeOK
        <3>2. PICK m \in AnswersTo(Head(asked)) : wire' = Append(wire, m)
            BY <2>7 DEF DeviceAnswers
        <3>3. m \in Messages /\ v = setpoints
            BY <2>2, <2>7, <3>1, AnswerTypes DEF TypeInv, DeviceAnswers
        <3> QED  BY <2>1, <2>5, <3>2, <3>3
    <2>8. ASSUME NEW m, Tell(m) PROVE get(v, s) # None \/ \E i \in DOMAIN line : About(line[i], s)
        <3>1. line = Append(wire, m) /\ v = setpoints
            BY <1>5, <2>1, <2>2, <2>8 DEF Tell
        <3>2. /\ DOMAIN wire = 1 .. Len(wire) /\ DOMAIN line = 1 .. Len(wire) + 1
              /\ Len(wire) \in Nat /\ \A i \in 1 .. Len(wire) : line[i] = wire[i]
            <4>1. PICK q \in Seq(Messages) : q = wire
                BY <1>2
            <4> QED  BY <3>1, <4>1
        <3> QED  BY <1>5, <3>1, <3>2 DEF Shown
    <2>9. Send \/ Answered \/ Unmatched \/ TimesOut \/ Listen => FALSE
        BY <1>5, <2>3 DEF Send, Answered, Unmatched, TimesOut, Listen
    <2>10. UNCHANGED vars => line = wire /\ v = setpoints
        BY <2>1, <2>2 DEF vars
    <2>11. \A z \in Setbacks : ChangeActive(z) \/ ChangePoint(z) => \E m : Tell(m)
        BY DEF ChangeActive, ChangePoint
    <2> QED  BY <1>1, <2>4, <2>6, <2>7, <2>8, <2>9, <2>10, <2>11 DEF Next
<1>6. ASSUME Executed' = Executed, \A u \in Executed : effect'[u] = effect[u],
             reordered' = {} => reordered = {}
      PROVE  Effects'
    <2>1. \A u \in Executed : effect'[u][2] <= point'[effect'[u][1]]
        <3> SUFFICES ASSUME NEW u \in Executed
                     PROVE  effect[u][2] <= point'[effect[u][1]]
            BY <1>6
        <3>1. PICK n, x, y : n = effect[u][2] /\ x = point[effect[u][1]]
                             /\ y = point'[effect[u][1]]
            OBVIOUS
        <3>2. n \in Nat /\ x \in Nat /\ y \in Nat /\ n <= x /\ x <= y
            BY <1>3, <1>4, <3>1 DEF Effects
        <3> QED  BY <3>1, <3>2
    <2>2. reordered' = {} =>
            \A u, v \in Executed :
                u < v /\ effect'[u][1] = effect'[v][1] => effect'[u][2] < effect'[v][2]
        BY <1>6 DEF Effects
    <2>3. ASSUME excuses' = {}, NEW u \in Executed
          PROVE  (\/ Shown(effect[u][1]) # None
                  \/ \E i \in DOMAIN wire : About(wire[i], effect[u][1]))'
        <3>1. PICK s \in Setbacks : s = effect[u][1]
            BY <1>3
        <3>2. listening /\ excuses = {}
            BY <1>1, <1>2, <2>3, ExcusesStay
        <3>3. Shown(s) # None \/ \E i \in DOMAIN wire : About(wire[i], s)
            BY <3>1, <3>2 DEF Effects
        <3>4. (Shown(s) # None \/ \E i \in DOMAIN wire : About(wire[i], s))'
            BY <1>5, <2>3, <3>2, <3>3
        <3>5. s = effect'[u][1]
            BY <1>6, <3>1
        <3> QED  BY <3>4, <3>5
    <2> QED  BY <1>6, <2>1, <2>2, <2>3 DEF Effects
<1>7. CASE Execute
    <2>1. PICK u \in ToSet(written), s \in Setbacks :
                /\ ChangePoint(s) /\ u = Head(written) /\ written' = Tail(written)
                /\ effect' = [effect EXCEPT ![u] = <<s, point'[s]>>]
                /\ point'[s] = point[s] + 1 /\ <<s, point'[s]>> \in Value
                /\ UNCHANGED <<sets, queue, lockers, holder, reordered>>
        BY <1>7, ExecuteEffect
    <2>2. PICK y \in Nat : y = point'[s]
        BY <1>4
    <2>3. /\ effect'[u] = <<s, y>> /\ Executed' = Executed \cup {u} /\ u \notin Executed
          /\ \A v \in Executed : effect'[v] = effect[v]
        BY <2>1, <2>2, ExecutedMore DEF Executed
    <2>4. \A v \in Executed : effect[v][2] <= point[effect[v][1]]
        BY DEF Effects
    <2>5. \A v \in Executed : effect[v][2] <= point'[effect[v][1]]
        <3> SUFFICES ASSUME NEW v \in Executed
                     PROVE  effect[v][2] <= point'[effect[v][1]]
            OBVIOUS
        <3>1. PICK n, x, z : n = effect[v][2] /\ x = point[effect[v][1]]
                             /\ z = point'[effect[v][1]]
            OBVIOUS
        <3>2. n \in Nat /\ x \in Nat /\ z \in Nat /\ n <= x /\ x <= z
            BY <1>3, <1>4, <2>4, <3>1
        <3> QED  BY <3>1, <3>2
    <2>6. \A v \in Executed' : effect'[v][2] <= point'[effect'[v][1]]
        <3>1. effect'[u][2] <= point'[effect'[u][1]]
            BY <2>2, <2>3
        <3> QED  BY <2>3, <2>5, <3>1
    <2>7. ASSUME reordered' = {}, NEW v \in Executed', NEW w \in Executed', v < w,
                 effect'[v][1] = effect'[w][1]
          PROVE  effect'[v][2] < effect'[w][2]
        <3>1. reordered = {} /\ \A z \in Executed : z < u
            BY <2>1, <2>7 DEF CallsInv, InOrder, Before
        <3>2. \A z \in Executed' : z \in Nat
            BY <1>1 DEF Executed, CallsInv, CallTypes
        <3>3. v \in Executed
            BY <2>3, <2>7, <3>1, <3>2
        <3>4. CASE w \in Executed
            BY <2>3, <2>7, <3>1, <3>3, <3>4 DEF Effects
        <3>5. CASE w = u
            <4>1. effect[v][1] = s
                BY <2>3, <2>7, <3>3, <3>5
            <4>2. effect[v][2] <= point[s] /\ effect[v][2] \in Nat /\ point[s] \in Nat
                BY <1>3, <1>4, <2>4, <3>3, <4>1
            <4>3. effect[v][2] < y
                BY <2>1, <2>2, <4>2
            <4> QED  BY <2>3, <3>3, <3>5, <4>3
        <3> QED  BY <2>3, <3>4, <3>5
    <2>8. ASSUME excuses' = {}, NEW v \in Executed'
          PROVE  (\/ Shown(effect[v][1]) # None
                  \/ \E i \in DOMAIN wire : About(wire[i], effect[v][1]))'
        <3>1. CASE v \in Executed
            <4>1. PICK z \in Setbacks : z = effect[v][1]
                BY <1>3, <3>1
            <4>2. listening /\ excuses = {}
                BY <1>1, <1>2, <2>8, <3>1, ExcusesStay
            <4>3. Shown(z) # None \/ \E i \in DOMAIN wire : About(wire[i], z)
                BY <3>1, <4>1, <4>2 DEF Effects
            <4>4. (Shown(z) # None \/ \E i \in DOMAIN wire : About(wire[i], z))'
                BY <1>5, <2>8, <4>2, <4>3
            <4>5. z = effect'[v][1]
                BY <2>3, <3>1, <4>1
            <4> QED  BY <4>4, <4>5
        <3>2. CASE v = u
            <4>1. PICK label \in {s, CURRENT} :
                    Tell([SetpointMessage(None, label, s) EXCEPT !.value = <<s, point'[s]>>])
                BY <2>1 DEF ChangePoint
            <4>2. PICK m : m = [SetpointMessage(None, label, s) EXCEPT !.value = <<s, point'[s]>>]
                OBVIOUS
            <4>3. m = [answers |-> None, method |-> "HEAT_SETPOINT", setback |-> label,
                       value |-> <<s, y>>]
                BY <2>2, <4>2 DEF SetpointMessage
            <4>4. PICK line : line = wire'
                OBVIOUS
            <4>5. line = Append(wire, m)
                BY <2>8, <4>1, <4>2, <4>4 DEF Tell
            <4>6. About(m, s)
                BY <4>3 DEF About, IsState
            <4>7. Len(wire) + 1 \in DOMAIN line /\ line[Len(wire) + 1] = m
                BY <1>2, <4>5
            <4>8. \E i \in DOMAIN line : About(line[i], s)
                BY <4>6, <4>7
            <4>9. s = effect'[v][1]
                BY <2>3, <3>2
            <4> QED  BY <4>4, <4>8, <4>9 DEF About, IsState
        <3> QED  BY <2>3, <3>1, <3>2
    <2> QED  BY <2>6, <2>7, <2>8 DEF Effects
<1>8. UNCHANGED controls \/ Pop \/ Write \/ Confirm \/ GiveUp
            => UNCHANGED <<sets, effect, reordered>>
    BY DEF controls, Pop, Write, Confirm, GiveUp, Ends
<1>9. CASE UNCHANGED <<sets, effect, reordered>>
    <2>1. Executed' = Executed
        BY <1>9 DEF Executed
    <2> QED  BY <1>6, <1>9, <2>1
<1>10. ASSUME NEW call \in Updates, sets' = Append(sets, call), effect' = Append(effect, None),
              reordered' = {} => reordered = {}
       PROVE  Effects'
    <2>1. Executed' = Executed
        BY <1>10, NewWaits DEF CallsInv
    <2>2. \A u \in Executed : effect'[u] = effect[u]
        BY <1>10, NewCall DEF CallsInv, Executed
    <2> QED  BY <1>6, <1>10, <2>1, <2>2
<1>11. ASSUME NEW setback \in 0 .. CURRENT,
              \/ SetNow(setback)
              \/ \E kind \in {"post", "confirm"} : SetLatest(setback, kind)
       PROVE  Effects'
    <2>1. \A kind \in {"now", "post", "confirm"} : Update(kind, setback) \in Updates
        BY DEF Update, Updates
    <2>2. /\ \E call \in Updates : sets' = Append(sets, call)
          /\ effect' = Append(effect, None)
          /\ reordered' = {} => reordered = {}
        BY <1>11, <2>1 DEF SetNow, SetLatest
    <2> QED  BY <1>10, <2>2
<1> QED  BY <1>7, <1>8, <1>9, <1>11 DEF NextSets, ApplyDispatched

SetsInv == TypeInv /\ CaughtUp /\ CallsInv /\ Effects

LEMMA SetsInit == InitSets => SetsInv
<1> SUFFICES ASSUME InitSets PROVE SetsInv
    OBVIOUS
<1>1. Init /\ CallsInv
    BY CallsInit
<1>2. Executed = {}
    BY DEF InitSets, Executed
<1>3. Effects
    BY <1>2 DEF Effects
<1> QED  BY <1>1, <1>3, TypeInit, CaughtUpInit DEF SetsInv

LEMMA SetsNext == SetsInv /\ [NextSets]_<<vars, controls>> => SetsInv'
<1> SUFFICES ASSUME SetsInv, [NextSets]_<<vars, controls>> PROVE SetsInv'
    OBVIOUS
<1>1. TypeInv /\ CaughtUp /\ CallsInv /\ Effects
    BY DEF SetsInv
<1>2. [Next]_vars
    BY <1>1, SetsStep
<1>3. TypeInv' /\ CaughtUp'
    BY <1>1, <1>2, TypeStep, CaughtUpStep
<1>4. CallsInv'
    BY <1>1, CallsStep
<1>5. Effects'
    BY <1>1, EffectsStep
<1> QED  BY <1>3, <1>4, <1>5 DEF SetsInv

LEMMA SetsAlways == SpecSets => []SetsInv
BY SetsInit, SetsNext, PTL DEF SpecSets

LEMMA JoinedOnce ==
    ASSUME NEW p \in Seq(Nat), NEW q \in Seq(Nat), NEW joined, Joins(joined, p, q)
    PROVE  /\ joined \in Seq(Nat) /\ ToSet(joined) = ToSet(p) \cup ToSet(q)
           /\ IsInjective(p) /\ IsInjective(q) /\ ToSet(p) \cap ToSet(q) = {}
                => IsInjective(joined)
<1>1. PICK m \in Nat, n \in Nat : m = Len(p) /\ n = Len(q)
    OBVIOUS
<1>2. /\ joined \in Seq(Nat) /\ DOMAIN p = 1 .. m /\ DOMAIN q = 1 .. n
      /\ DOMAIN joined = 1 .. m + n
      /\ \A i \in 1 .. m : joined[i] = p[i]
      /\ \A i \in 1 .. n : joined[m + i] = q[i]
    BY <1>1, Joined
<1>3. ASSUME NEW i \in 1 .. m + n, i \notin 1 .. m
      PROVE  i - m \in 1 .. n /\ joined[i] = q[i - m]
    <2>1. i - m \in 1 .. n /\ m + (i - m) = i
        BY <1>3
    <2> QED  BY <1>2, <2>1
<1>4. \A i \in 1 .. m : i \in 1 .. m + n
    OBVIOUS
<1>5. \A i \in 1 .. n : m + i \in 1 .. m + n
    OBVIOUS
<1>6. ASSUME NEW u \in ToSet(joined) PROVE u \in ToSet(p) \cup ToSet(q)
    <2>1. PICK i \in 1 .. m + n : joined[i] = u
        BY <1>2 DEF ToSet
    <2> QED  BY <1>2, <1>3, <2>1 DEF ToSet
<1>7. ToSet(joined) = ToSet(p) \cup ToSet(q)
    <2>1. ToSet(p) \subseteq ToSet(joined)
        BY <1>2, <1>4 DEF ToSet
    <2>2. ToSet(q) \subseteq ToSet(joined)
        BY <1>2, <1>5 DEF ToSet
    <2> QED  BY <1>6, <2>1, <2>2
<1>8. ASSUME IsInjective(p), IsInjective(q), ToSet(p) \cap ToSet(q) = {}
      PROVE  IsInjective(joined)
    <2> SUFFICES ASSUME NEW i \in 1 .. m + n, NEW j \in 1 .. m + n, joined[i] = joined[j]
                 PROVE  i = j
        BY <1>2 DEF IsInjective
    <2>1. \A k \in 1 .. m : p[k] \in ToSet(p)
        BY <1>2 DEF ToSet
    <2>2. \A k \in 1 .. n : q[k] \in ToSet(q)
        BY <1>2 DEF ToSet
    <2>3. i \in 1 .. m <=> j \in 1 .. m
        BY <1>2, <1>3, <1>8, <2>1, <2>2
    <2>4. CASE i \in 1 .. m
        BY <1>2, <1>8, <2>3, <2>4 DEF IsInjective
    <2>5. CASE i \notin 1 .. m
        <3>1. PICK k \in 1 .. n, l \in 1 .. n :
                    k = i - m /\ l = j - m /\ joined[i] = q[k] /\ joined[j] = q[l]
            BY <1>3, <2>3, <2>5
        <3>2. k = l
            BY <1>2, <1>8, <3>1 DEF IsInjective
        <3> QED  BY <3>1, <3>2
    <2> QED  BY <2>4, <2>5
<1> QED  BY <1>2, <1>7, <1>8

LEMMA CallsAreOK == CallsInv => ControlsOK
<1> SUFFICES ASSUME CallsInv PROVE ControlsOK
    OBVIOUS
<1>1. CallTypes /\ Places
    BY DEF CallsInv
<1>2. queue \in Seq(Nat) /\ lockers \in Seq(Nat) /\ written \in Seq(Nat)
    BY <1>1 DEF CallTypes
<1>3. PICK some : Joins(some, queue, lockers)
    BY DEF Joins
<1>4. some \in Seq(Nat) /\ ToSet(some) = ToSet(queue) \cup ToSet(lockers) /\ IsInjective(some)
    BY <1>1, <1>2, <1>3, JoinedOnce DEF Places
<1>5. PICK all : Joins(all, some, written)
    BY DEF Joins
<1>6. ToSet(all) = ToSet(some) \cup ToSet(written)
    <2>1. some \in Seq(Nat)
        BY <1>4
    <2> QED  BY <1>2, <1>5, <2>1, JoinedOnce
<1>7. some = queue \o lockers /\ all = queue \o lockers \o written
    BY <1>3, <1>5 DEF Joins
<1>8. \A u \in ToSet(all) : effect[u] = None
    BY <1>1, <1>4, <1>6 DEF Places, Waiting
<1>9. ToSet(effect) \subseteq Value \cup {None}
    BY <1>1 DEF CallTypes, ToSet
<1>10. /\ sets \in Seq([kind : {"now", "post", "confirm"}, setback : 0 .. CURRENT])
       /\ Len(effect) = Len(sets) /\ reordered \subseteq {"overtook", "aliased"}
    BY <1>1 DEF CallTypes, Updates
<1>11. /\ IsInjective(written) /\ \A u \in ToSet(queue) : sets[u].kind # "now"
       /\ holder # NoCall => sets[holder].kind # "post" /\ holder \notin ToSet(lockers)
    BY <1>1 DEF Places
<1> QED  BY <1>4, <1>7, <1>8, <1>9, <1>10, <1>11 DEF ControlsOK

LEMMA LastIsShown == SetsInv => LastSetIsShown
<1> SUFFICES ASSUME SetsInv, Quiet, reordered = {}, NEW u \in DOMAIN sets, effect[u] # None
             PROVE  LET s == effect[u][1]
                    IN  /\ get(setpoints, s) # None /\ get(setpoints, s)[2] >= effect[u][2]
                        /\ \A v \in u + 1 .. Len(sets) :
                            effect[v] # None /\ effect[v][1] = s => effect[v][2] > effect[u][2]
    BY DEF LastSetIsShown
<1>1. TypeInv /\ CaughtUp /\ CallsInv /\ Effects
    BY DEF SetsInv
<1>2. InStep /\ wire = <<>> /\ excuses = {}
    BY DEF Quiet, InStep
<1>3. SlotsAreCurrent
    BY <1>1, CaughtUpShows
<1>4. /\ sets \in Seq(Updates) /\ effect \in Seq(Value \cup {None}) /\ Len(effect) = Len(sets)
    BY <1>1 DEF CallsInv, CallTypes
<1>5. u \in Executed /\ effect[u] \in Value /\ DOMAIN sets = 1 .. Len(sets) /\ Len(sets) \in Nat
    BY <1>4 DEF Executed
<1>6. PICK s \in Setbacks, n \in Nat : s = effect[u][1] /\ n = effect[u][2]
    BY <1>5, Numbers DEF Value
<1>7. Shown(s) # None
    <2>1. Shown(s) # None \/ \E i \in DOMAIN wire : About(wire[i], s)
        BY <1>1, <1>2, <1>5, <1>6 DEF Effects
    <2> QED  BY <1>2, <2>1
<1>8. Shown(s) = <<s, point[s]>>
    BY <1>2, <1>3, <1>7 DEF SlotsAreCurrent, Shown
<1>9. n <= point[s] /\ point[s] \in Nat
    BY <1>1, <1>5, <1>6, Numbers DEF Effects, TypeInv, TypeOK
<1>10. get(setpoints, s) # None /\ get(setpoints, s)[2] >= n
    BY <1>7, <1>8, <1>9 DEF Shown
<1>11. ASSUME NEW v \in u + 1 .. Len(sets), effect[v] # None, effect[v][1] = s
       PROVE  effect[v][2] > n
    <2>1. v \in DOMAIN sets /\ u < v
        BY <1>5
    <2>2. v \in Executed /\ effect[v] \in Value
        BY <1>4, <1>11, <2>1 DEF Executed
    <2>3. effect[u][2] < effect[v][2]
        BY <1>1, <1>5, <1>6, <1>11, <2>1, <2>2 DEF Effects
    <2>4. effect[v][2] \in Nat
        BY <2>2, Numbers DEF Value
    <2> QED  BY <1>6, <2>3, <2>4
<1> QED  BY <1>6, <1>10, <1>11

\* Setting setpoints, at once or as latest values, does nothing to device, line and client
\* that the device could not do alone: what holds of Setpoints holds with a user
\* (client.py:924-988).
THEOREM SetsAreMoves == SpecSets => Spec
<1>1. InitSets => Init
    BY CallsInit
<1>2. SetsInv /\ [NextSets]_<<vars, controls>> => [Next]_vars
    BY SetsStep DEF SetsInv
<1> QED  BY <1>1, <1>2, SetsAlways, PTL DEF SpecSets, Spec

\* A call waits in one place at most, an update that replaces another leaves no copy of
\* it, and only a call that waits for a response holds the lock (session.py:433-463).
THEOREM CallsAreInOnePlace == SpecSets => []ControlsOK
<1>1. SetsInv => ControlsOK
    BY CallsAreOK DEF SetsInv
<1> QED  BY <1>1, SetsAlways, PTL

\* When everything has settled, the last of the user's calls for a setpoint won, and the
\* client shows what it set or a change after it (client.py:924-988, session.py:433-463).
THEOREM LastCallWins == SpecSets => []LastSetIsShown
BY LastIsShown, SetsAlways, PTL

=============================================================================

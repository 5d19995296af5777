----------------------------- MODULE Discovery -----------------------------
(***************************************************************************)
(* Tekmar482Client.discover(), client.py, called again and again by one    *)
(* task: reporting off if asked to, requests to the gateway, the inventory *)
(* walk, requests to every device it has found, and reporting on again.    *)
(*                                                                         *)
(* The inventory is one request and a stream of unmatched responses that   *)
(* end with address 0; the walk takes them out of the session's backlog,   *)
(* where the replies to an earlier walk may still be.  The line is first   *)
(* in, first out, and may lose messages; the session may go down and be    *)
(* opened again, on a new line.  Left out: the delays, the optional        *)
(* setback_enable update, and the bound of the backlog.                    *)
(***************************************************************************)
EXTENDS Integers, Sequences, FiniteSets, SequencesExt

CONSTANTS
    Addresses,      \* the addresses that a device can have
    GatewayMethods, \* the requests of get_gateway_info, in order
    DeviceMethods,  \* the requests of get_device_info, in order
    MaxRounds,      \* bounds the calls of discover()
    MaxFaults       \* bounds, together, the devices attached or removed, the
                    \* messages lost or sent unasked, the listings that end
                    \* with NA_16, the cancellations and the session failures

NA_16 == 65535

\* The gateway ends its listing with either of these addresses.
Terminators == {0, NA_16}

ASSUME AddressAssumption ==
    Addresses \subseteq Nat \ Terminators /\ IsFiniteSet(Addresses)
ASSUME MethodAssumption ==
    /\ GatewayMethods \in Seq(STRING) /\ DeviceMethods \in Seq(STRING)
    /\ IsInjective(GatewayMethods) /\ IsInjective(DeviceMethods)
    /\ ToSet(GatewayMethods) \cap ToSet(DeviceMethods) = {}
    /\ {"REPORTING_STATE", "DEVICE_INVENTORY"}
          \cap (ToSet(GatewayMethods) \cup ToSet(DeviceMethods)) = {}
ASSUME BoundAssumption == MaxRounds \in Nat /\ MaxFaults \in Nat

VARIABLES
    attached,       \* the addresses of the devices behind the gateway
    reporting,      \* whether the gateway reports
    up,             \* the session is neither closed nor failed
    asked, wire,    \* requests and messages under way
    backlog,        \* the inventory replies in _message_backlog
    pc,             \* where discover() is
    todo,           \* the requests left to this phase; the first one waits
    waiting,        \*   for its response if waiting is TRUE
    expired,        \* the deadline of the call has passed
    manage_reporting, addresses, info,  \* the call's parameter and results
    next,           \* the device that it asks next
    returned,       \* the last call returned; it did not raise
    served,         \* history: what the gateway answered this walk with
    excuses,        \* history: why the result may differ from that
    rounds, faults

gateway == <<attached, reporting>>
line == <<up, asked, wire, backlog>>
result == <<addresses, info, next>>
bounds == <<rounds, faults>>
vars == <<gateway, line, pc, todo, waiting, expired, manage_reporting, result,
          returned, served, excuses, bounds>>

-----------------------------------------------------------------------------
(* Requests and messages *)

\* argument is an address, or the state to set.  A request and the response to
\* it differ in their direction only.
Message(service, method, argument) ==
    [service |-> service, method |-> method, argument |-> argument]

Request(method, argument) ==
    Message(IF method = "REPORTING_STATE" THEN "UPDATE" ELSE "REQUEST", method, argument)

ReportingState(enabled) == Request("REPORTING_STATE", IF enabled THEN 1 ELSE 0)
Inventory == Request("DEVICE_INVENTORY", 0)

\* ResponseMatch: the service, the method, and the address or the state.
Matches(r, m) == m.service = r.service /\ m.method = r.method /\ m.argument = r.argument

\* Mutant: the devices are asked for before the gateway.
InventoryFirst(manage) ==
    <<Inventory>> \o [i \in DOMAIN GatewayMethods |-> Request(GatewayMethods[i], 0)]

\* What discover() does before the walk.
GatewayRequests(manage) ==
    (IF manage THEN <<ReportingState(FALSE)>> ELSE <<>>)
        \o [i \in DOMAIN GatewayMethods |-> Request(GatewayMethods[i], 0)]
        \o <<Inventory>>

DeviceRequests(a) == [i \in DOMAIN DeviceMethods |-> Request(DeviceMethods[i], a)]

\* The replies to an inventory request: the devices in an order that only the
\* gateway knows, then an address that ends the listing.
Listing(end) ==
    LET ordered == SetToSeq(attached)
    IN  [i \in DOMAIN ordered |-> Request("DEVICE_INVENTORY", ordered[i])]
            \o <<Request("DEVICE_INVENTORY", end)>>

\* Mutant: the service is not looked at.
IsAnyInventory(m) == m.method = "DEVICE_INVENTORY"

\* What the walk asks for, and takes from the backlog.
IsInventory(m) == m.service = "REQUEST" /\ m.method = "DEVICE_INVENTORY"

-----------------------------------------------------------------------------
(* discover() *)

Init ==
    /\ attached \in SUBSET Addresses
    /\ reporting = TRUE /\ up = TRUE
    /\ asked = <<>> /\ wire = <<>> /\ backlog = <<>>
    /\ pc = "idle" /\ todo = <<>> /\ waiting = FALSE /\ expired = FALSE
    /\ manage_reporting = FALSE /\ addresses = <<>> /\ info = {} /\ next = 1
    /\ returned = FALSE /\ served = {} /\ excuses = {}
    /\ rounds = 0 /\ faults = 0

Discover(manage) ==
    /\ pc = "idle" /\ rounds < MaxRounds
    /\ rounds' = rounds + 1
    /\ pc' = "gateway" /\ todo' = GatewayRequests(manage) /\ waiting' = FALSE
    /\ expired' = FALSE /\ manage_reporting' = manage
    /\ addresses' = <<>> /\ info' = {} /\ next' = 1 /\ returned' = FALSE /\ served' = {}
    /\ excuses' = (excuses \cap {"silenced"}) \cup
         (IF \E i \in DOMAIN (asked \o wire \o backlog) :
                IsInventory((asked \o wire \o backlog)[i])
          THEN {"leftover"} ELSE {})
    /\ UNCHANGED <<gateway, line, faults>>

\* The inventory is requested without waiting for a response.
Send ==
    /\ up /\ todo # <<>> /\ ~waiting
    /\ asked' = Append(asked, Head(todo))
    /\ IF IsInventory(Head(todo))
       THEN pc' = "walk" /\ todo' = Tail(todo) /\ UNCHANGED waiting
       ELSE waiting' = TRUE /\ UNCHANGED <<pc, todo>>
    /\ UNCHANGED <<gateway, up, wire, backlog, expired, manage_reporting, result,
                   returned, served, excuses, bounds>>

\* Mutant: the newest reply is read first.
KeepFirst(m) == IF IsInventory(m) THEN <<m>> \o backlog ELSE backlog

Keep(m) == IF IsInventory(m) THEN Append(backlog, m) ELSE backlog

\* A matched message is what request_response() returns; an inventory reply
\* goes to the backlog, and so do others that nobody takes from there.
Deliver ==
    /\ wire # <<>>
    /\ wire' = Tail(wire)
    /\ LET m == Head(wire)
       IN  IF waiting /\ Matches(Head(todo), m)
           THEN /\ todo' = Tail(todo) /\ waiting' = FALSE
                /\ info' = IF pc = "devices"
                           THEN info \cup {<<Head(todo).argument, m.method, m.argument>>}
                           ELSE info
                /\ UNCHANGED backlog
           ELSE /\ backlog' = Keep(m)
                /\ UNCHANGED <<todo, waiting, info>>
    /\ UNCHANGED <<gateway, up, asked, pc, expired, manage_reporting, addresses,
                   next, returned, served, excuses, bounds>>

Expire ==
    /\ pc # "idle" /\ ~expired
    /\ expired' = TRUE
    /\ UNCHANGED <<gateway, line, pc, todo, waiting, manage_reporting, result,
                   returned, served, excuses, bounds>>

\* Requests have what remains of the deadline, set_reporting_state() has a
\* time-out of its own.  None goes into the result.
TimesOut ==
    /\ waiting
    /\ expired \/ Head(todo).method = "REPORTING_STATE"
    /\ todo' = Tail(todo) /\ waiting' = FALSE
    /\ UNCHANGED <<gateway, line, pc, expired, manage_reporting, result,
                   returned, served, excuses, bounds>>

\* Mutant: reporting is only enabled again after a success.
LeaveUnlessRaised(ok) ==
    /\ returned' = ok /\ waiting' = FALSE
    /\ pc' = IF manage_reporting /\ ok THEN "finally" ELSE "idle"
    /\ todo' = IF manage_reporting /\ ok THEN <<ReportingState(TRUE)>> ELSE <<>>

\* The finally clause, after a result or an exception.
Leave(ok) ==
    /\ returned' = ok /\ waiting' = FALSE
    /\ pc' = IF manage_reporting THEN "finally" ELSE "idle"
    /\ todo' = IF manage_reporting THEN <<ReportingState(TRUE)>> ELSE <<>>

\* An exception leaves the call.  In the finally clause it takes the place of
\* the result, and a command that has not been sent is not sent any more.
Propagate ==
    IF pc = "finally"
    THEN /\ returned' = FALSE /\ waiting' = FALSE /\ pc' = "idle" /\ todo' = <<>>
         /\ excuses' = IF todo # <<>> /\ ~waiting THEN excuses \cup {"silenced"} ELSE excuses
    ELSE Leave(FALSE) /\ UNCHANGED excuses

\* A request that is sent to a session that is down, or waits there, raises.
Raise ==
    /\ ~up /\ todo # <<>>
    /\ Propagate
    /\ UNCHANGED <<gateway, line, expired, manage_reporting, result, served, bounds>>

EndWalk == pc' = "devices" /\ UNCHANGED <<addresses, todo, waiting, returned>>

\* Mutant: the walk only ends with the last reply.
WalkWaits == FALSE

WalkExpired == expired

\* get_inventory_addresses(): one iteration of its loop.  With nothing to read,
\* a failed session raises and a closed one ends the walk.
Walk ==
    /\ pc = "walk"
    /\ \/ /\ WalkExpired
          /\ EndWalk /\ UNCHANGED backlog
       \/ /\ ~WalkExpired /\ backlog # <<>>
          /\ backlog' = Tail(backlog)
          /\ LET address == Head(backlog).argument
             IN  IF address \in Terminators THEN EndWalk
                 ELSE /\ addresses' = IF Contains(addresses, address) THEN addresses
                                      ELSE Append(addresses, address)
                      /\ UNCHANGED <<pc, todo, waiting, returned>>
       \/ /\ ~WalkExpired /\ backlog = <<>> /\ ~up
          /\ EndWalk \/ (Leave(FALSE) /\ UNCHANGED addresses)
          /\ UNCHANGED backlog
    /\ UNCHANGED <<gateway, up, asked, wire, expired, manage_reporting, info, next,
                   served, excuses, bounds>>

\* get_device_info() is called for one address after the other.
AskDevice ==
    /\ pc = "devices" /\ todo = <<>> /\ next <= Len(addresses)
    /\ todo' = DeviceRequests(addresses[next])
    /\ next' = next + 1
    /\ UNCHANGED <<gateway, line, pc, waiting, expired, manage_reporting, addresses,
                   info, returned, served, excuses, bounds>>

AllDevices ==
    /\ pc = "devices" /\ todo = <<>> /\ next > Len(addresses)
    /\ Leave(TRUE)
    /\ UNCHANGED <<gateway, line, expired, manage_reporting, result, served,
                   excuses, bounds>>

\* The task is cancelled, in the finally clause too.
Cancel ==
    /\ pc # "idle" /\ faults < MaxFaults
    /\ faults' = faults + 1
    /\ Propagate
    /\ UNCHANGED <<gateway, line, expired, manage_reporting, result, served, rounds>>

Return ==
    /\ pc = "finally" /\ todo = <<>>
    /\ pc' = "idle"
    /\ UNCHANGED <<gateway, line, todo, waiting, expired, manage_reporting, result,
                   returned, served, excuses, bounds>>

-----------------------------------------------------------------------------
(* The gateway and the line *)

\* A device that is not there any more does not answer.
Serve ==
    /\ asked # <<>>
    /\ asked' = Tail(asked)
    /\ LET r == Head(asked)
       IN  /\ reporting' = IF r.method = "REPORTING_STATE" THEN r.argument = 1 ELSE reporting
           /\ served' = IF IsInventory(r) THEN attached ELSE served
           /\ excuses' = IF r = ReportingState(TRUE)
                            /\ ~Contains(Tail(asked), ReportingState(FALSE))
                         THEN excuses \ {"silenced"} ELSE excuses
           /\ \/ /\ IsInventory(r)
                 /\ wire' = wire \o Listing(0)
                 /\ UNCHANGED faults
              \/ /\ IsInventory(r) /\ faults < MaxFaults
                 /\ wire' = wire \o Listing(NA_16)
                 /\ faults' = faults + 1
              \/ /\ ~IsInventory(r)
                 /\ wire' = IF r.method \in ToSet(DeviceMethods) /\ r.argument \notin attached
                            THEN wire ELSE Append(wire, r)
                 /\ UNCHANGED faults
    /\ UNCHANGED <<attached, up, backlog, pc, todo, waiting, expired, manage_reporting,
                   result, returned, rounds>>

Lose ==
    /\ faults < MaxFaults
    /\ faults' = faults + 1
    /\ \/ /\ asked # <<>>
          /\ asked' = Tail(asked) /\ UNCHANGED wire
          /\ excuses' = excuses \cup
               (IF Head(asked) = ReportingState(TRUE) THEN {"lost", "silenced"} ELSE {"lost"})
       \/ /\ \E i \in DOMAIN wire : wire' = RemoveAt(wire, i)
          /\ UNCHANGED asked
          /\ excuses' = excuses \cup {"lost"}
    /\ UNCHANGED <<gateway, up, backlog, pc, todo, waiting, expired, manage_reporting,
                   result, returned, served, rounds>>

\* The connection is lost or the session closed, with all that is under way.
Down ==
    /\ up /\ faults < MaxFaults
    /\ faults' = faults + 1
    /\ up' = FALSE /\ asked' = <<>> /\ wire' = <<>>
    /\ excuses' = excuses \cup
         (IF Contains(asked, ReportingState(TRUE)) THEN {"lost", "silenced"} ELSE {"lost"})
    /\ UNCHANGED <<gateway, backlog, pc, todo, waiting, expired, manage_reporting,
                   result, returned, served, rounds>>

\* Connecting takes long enough for a request that has failed to raise.
Reopen ==
    /\ ~up /\ ~waiting
    /\ up' = TRUE
    /\ UNCHANGED <<gateway, asked, wire, backlog, pc, todo, waiting, expired,
                   manage_reporting, result, returned, served, excuses, bounds>>

\* A message about the inventory that is not a reply to a request for it; with
\* the address that would end the walk if it were taken for one.
Announce ==
    /\ up /\ faults < MaxFaults
    /\ faults' = faults + 1
    /\ wire' = Append(wire, Message("UPDATE", "DEVICE_INVENTORY", 0))
    /\ UNCHANGED <<gateway, up, asked, backlog, pc, todo, waiting, expired,
                   manage_reporting, result, returned, served, excuses, rounds>>

ChangeTopology(a) ==
    /\ faults < MaxFaults
    /\ faults' = faults + 1
    /\ attached' = IF a \in attached THEN attached \ {a} ELSE attached \cup {a}
    /\ UNCHANGED <<reporting, line, pc, todo, waiting, expired, manage_reporting,
                   result, returned, served, excuses, rounds>>

Next ==
    \/ \E manage \in BOOLEAN : Discover(manage)
    \/ Send \/ Deliver \/ Expire \/ TimesOut \/ Walk
    \/ AskDevice \/ AllDevices \/ Raise \/ Cancel \/ Return
    \/ Serve \/ Lose \/ Announce \/ \E a \in Addresses : ChangeTopology(a)
    \/ Down \/ Reopen

Spec == Init /\ [][Next]_vars

\* The event loop runs what is ready and timers fire; the transaction lock and
\* the write buffer are free when a request is to be sent.  Nothing is asked of
\* the gateway or the line.
Fairness ==
    /\ WF_vars(Send) /\ WF_vars(Walk) /\ WF_vars(AskDevice)
    /\ WF_vars(AllDevices) /\ WF_vars(Raise) /\ WF_vars(Return) /\ WF_vars(Expire) /\ WF_vars(TimesOut)

FairSpec == Spec /\ Fairness

-----------------------------------------------------------------------------
(* Properties *)

Requests ==
    [service : {"REQUEST", "UPDATE"},
     method : {"REPORTING_STATE", "DEVICE_INVENTORY"}
                \cup ToSet(GatewayMethods) \cup ToSet(DeviceMethods),
     argument : Addresses \cup Terminators \cup {1}]

\* The types, and the phases of the call: a response is only waited for in
\* a phase that has requests, and the walk has none.
TypeOK ==
    /\ attached \subseteq Addresses /\ served \subseteq Addresses
    /\ {reporting, up, waiting, expired, manage_reporting, returned} \subseteq BOOLEAN
    /\ asked \in Seq(Requests) /\ wire \in Seq(Requests) /\ backlog \in Seq(Requests)
    /\ todo \in Seq(Requests) /\ addresses \in Seq(Addresses) /\ next \in Nat \ {0}
    /\ pc \in {"idle", "gateway", "walk", "devices", "finally"}
    /\ waiting => todo # <<>>
    /\ pc \in {"idle", "walk"} => todo = <<>>
    /\ pc = "gateway" => todo # <<>> /\ Last(todo) = Inventory
    /\ info \subseteq Addresses \X ToSet(DeviceMethods) \X (Addresses \cup Terminators \cup {1})
    /\ excuses \subseteq {"leftover", "lost", "silenced"}

\* "Discover gateway metadata and all visible attached devices": a call that
\* ended in time, lost no message and met no replies to an earlier walk returns
\* the devices that the gateway listed, each once and with all of its metadata,
\* which came from it, whatever answers to earlier requests and other messages
\* about the inventory still come in.
FindsAllDevices ==
    pc = "idle" /\ returned /\ ~expired /\ excuses \subseteq {"silenced"} =>
        /\ IsInjective(addresses)
        /\ ToSet(addresses) = served
        /\ \A a \in served, m \in ToSet(DeviceMethods) : <<a, m, a>> \in info

\* "Set manage_reporting=True to turn reporting off during discovery and back
\* on afterwards": when the call has ended and the gateway has done what it
\* was told it reports, whatever timed out, was cancelled or failed before the
\* finally clause.  What it cannot survive is "silenced": the command is sent to
\* a session that is down, is cancelled before it is sent, or is lost on the
\* line or with the connection.
ReportingRestored ==
    pc = "idle" /\ asked = <<>> /\ "silenced" \notin excuses => reporting

\* discover() with a time-out ends, though the gateway may stop answering and
\* the stream of inventory replies may have lost its end.
DiscoverEnds == pc # "idle" ~> pc = "idle"

=============================================================================

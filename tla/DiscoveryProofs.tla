--------------------------- MODULE DiscoveryProofs ---------------------------
(***************************************************************************)
(* For any addresses, requests, order of the gateway's listing and bounds: *)
(* the types, that discover() finds all the devices, and that it leaves    *)
(* the gateway reporting.                                                  *)
(*                                                                         *)
(* The walk is right because what the gateway has listed is, at any time,  *)
(* what has been found and what is in replies on the line or in the        *)
(* backlog, and the reply that ends the listing is the last one of them.   *)
(* Reporting comes back because a command on the line that turns it off is *)
(* followed by one that turns it on, unless the call is still to send      *)
(* that.                                                                   *)
(***************************************************************************)
EXTENDS Discovery, FiniteSetTheorems, TLAPS

-----------------------------------------------------------------------------
(* The types *)

\* The replies to an inventory request, and all other requests and messages.
Replies == [service : {"REQUEST"}, method : {"DEVICE_INVENTORY"},
            argument : Addresses \cup Terminators]
Others == {r \in Requests : ~IsInventory(r)}
DeviceQueries == {r \in Others : r.method \in ToSet(DeviceMethods) /\ r.argument \in Addresses}

\* What is left to each phase; the inventory is requested last.
Agenda ==
    /\ pc \in {"idle", "walk"} => todo = <<>>
    /\ pc = "gateway" =>
        /\ todo # <<>> /\ todo[Len(todo)] = Inventory
        /\ \A i \in DOMAIN todo : i # Len(todo) => todo[i] \in Others
    /\ pc = "devices" => todo \in Seq(DeviceQueries)
    /\ pc = "finally" => todo \in Seq(Others)
    /\ waiting => todo # <<>> /\ Head(todo) \in Others

Typed ==
    /\ attached \subseteq Addresses /\ served \subseteq Addresses
    /\ {reporting, up, waiting, expired, manage_reporting, returned} \subseteq BOOLEAN
    /\ asked \in Seq(Requests) /\ wire \in Seq(Replies \cup Others) /\ backlog \in Seq(Replies)
    /\ todo \in Seq(Requests) /\ addresses \in Seq(Addresses) /\ next \in Nat \ {0}
    /\ pc \in {"idle", "gateway", "walk", "devices", "finally"}
    /\ info \subseteq Addresses \X ToSet(DeviceMethods) \X (Addresses \cup Terminators \cup {1})
    /\ excuses \subseteq {"leftover", "lost", "silenced"}
    /\ Agenda

LEMMA RequestParts ==
    ASSUME NEW m, NEW a
    PROVE  /\ Request(m, a).method = m /\ Request(m, a).argument = a
           /\ Request(m, a).service = (IF m = "REPORTING_STATE" THEN "UPDATE" ELSE "REQUEST")
           /\ (m = "DEVICE_INVENTORY" /\ a \in Addresses \cup Terminators =>
                 Request(m, a) \in Replies)
           /\ (m \in {"REPORTING_STATE", "DEVICE_INVENTORY"}
                       \cup ToSet(GatewayMethods) \cup ToSet(DeviceMethods)
               /\ a \in Addresses \cup Terminators \cup {1} => Request(m, a) \in Requests)
BY DEF Request, Message, Replies, Requests

LEMMA Ends ==
    /\ 0 \in Terminators /\ NA_16 \in Terminators
    /\ \A a \in Addresses : a \notin Terminators
BY AddressAssumption DEF Terminators

LEMMA Kinds ==
    /\ Inventory \in Replies /\ Inventory \in Requests /\ Replies \subseteq Requests
    /\ Others \subseteq Requests /\ DeviceQueries \subseteq Others
    /\ IsInventory(Inventory)
    /\ \A enabled : ReportingState(enabled) \in Others
                    /\ ReportingState(enabled).method = "REPORTING_STATE"
    /\ \A r \in Requests : r \in Others <=> ~IsInventory(r)
    /\ \A r \in Replies : IsInventory(r) /\ r.argument \in Addresses \cup Terminators
    /\ \A r \in Others : ~IsInventory(r)
<1>1. Inventory \in Replies /\ Inventory \in Requests
    BY RequestParts, Ends DEF Inventory
<1>2. Replies \subseteq Requests
    BY DEF Replies, Requests
<1>3. ASSUME NEW enabled
      PROVE  ReportingState(enabled) \in Others
             /\ ReportingState(enabled).method = "REPORTING_STATE"
    <2>1. /\ Request("REPORTING_STATE", 1) \in Requests
          /\ Request("REPORTING_STATE", 0) \in Requests
          /\ Request("REPORTING_STATE", 1).method = "REPORTING_STATE"
          /\ Request("REPORTING_STATE", 0).method = "REPORTING_STATE"
        BY RequestParts, Ends
    <2> QED  BY <2>1 DEF ReportingState, Others, IsInventory
<1>4. \A r \in Replies : IsInventory(r) /\ r.argument \in Addresses \cup Terminators
    BY DEF Replies, IsInventory
<1> QED  BY <1>1, <1>2, <1>3, <1>4 DEF Others, DeviceQueries

\* A message about the inventory that is not a reply is one of the others.
LEMMA AnnouncementIsOther == Message("UPDATE", "DEVICE_INVENTORY", 0) \in Others
BY Ends DEF Message, Requests, Others, IsInventory

LEMMA LargerSet ==
    ASSUME NEW S, NEW T, S \subseteq T, NEW s \in Seq(S)
    PROVE  s \in Seq(T)
OBVIOUS

LEMMA TailOfSeq ==
    ASSUME NEW S, NEW s \in Seq(S), s # <<>>
    PROVE  /\ Tail(s) \in Seq(S) /\ Head(s) \in S /\ Head(s) = s[1] /\ 1 \in DOMAIN s
           /\ Len(Tail(s)) = Len(s) - 1 /\ Len(s) \in Nat
           /\ \A i \in DOMAIN Tail(s) : /\ i \in Nat /\ i + 1 \in DOMAIN s /\ i + 1 # 1
                                        /\ Tail(s)[i] = s[i + 1]
           /\ \A i \in DOMAIN s : i # 1 => i - 1 \in DOMAIN Tail(s) /\ Tail(s)[i - 1] = s[i]
OBVIOUS

LEMMA AppendToSeq ==
    ASSUME NEW S, NEW s \in Seq(S), NEW r \in S
    PROVE  /\ Append(s, r) \in Seq(S)
           /\ Len(s) + 1 \in DOMAIN Append(s, r) /\ Append(s, r)[Len(s) + 1] = r
           /\ \A i \in DOMAIN s : i \in DOMAIN Append(s, r) /\ Append(s, r)[i] = s[i]
                                    /\ i \in Nat /\ i <= Len(s)
           /\ \A i \in DOMAIN Append(s, r) :
                i \in DOMAIN s \/ (i = Len(s) + 1 /\ Append(s, r)[i] = r)
OBVIOUS

LEMMA JoinedSeq ==
    ASSUME NEW S, NEW s \in Seq(S), NEW q \in Seq(S)
    PROVE  /\ s \o q \in Seq(S)
           /\ \A i \in DOMAIN s : i \in DOMAIN (s \o q) /\ (s \o q)[i] = s[i]
           /\ \A i \in DOMAIN q : Len(s) + i \in DOMAIN (s \o q) /\ (s \o q)[Len(s) + i] = q[i]
           /\ \A i \in DOMAIN (s \o q) :
                \/ i \in DOMAIN s /\ (s \o q)[i] = s[i]
                \/ i - Len(s) \in DOMAIN q /\ (s \o q)[i] = q[i - Len(s)] /\ i > Len(s)
OBVIOUS

\* The requests of a list of methods to one address.
LEMMA MethodsToRequests ==
    ASSUME NEW methods \in Seq(STRING), NEW S, NEW a,
           \A m \in ToSet(methods) : Request(m, a) \in S
    PROVE  /\ [i \in DOMAIN methods |-> Request(methods[i], a)] \in Seq(S)
           /\ Len([i \in DOMAIN methods |-> Request(methods[i], a)]) = Len(methods)
<1>1. DOMAIN methods = 1 .. Len(methods) /\ Len(methods) \in Nat
    OBVIOUS
<1>2. \A i \in 1 .. Len(methods) : Request(methods[i], a) \in S
    BY <1>1 DEF ToSet
<1> QED  BY <1>1, <1>2

LEMMA DeviceRequestsTyped ==
    ASSUME NEW a \in Addresses
    PROVE  /\ DeviceRequests(a) \in Seq(DeviceQueries)
           /\ \A m \in ToSet(DeviceMethods) :
                \E j \in DOMAIN DeviceRequests(a) : DeviceRequests(a)[j] = Request(m, a)
<1>1. DeviceMethods \in Seq(STRING) /\ "DEVICE_INVENTORY" \notin ToSet(DeviceMethods)
    BY MethodAssumption
<1>2. \A m \in ToSet(DeviceMethods) : Request(m, a) \in DeviceQueries
    BY <1>1, RequestParts DEF DeviceQueries, Others, IsInventory
<1>3. DeviceRequests(a) \in Seq(DeviceQueries)
    BY <1>1, <1>2, MethodsToRequests DEF DeviceRequests
<1>4. \A m \in ToSet(DeviceMethods) :
        \E j \in DOMAIN DeviceRequests(a) : DeviceRequests(a)[j] = Request(m, a)
    BY <1>1 DEF DeviceRequests, ToSet
<1> QED  BY <1>3, <1>4

LEMMA GatewayRequestsTyped ==
    ASSUME NEW manage
    PROVE  LET s == GatewayRequests(manage)
           IN  /\ s \in Seq(Requests) /\ s # <<>> /\ s[Len(s)] = Inventory
               /\ \A i \in DOMAIN s : i # Len(s) => s[i] \in Others
<1> DEFINE first == IF manage THEN <<ReportingState(FALSE)>> ELSE <<>>
           asks == [i \in DOMAIN GatewayMethods |-> Request(GatewayMethods[i], 0)]
<1>1. GatewayMethods \in Seq(STRING) /\ "DEVICE_INVENTORY" \notin ToSet(GatewayMethods)
    BY MethodAssumption
<1>2. \A m \in ToSet(GatewayMethods) : Request(m, 0) \in Others
    BY <1>1, RequestParts, Ends DEF Others, IsInventory
<1>3. asks \in Seq(Others)
    BY <1>1, <1>2, MethodsToRequests
<1>4. first \in Seq(Others)
    <2> DEFINE off == ReportingState(FALSE)
    <2>1. off \in Others
        BY Kinds
    <2> HIDE DEF off
    <2>2. <<off>> \in Seq(Others) /\ <<>> \in Seq(Others)
        BY <2>1
    <2>3. first = <<off>> \/ first = <<>>
        BY DEF off
    <2> QED  BY <2>2, <2>3
<1>5. GatewayRequests(manage) = first \o asks \o <<Inventory>>
    BY DEF GatewayRequests
<1> HIDE DEF first, asks
<1> DEFINE front == first \o asks
<1>6. front \in Seq(Others)
    BY <1>3, <1>4
<1>7. GatewayRequests(manage) = front \o <<Inventory>>
    BY <1>5
<1> HIDE DEF front
<1>8. front \in Seq(Requests) /\ Inventory \in Requests
    BY <1>6, Kinds, LargerSet
<1>9. LET s == front \o <<Inventory>>
      IN  /\ s \in Seq(Requests) /\ s # <<>> /\ s[Len(s)] = Inventory
          /\ \A i \in DOMAIN s : i # Len(s) => s[i] \in Others
    BY <1>6, <1>8
<1> QED  BY <1>7, <1>9

\* The gateway lists each of its devices, and ends with an address that is none.
LEMMA ListingTyped ==
    ASSUME attached \subseteq Addresses, NEW end \in Terminators
    PROVE  /\ Listing(end) \in Seq(Replies)
           /\ \A i, j \in DOMAIN Listing(end) : i < j => Listing(end)[i].argument \notin Terminators
           /\ \A a \in Addresses :
                a \in attached <=> \E i \in DOMAIN Listing(end) : Listing(end)[i].argument = a
<1> DEFINE n == Cardinality(attached)
           ordered == SetToSeq(attached)
           told == [i \in DOMAIN ordered |-> Request("DEVICE_INVENTORY", ordered[i])]
<1>1. IsFiniteSet(attached) /\ \A a \in attached : a \notin Terminators
    BY AddressAssumption, FS_Subset, Ends
<1>2. n \in Nat /\ ExistsBijection(1 .. n, attached)
    BY <1>1, FS_CardinalityType
<1>3. PICK f \in [1 .. n -> attached] : IsInjective(f)
    BY <1>2 DEF ExistsBijection, Bijection, Injection
<1>4. ordered \in [1 .. n -> attached] /\ IsInjective(ordered)
    BY <1>3 DEF SetToSeq
<1> HIDE DEF ordered
<1>5. ordered \in Surjection(1 .. n, attached)
    <2>1. ordered \in Injection(1 .. n, attached)
        BY <1>4 DEF Injection
    <2>2. IsFiniteSet(1 .. n) /\ Cardinality(1 .. n) = n
        BY <1>2, FS_Interval
    <2> HIDE DEF n
    <2>3. Cardinality(1 .. n) = Cardinality(attached)
        BY <2>2 DEF n
    <2> QED  BY <1>1, <2>1, <2>3, FS_Injection
<1>6. \A a \in attached : \E i \in 1 .. n : ordered[i] = a
    BY <1>5 DEF Surjection
<1> HIDE DEF n
<1>7. told \in Seq(Replies) /\ Len(told) = n /\ DOMAIN told = 1 .. n
      /\ \A i \in 1 .. n : told[i].argument = ordered[i]
    <2>1. DOMAIN ordered = 1 .. n /\ \A i \in 1 .. n : ordered[i] \in attached
        BY <1>4
    <2>2. \A i \in 1 .. n : Request("DEVICE_INVENTORY", ordered[i]) \in Replies
                            /\ Request("DEVICE_INVENTORY", ordered[i]).argument = ordered[i]
        BY <2>1, RequestParts
    <2> QED  BY <1>2, <2>1, <2>2
<1>8. Listing(end) = told \o <<Request("DEVICE_INVENTORY", end)>>
    BY DEF Listing, ordered
<1> HIDE DEF told
<1>9. /\ Listing(end) \in Seq(Replies) /\ DOMAIN Listing(end) = 1 .. (n + 1)
      /\ \A i \in 1 .. n : Listing(end)[i] = told[i]
      /\ Listing(end)[n + 1] = Request("DEVICE_INVENTORY", end)
    <2> DEFINE last == Request("DEVICE_INVENTORY", end)
    <2>1. last \in Replies
        BY RequestParts
    <2> HIDE DEF last
    <2>2. <<last>> \in Seq(Replies) /\ Len(<<last>>) = 1 /\ <<last>>[1] = last
        BY <2>1
    <2>3. told \o <<last>> \in Seq(Replies) /\ Len(told \o <<last>>) = n + 1
        BY <1>2, <1>7, <2>2
    <2>4. /\ \A i \in 1 .. n : (told \o <<last>>)[i] = told[i]
          /\ (told \o <<last>>)[n + 1] = last
        BY <1>2, <1>7, <2>2
    <2>5. DOMAIN (told \o <<last>>) = 1 .. (n + 1)
        BY <2>3
    <2> QED  BY <1>8, <2>3, <2>4, <2>5 DEF last
<1>10. \A i \in 1 .. n : Listing(end)[i].argument \in attached
    BY <1>4, <1>7, <1>9
<1>11. \A i, j \in DOMAIN Listing(end) : i < j => Listing(end)[i].argument \notin Terminators
    <2> SUFFICES ASSUME NEW i \in 1 .. (n + 1), NEW j \in 1 .. (n + 1), i < j
                 PROVE  Listing(end)[i].argument \notin Terminators
        BY <1>9
    <2>1. i \in 1 .. n
        BY <1>2
    <2> QED  BY <1>1, <1>10, <2>1
<1>12. ASSUME NEW a \in Addresses
       PROVE  a \in attached <=> \E i \in DOMAIN Listing(end) : Listing(end)[i].argument = a
    <2>1. CASE a \in attached
        <3>1. PICK i \in 1 .. n : ordered[i] = a
            BY <1>6, <2>1
        <3>2. Listing(end)[i].argument = a /\ i \in 1 .. (n + 1)
            BY <1>2, <1>7, <1>9, <3>1
        <3> QED  BY <1>9, <2>1, <3>2
    <2>2. CASE a \notin attached
        <3> SUFFICES ASSUME NEW i \in 1 .. (n + 1), Listing(end)[i].argument = a
                     PROVE  FALSE
            BY <1>9, <2>2
        <3>1. i \in 1 .. n \/ i = n + 1
            BY <1>2
        <3>2. CASE i \in 1 .. n
            BY <1>10, <2>2, <3>2
        <3>3. CASE i = n + 1
            BY <1>9, <3>3, Ends, RequestParts
        <3> QED  BY <3>1, <3>2, <3>3
    <2> QED  BY <2>1, <2>2
<1> QED  BY <1>9, <1>11, <1>12

\* The request that waits for its response is answered, or given up.
LEMMA AgendaGoesOn ==
    ASSUME Typed, waiting, todo' = Tail(todo), waiting' = FALSE, pc' = pc
    PROVE  Agenda' /\ todo' \in Seq(Requests)
<1>1. todo \in Seq(Requests) /\ todo # <<>> /\ Head(todo) \in Others /\ Agenda
    BY DEF Typed, Agenda
<1>2. /\ todo' \in Seq(Requests) /\ Head(todo) = todo[1] /\ Len(todo') = Len(todo) - 1
      /\ Len(todo) \in Nat
      /\ \A i \in DOMAIN todo' : i \in Nat /\ i + 1 \in DOMAIN todo /\ todo'[i] = todo[i + 1]
    BY <1>1, TailOfSeq
<1>3. pc \notin {"idle", "walk"}
    BY <1>1 DEF Agenda
<1>4. CASE pc = "gateway"
    <2>1. todo[Len(todo)] = Inventory /\ \A i \in DOMAIN todo : i # Len(todo) => todo[i] \in Others
        BY <1>1, <1>4 DEF Agenda
    <2>2. Inventory \notin Others
        BY Kinds
    <2>3. Len(todo) # 1
        BY <1>1, <1>2, <2>1, <2>2
    <2>4. Len(todo') # 0 /\ Len(todo') + 1 = Len(todo)
        BY <1>2, <2>3
    <2>5. todo' # <<>>
        BY <1>2, <2>4
    <2>6. Len(todo') \in DOMAIN todo'
        BY <1>2, <2>5
    <2>7. todo'[Len(todo')] = Inventory
        BY <1>2, <2>1, <2>4, <2>6
    <2>8. \A i \in DOMAIN todo' : i # Len(todo') => todo'[i] \in Others
        BY <1>2, <2>1, <2>4
    <2> QED  BY <1>2, <1>4, <2>5, <2>7, <2>8 DEF Agenda
<1>5. CASE pc = "devices"
    <2>1. todo' \in Seq(DeviceQueries)
        BY <1>1, <1>5, TailOfSeq DEF Agenda
    <2> QED  BY <1>2, <1>5, <2>1 DEF Agenda
<1>6. CASE pc = "finally"
    <2>1. todo' \in Seq(Others)
        BY <1>1, <1>6, TailOfSeq DEF Agenda
    <2> QED  BY <1>2, <1>6, <2>1 DEF Agenda
<1> QED  BY <1>1, <1>3, <1>4, <1>5, <1>6 DEF Typed

LEMMA InitTyped == Init => Typed
<1> SUFFICES ASSUME Init PROVE Typed
    OBVIOUS
<1>1. /\ attached \subseteq Addresses /\ served = {} /\ info = {} /\ excuses = {}
      /\ asked = <<>> /\ wire = <<>> /\ backlog = <<>> /\ todo = <<>> /\ addresses = <<>>
      /\ next = 1 /\ pc = "idle" /\ waiting = FALSE
    BY DEF Init
<1>2. {reporting, up, waiting, expired, manage_reporting, returned} \subseteq BOOLEAN
    BY DEF Init
<1>3. \A S : <<>> \in Seq(S)
    OBVIOUS
<1> QED  BY <1>1, <1>2, <1>3 DEF Typed, Agenda

LEMMA DiscoverTyped ==
    ASSUME Typed, NEW manage \in BOOLEAN, Discover(manage)
    PROVE  Typed'
<1>1. /\ pc' = "gateway" /\ todo' = GatewayRequests(manage) /\ waiting' = FALSE
      /\ addresses' = <<>> /\ info' = {} /\ next' = 1 /\ served' = {}
      /\ UNCHANGED <<attached, reporting, up, asked, wire, backlog>>
    BY DEF Discover, gateway, line
<1>2. {reporting, up, waiting, expired, manage_reporting, returned}' \subseteq BOOLEAN
    BY <1>1 DEF Discover, Typed
<1>3. Agenda' /\ todo' \in Seq(Requests)
    BY <1>1, GatewayRequestsTyped DEF Agenda
<1>4. excuses' \subseteq {"leftover", "lost", "silenced"}
    BY DEF Discover
<1> QED  BY <1>1, <1>2, <1>3, <1>4 DEF Typed

LEMMA SendTyped ==
    ASSUME Typed, Send
    PROVE  Typed'
<1>1. /\ todo \in Seq(Requests) /\ todo # <<>> /\ asked \in Seq(Requests) /\ Agenda
      /\ pc \in {"gateway", "devices", "finally"}
    BY DEF Typed, Send, Agenda
<1>2. /\ Head(todo) \in Requests /\ Head(todo) = todo[1] /\ Tail(todo) \in Seq(Requests)
      /\ Len(Tail(todo)) = Len(todo) - 1 /\ 1 \in DOMAIN todo
    BY <1>1, TailOfSeq
<1>3. asked' = Append(asked, Head(todo)) /\ asked' \in Seq(Requests)
    BY <1>1, <1>2, AppendToSeq DEF Send
<1>4. UNCHANGED <<attached, served, reporting, up, expired, manage_reporting, returned, wire,
                  backlog, addresses, next, info, excuses>>
    BY DEF Send, gateway, result
<1>5. CASE IsInventory(Head(todo))
    <2>1. pc' = "walk" /\ todo' = Tail(todo) /\ waiting' = waiting /\ ~waiting
        BY <1>5 DEF Send
    <2>2. Head(todo) \notin Others
        BY <1>5, Kinds
    <2>3. pc = "gateway"
        <3>1. pc = "devices" => Head(todo) \in Others
            <4>1. todo \in Seq(DeviceQueries) => Head(todo) \in DeviceQueries
                BY <1>1, TailOfSeq
            <4> QED  BY <1>1, <4>1, Kinds DEF Agenda
        <3>2. pc = "finally" => Head(todo) \in Others
            <4>1. todo \in Seq(Others) => Head(todo) \in Others
                BY <1>1, TailOfSeq
            <4> QED  BY <1>1, <4>1 DEF Agenda
        <3> QED  BY <1>1, <2>2, <3>1, <3>2
    <2>4. Len(todo) = 1
        BY <1>1, <1>2, <2>2, <2>3 DEF Agenda
    <2>5. todo' = <<>>
        BY <1>2, <2>1, <2>4
    <2>6. Agenda' /\ todo' \in Seq(Requests)
        BY <1>2, <2>1, <2>5 DEF Agenda
    <2>7. {reporting, up, waiting, expired, manage_reporting, returned}' \subseteq BOOLEAN
        BY <1>4, <2>1 DEF Typed
    <2> QED  BY <1>3, <1>4, <2>1, <2>6, <2>7 DEF Typed
<1>6. CASE ~IsInventory(Head(todo))
    <2>1. waiting' = TRUE /\ UNCHANGED <<pc, todo>>
        BY <1>6 DEF Send
    <2>2. Head(todo) \in Others
        BY <1>2, <1>6, Kinds
    <2>3. Agenda'
        BY <1>1, <2>1, <2>2 DEF Agenda
    <2>4. {reporting, up, waiting, expired, manage_reporting, returned}' \subseteq BOOLEAN
        BY <1>4, <2>1 DEF Typed
    <2> QED  BY <1>3, <1>4, <2>1, <2>3, <2>4 DEF Typed
<1> QED  BY <1>5, <1>6

LEMMA DeliverTyped ==
    ASSUME Typed, Deliver
    PROVE  Typed'
<1> DEFINE m == Head(wire)
<1>1. wire \in Seq(Replies \cup Others) /\ wire # <<>> /\ backlog \in Seq(Replies)
    BY DEF Typed, Deliver
<1>2. m \in Replies \cup Others /\ wire' \in Seq(Replies \cup Others)
    <2>1. wire' = Tail(wire)
        BY DEF Deliver
    <2> QED  BY <1>1, <2>1, TailOfSeq
<1>3. UNCHANGED <<attached, reporting, up, asked, pc, expired, manage_reporting, addresses, next,
                  returned, served, excuses>>
    BY DEF Deliver, gateway
<1>4. CASE waiting /\ Matches(Head(todo), m)
    <2>1. todo' = Tail(todo) /\ waiting' = FALSE /\ backlog' = backlog
          /\ info' = IF pc = "devices"
                     THEN info \cup {<<Head(todo).argument, m.method, m.argument>>} ELSE info
        BY <1>4 DEF Deliver
    <2>2. Agenda' /\ todo' \in Seq(Requests)
        BY <1>3, <1>4, <2>1, AgendaGoesOn
    <2>3. info' \subseteq Addresses \X ToSet(DeviceMethods) \X (Addresses \cup Terminators \cup {1})
        <3>1. CASE pc = "devices"
            <4>1. todo \in Seq(DeviceQueries) /\ todo # <<>>
                BY <1>4, <3>1 DEF Typed, Agenda
            <4>2. Head(todo) \in DeviceQueries
                BY <4>1, TailOfSeq
            <4>3. Head(todo).argument \in Addresses /\ Head(todo).method \in ToSet(DeviceMethods)
                BY <4>2 DEF DeviceQueries
            <4>4. m.method = Head(todo).method /\ m.argument = Head(todo).argument
                BY <1>4 DEF Matches
            <4> HIDE DEF m
            <4> QED  BY <2>1, <3>1, <4>3, <4>4 DEF Typed
        <3>2. CASE pc # "devices"
            BY <2>1, <3>2 DEF Typed
        <3> QED  BY <3>1, <3>2
    <2>4. {reporting, up, waiting, expired, manage_reporting, returned}' \subseteq BOOLEAN
        BY <1>3, <2>1 DEF Typed
    <2> QED  BY <1>2, <1>3, <2>1, <2>2, <2>3, <2>4 DEF Typed
<1>5. CASE ~(waiting /\ Matches(Head(todo), m))
    <2>1. backlog' = Keep(m) /\ UNCHANGED <<todo, waiting, info>>
        BY <1>5 DEF Deliver
    <2>2. backlog' \in Seq(Replies)
        <3>1. IsInventory(m) => m \in Replies
            BY <1>2, Kinds
        <3> HIDE DEF m
        <3> QED  BY <1>1, <2>1, <3>1, AppendToSeq DEF Keep
    <2>3. Agenda'
        BY <1>3, <2>1 DEF Agenda, Typed
    <2>4. {reporting, up, waiting, expired, manage_reporting, returned}' \subseteq BOOLEAN
        BY <1>3, <2>1 DEF Typed
    <2> QED  BY <1>2, <1>3, <2>1, <2>2, <2>3, <2>4 DEF Typed
<1> QED  BY <1>4, <1>5

LEMMA TimesOutTyped ==
    ASSUME Typed, TimesOut
    PROVE  Typed'
<1>1. /\ waiting /\ todo' = Tail(todo) /\ waiting' = FALSE
      /\ UNCHANGED <<attached, reporting, up, asked, wire, backlog, pc, expired, manage_reporting,
                     addresses, info, next, returned, served, excuses>>
    BY DEF TimesOut, gateway, line, result
<1>2. Agenda' /\ todo' \in Seq(Requests)
    BY <1>1, AgendaGoesOn
<1>3. {reporting, up, waiting, expired, manage_reporting, returned}' \subseteq BOOLEAN
    BY <1>1 DEF Typed
<1> QED  BY <1>1, <1>2, <1>3 DEF Typed

LEMMA AskDeviceTyped ==
    ASSUME Typed, AskDevice
    PROVE  Typed'
<1>1. /\ pc = "devices" /\ todo = <<>> /\ next <= Len(addresses)
      /\ todo' = DeviceRequests(addresses[next]) /\ next' = next + 1
      /\ UNCHANGED <<attached, reporting, up, asked, wire, backlog, pc, waiting, expired,
                     manage_reporting, addresses, info, returned, served, excuses>>
    BY DEF AskDevice, gateway, line
<1>2. addresses[next] \in Addresses
    BY <1>1 DEF Typed
<1>3. todo' \in Seq(DeviceQueries)
    BY <1>1, <1>2, DeviceRequestsTyped
<1>4. todo' \in Seq(Requests)
    BY <1>3, Kinds, LargerSet
<1>5. Agenda'
    BY <1>1, <1>3 DEF Agenda, Typed
<1>6. {reporting, up, waiting, expired, manage_reporting, returned}' \subseteq BOOLEAN
    BY <1>1 DEF Typed
<1>7. next' \in Nat \ {0}
    BY <1>1 DEF Typed
<1> QED  BY <1>1, <1>4, <1>5, <1>6, <1>7 DEF Typed

LEMMA LeaveTyped ==
    ASSUME Typed, NEW ok \in BOOLEAN, Leave(ok),
           UNCHANGED <<attached, reporting, up, asked, wire, backlog, expired, manage_reporting,
                       addresses, info, next, served, excuses>>
    PROVE  Typed'
<1> DEFINE on == ReportingState(TRUE)
<1>1. on \in Others /\ on \in Requests
    BY Kinds
<1>2. returned' = ok /\ waiting' = FALSE
      /\ pc' = (IF manage_reporting THEN "finally" ELSE "idle")
      /\ todo' = (IF manage_reporting THEN <<on>> ELSE <<>>)
    BY DEF Leave
<1> HIDE DEF on
<1>3. <<on>> \in Seq(Others) /\ <<on>> \in Seq(Requests) /\ <<>> \in Seq(Requests)
    BY <1>1
<1>4. Agenda' /\ todo' \in Seq(Requests)
    BY <1>2, <1>3 DEF Agenda
<1>5. {reporting, up, waiting, expired, manage_reporting, returned}' \subseteq BOOLEAN
    BY <1>2 DEF Typed
<1>6. pc' \in {"idle", "gateway", "walk", "devices", "finally"}
    BY <1>2
<1> QED  BY <1>4, <1>5, <1>6 DEF Typed

LEMMA PropagateTyped ==
    ASSUME Typed, Propagate,
           UNCHANGED <<attached, reporting, up, asked, wire, backlog, expired, manage_reporting,
                       addresses, info, next, served>>
    PROVE  Typed'
<1>1. CASE pc = "finally"
    <2>1. returned' = FALSE /\ waiting' = FALSE /\ pc' = "idle" /\ todo' = <<>>
          /\ excuses' \subseteq excuses \cup {"silenced"}
        BY <1>1 DEF Propagate
    <2>2. Agenda' /\ todo' \in Seq(Requests)
        BY <2>1 DEF Agenda
    <2>3. {reporting, up, waiting, expired, manage_reporting, returned}' \subseteq BOOLEAN
        BY <2>1 DEF Typed
    <2>4. excuses' \subseteq {"leftover", "lost", "silenced"}
        BY <2>1 DEF Typed
    <2> QED  BY <2>1, <2>2, <2>3, <2>4 DEF Typed
<1>2. CASE pc # "finally"
    BY <1>2, LeaveTyped DEF Propagate
<1> QED  BY <1>1, <1>2

\* What an iteration of the walk's loop does.
LEMMA WalkSteps ==
    ASSUME Walk
    PROVE  /\ pc = "walk"
           /\ UNCHANGED <<attached, reporting, up, asked, wire, expired, manage_reporting, info,
                          next, served, excuses>>
           /\ \/ /\ pc' = "devices" /\ UNCHANGED <<addresses, todo, waiting, returned, backlog>>
                 /\ expired \/ ~up
              \/ /\ pc' = "devices" /\ UNCHANGED <<addresses, todo, waiting, returned>>
                 /\ ~expired /\ backlog # <<>> /\ backlog' = Tail(backlog)
                 /\ Head(backlog).argument \in Terminators
              \/ /\ ~expired /\ backlog # <<>> /\ backlog' = Tail(backlog)
                 /\ Head(backlog).argument \notin Terminators
                 /\ addresses' = (IF Contains(addresses, Head(backlog).argument) THEN addresses
                                  ELSE Append(addresses, Head(backlog).argument))
                 /\ UNCHANGED <<pc, todo, waiting, returned>>
              \/ Leave(FALSE) /\ UNCHANGED <<addresses, backlog>>
BY DEF Walk, EndWalk, WalkExpired, gateway

LEMMA WalkTyped ==
    ASSUME Typed, Walk
    PROVE  Typed'
<1>1. CASE Leave(FALSE) /\ UNCHANGED <<addresses, backlog>>
    BY <1>1, WalkSteps, LeaveTyped
<1>2. CASE /\ pc' \in {"walk", "devices"} /\ UNCHANGED <<todo, waiting, returned>>
           /\ \/ UNCHANGED <<addresses, backlog>>
              \/ /\ backlog # <<>> /\ backlog' = Tail(backlog)
                 /\ \/ UNCHANGED addresses
                    \/ /\ Head(backlog).argument \notin Terminators
                       /\ addresses' = Append(addresses, Head(backlog).argument)
    <2>1. /\ pc = "walk"
          /\ UNCHANGED <<attached, reporting, up, asked, wire, expired, manage_reporting, info,
                         next, served, excuses>>
        BY WalkSteps
    <2>2. todo = <<>> /\ ~waiting /\ <<>> \in Seq(DeviceQueries)
        BY <2>1 DEF Typed, Agenda
    <2>3. Agenda'
        BY <1>2, <2>2 DEF Agenda
    <2>4. {reporting, up, waiting, expired, manage_reporting, returned}' \subseteq BOOLEAN
        BY <1>2, <2>1 DEF Typed
    <2>5. backlog' \in Seq(Replies) /\ addresses' \in Seq(Addresses)
        <3>1. backlog \in Seq(Replies) /\ addresses \in Seq(Addresses)
            BY DEF Typed
        <3>2. CASE UNCHANGED <<backlog, addresses>>
            BY <3>1, <3>2
        <3>3. CASE backlog # <<>> /\ backlog' = Tail(backlog)
            <4> DEFINE a == Head(backlog).argument
            <4>1. backlog' \in Seq(Replies) /\ Head(backlog) \in Replies
                BY <3>1, <3>3, TailOfSeq
            <4>2. a \in Addresses \cup Terminators
                BY <4>1, Kinds
            <4>3. addresses' = addresses \/ (a \notin Terminators /\ addresses' = Append(addresses, a))
                BY <1>2
            <4> HIDE DEF a
            <4>4. a \notin Terminators => Append(addresses, a) \in Seq(Addresses)
                <5>1. a \notin Terminators => a \in Addresses
                    BY <4>2
                <5> QED  BY <3>1, <5>1, AppendToSeq
            <4> QED  BY <3>1, <4>1, <4>3, <4>4
        <3> QED  BY <1>2, <3>2, <3>3
    <2> QED  BY <1>2, <2>1, <2>2, <2>3, <2>4, <2>5 DEF Typed
<1> QED  BY <1>1, <1>2, WalkSteps

LEMMA ServeTyped ==
    ASSUME Typed, Serve
    PROVE  Typed'
<1> DEFINE r == Head(asked)
<1>1. asked \in Seq(Requests) /\ wire \in Seq(Replies \cup Others) /\ asked # <<>>
      /\ attached \subseteq Addresses
    BY DEF Typed, Serve
<1>2. asked' = Tail(asked) /\ asked' \in Seq(Requests) /\ r \in Requests
    BY <1>1, TailOfSeq DEF Serve
<1>3. UNCHANGED <<attached, up, backlog, pc, todo, waiting, expired, manage_reporting, addresses,
                  info, next, returned>>
    BY DEF Serve, result
<1>4. reporting' \in BOOLEAN /\ served' \subseteq Addresses
      /\ excuses' \subseteq {"leftover", "lost", "silenced"}
    <2>1. reporting' \in {r.argument = 1, reporting} /\ served' \in {attached, served}
          /\ excuses' \subseteq excuses
        BY DEF Serve
    <2> QED  BY <2>1 DEF Typed
<1>5. wire' \in Seq(Replies \cup Others)
    <2>1. CASE IsInventory(r)
        <3>1. PICK end \in Terminators : wire' = wire \o Listing(end)
            BY <2>1, Ends DEF Serve
        <3>2. Listing(end) \in Seq(Replies \cup Others)
            BY <1>1, ListingTyped, LargerSet
        <3> QED  BY <1>1, <3>1, <3>2, JoinedSeq
    <2>2. CASE ~IsInventory(r)
        <3>1. wire' = wire \/ wire' = Append(wire, r)
            BY <2>2 DEF Serve
        <3>2. r \in Others
            BY <1>2, <2>2, Kinds
        <3> HIDE DEF r
        <3> QED  BY <1>1, <3>1, <3>2, AppendToSeq
    <2> QED  BY <2>1, <2>2
<1>6. {reporting, up, waiting, expired, manage_reporting, returned}' \subseteq BOOLEAN
    BY <1>3, <1>4 DEF Typed
<1>7. Agenda'
    BY <1>3 DEF Agenda, Typed
<1> QED  BY <1>2, <1>3, <1>4, <1>5, <1>6, <1>7 DEF Typed

LEMMA LoseTyped ==
    ASSUME Typed, Lose
    PROVE  Typed'
<1>1. UNCHANGED <<attached, reporting, up, backlog, pc, todo, waiting, expired, manage_reporting,
                  addresses, info, next, returned, served>>
    BY DEF Lose, gateway, result
<1>2. excuses' \subseteq {"leftover", "lost", "silenced"}
    BY DEF Lose, Typed
<1>3. asked' \in Seq(Requests)
    <2>1. asked \in Seq(Requests)
        BY DEF Typed
    <2>2. asked' = asked \/ (asked # <<>> /\ asked' = Tail(asked))
        BY DEF Lose
    <2> QED  BY <2>1, <2>2, TailOfSeq
<1>4. wire' \in Seq(Replies \cup Others)
    <2> DEFINE S == Replies \cup Others
    <2>1. wire \in Seq(S)
        BY DEF Typed
    <2>2. wire' = wire \/ \E i \in DOMAIN wire : wire' = RemoveAt(wire, i)
        BY DEF Lose
    <2> HIDE DEF S
    <2>3. ASSUME NEW i \in DOMAIN wire
          PROVE  RemoveAt(wire, i) \in Seq(S)
        BY <2>1 DEF RemoveAt
    <2>4. wire' \in Seq(S)
        BY <2>1, <2>2, <2>3
    <2> QED  BY <2>4 DEF S
<1>5. Agenda'
    BY <1>1 DEF Agenda, Typed
<1>6. {reporting, up, waiting, expired, manage_reporting, returned}' \subseteq BOOLEAN
    BY <1>1 DEF Typed
<1> QED  BY <1>1, <1>2, <1>3, <1>4, <1>5, <1>6 DEF Typed

LEMMA OthersTyped ==
    ASSUME Typed, UNCHANGED <<backlog, todo, waiting, reporting, addresses, info, next, served,
                              manage_reporting, returned>>,
           asked' \in Seq(Requests), wire' \in Seq(Replies \cup Others),
           attached' \subseteq Addresses, expired' \in BOOLEAN, up' \in BOOLEAN,
           excuses' \subseteq {"leftover", "lost", "silenced"},
           pc' = pc \/ (pc' = "idle" /\ todo = <<>>)
    PROVE  Typed'
<1>1. Agenda'
    BY DEF Agenda, Typed
<1>2. {reporting, up, waiting, expired, manage_reporting, returned}' \subseteq BOOLEAN
    BY DEF Typed
<1>3. pc' \in {"idle", "gateway", "walk", "devices", "finally"}
    BY DEF Typed
<1> QED  BY <1>1, <1>2, <1>3 DEF Typed

LEMMA DownTyped ==
    ASSUME Typed, Down
    PROVE  Typed'
<1>1. /\ UNCHANGED <<backlog, todo, waiting, reporting, addresses, info, next, served,
                     manage_reporting, returned, attached, expired, pc>>
      /\ asked' = <<>> /\ wire' = <<>> /\ up' = FALSE
    BY DEF Down, gateway, result
<1>2. excuses' \subseteq {"leftover", "lost", "silenced"}
    BY DEF Down, Typed
<1>3. asked' \in Seq(Requests) /\ wire' \in Seq(Replies \cup Others)
    BY <1>1
<1> QED  BY <1>1, <1>2, <1>3, OthersTyped DEF Typed

LEMMA AnnounceTyped ==
    ASSUME Typed, Announce
    PROVE  Typed'
<1>1. /\ UNCHANGED <<backlog, todo, waiting, reporting, addresses, info, next, served, asked, up,
                     manage_reporting, returned, attached, expired, excuses, pc>>
      /\ wire' = Append(wire, Message("UPDATE", "DEVICE_INVENTORY", 0))
    BY DEF Announce, gateway, result
<1>2. wire' \in Seq(Replies \cup Others)
    BY <1>1, AnnouncementIsOther, AppendToSeq DEF Typed
<1> QED  BY <1>1, <1>2, OthersTyped DEF Typed

LEMMA StepTyped == Typed /\ [Next]_vars => Typed'
<1> SUFFICES ASSUME Typed, [Next]_vars PROVE Typed'
    OBVIOUS
<1>1. ASSUME NEW manage \in BOOLEAN, Discover(manage) PROVE Typed'
    BY <1>1, DiscoverTyped
<1>2. CASE AllDevices
    <2>1. Leave(TRUE)
          /\ UNCHANGED <<attached, reporting, up, asked, wire, backlog, expired, manage_reporting,
                         addresses, info, next, served, excuses>>
        BY <1>2 DEF AllDevices, gateway, line, result
    <2> QED  BY <2>1, LeaveTyped
<1>3. CASE Raise \/ Cancel
    <2>1. Propagate
          /\ UNCHANGED <<attached, reporting, up, asked, wire, backlog, expired, manage_reporting,
                         addresses, info, next, served>>
        BY <1>3 DEF Raise, Cancel, gateway, line, result
    <2> QED  BY <2>1, PropagateTyped
<1>4. CASE Expire \/ Return \/ Reopen \/ (\E a \in Addresses : ChangeTopology(a)) \/ UNCHANGED vars
    <2>1. UNCHANGED <<asked, wire, backlog, todo, waiting, reporting, addresses, info, next,
                      served, excuses, manage_reporting, returned>>
        BY <1>4 DEF Expire, Return, Reopen, ChangeTopology, vars, gateway, line, result
    <2>2. expired \in BOOLEAN /\ up \in BOOLEAN /\ attached \subseteq Addresses
        BY DEF Typed
    <2>3. attached' \subseteq Addresses
        BY <1>4, <2>2 DEF Expire, Return, Reopen, ChangeTopology, vars, gateway
    <2>4. expired' \in BOOLEAN /\ up' \in BOOLEAN
        BY <1>4, <2>2 DEF Expire, Return, Reopen, ChangeTopology, vars, line
    <2>5. pc' = pc \/ (pc' = "idle" /\ todo = <<>>)
        BY <1>4 DEF Expire, Return, Reopen, ChangeTopology, vars
    <2> QED  BY <2>1, <2>3, <2>4, <2>5, OthersTyped DEF Typed
<1> QED  BY <1>1, <1>2, <1>3, <1>4, SendTyped, DeliverTyped, TimesOutTyped, WalkTyped,
            AskDeviceTyped, ServeTyped, LoseTyped, DownTyped, AnnounceTyped DEF Next

LEMMA AlwaysTyped == Spec => []Typed
BY InitTyped, StepTyped, PTL DEF Spec

LEMMA TypedIsTypeOK == Typed => TypeOK
<1> SUFFICES ASSUME Typed PROVE TypeOK
    OBVIOUS
<1>1. wire \in Seq(Requests) /\ backlog \in Seq(Requests)
    <2>1. Replies \cup Others \subseteq Requests
        BY Kinds
    <2>2. wire \in Seq(Replies \cup Others) /\ backlog \in Seq(Replies)
        BY DEF Typed
    <2> QED  BY <2>1, <2>2, LargerSet
<1>2. waiting => todo # <<>>
    BY DEF Typed, Agenda
<1>3. pc \in {"idle", "walk"} => todo = <<>>
    BY DEF Typed, Agenda
<1>4. pc = "gateway" => todo # <<>> /\ Last(todo) = Inventory
    BY DEF Typed, Agenda, Last
<1> QED  BY <1>1, <1>2, <1>3, <1>4 DEF Typed, TypeOK

-----------------------------------------------------------------------------
(* The inventory walk *)

\* Nothing but time has been able to come between the walk and the inventory.
Clean == ~expired /\ excuses \subseteq {"silenced"}

Finished == returned /\ pc \in {"finally", "idle"}

\* No inventory is asked for, and no reply to one is under way.
Quiet == asked \in Seq(Others) /\ wire \in Seq(Others) /\ backlog = <<>>

\* The request of the inventory is on its way, ...
Asking ==
    /\ \A i, j \in DOMAIN asked : IsInventory(asked[i]) /\ IsInventory(asked[j]) => i = j
    /\ wire \in Seq(Others) /\ backlog = <<>> /\ addresses = <<>>

\* ... or it has been answered: each device that was listed has been found or is
\* in a reply that is under way, and the reply that ends the listing is the last.
Found(a) == \E i \in DOMAIN addresses : addresses[i] = a
Under(s, a) == \E i \in DOMAIN s : IsInventory(s[i]) /\ s[i].argument = a

EndsLast(s) ==
    \A i, j \in DOMAIN s : i < j /\ IsInventory(s[i]) /\ IsInventory(s[j]) =>
        s[i].argument \notin Terminators

Ended(s) == \E i \in DOMAIN s : IsInventory(s[i]) /\ s[i].argument \in Terminators

Answered ==
    /\ asked \in Seq(Others) /\ EndsLast(wire) /\ EndsLast(backlog)
    /\ Ended(backlog) => wire \in Seq(Others)
    /\ \A a \in Addresses : a \in served <=> Found(a) \/ Under(backlog, a) \/ Under(wire, a)

Walked ==
    Clean =>
        /\ pc = "gateway" => Quiet /\ addresses = <<>>
        /\ pc = "walk" => Asking \/ Answered
        /\ (pc = "devices" \/ Finished) =>
                Quiet /\ \A a \in Addresses : a \in served <=> Found(a)

\* A device that was asked has given its metadata, or the request is left.
Described ==
    /\ pc \in {"gateway", "walk"} => next = 1
    /\ returned => Finished
    /\ Finished => next > Len(addresses)
    /\ ~expired /\ (pc = "devices" \/ Finished) =>
        \A i \in DOMAIN addresses, m \in ToSet(DeviceMethods) : i < next =>
            \/ <<addresses[i], m, addresses[i]>> \in info
            \/ /\ pc = "devices"
               /\ \E j \in DOMAIN todo : todo[j] = Request(m, addresses[i])

FoundOnce == IsInjective(addresses)

\* The session was up when the inventory was asked for.
Connected == pc = "walk" /\ ~up => "lost" \in excuses

LInv == Typed /\ Walked /\ Described /\ FoundOnce /\ Connected

LEMMA OtherSeq ==
    ASSUME NEW s \in Seq(Replies \cup Others)
    PROVE  s \in Seq(Others) <=> \A i \in DOMAIN s : ~IsInventory(s[i])
<1>1. ASSUME NEW i \in DOMAIN s
      PROVE  s[i] \in Others <=> ~IsInventory(s[i])
    <2>1. s[i] \in Replies \cup Others
        OBVIOUS
    <2> QED  BY <2>1, Kinds
<1>2. s \in Seq(Others) <=> \A i \in DOMAIN s : s[i] \in Others
    OBVIOUS
<1> QED  BY <1>1, <1>2

LEMMA OtherRequests ==
    ASSUME NEW s \in Seq(Requests)
    PROVE  s \in Seq(Others) <=> \A i \in DOMAIN s : ~IsInventory(s[i])
<1>1. ASSUME NEW i \in DOMAIN s
      PROVE  s[i] \in Others <=> ~IsInventory(s[i])
    <2>1. s[i] \in Requests
        OBVIOUS
    <2> QED  BY <2>1, Kinds
<1>2. s \in Seq(Others) <=> \A i \in DOMAIN s : s[i] \in Others
    OBVIOUS
<1> QED  BY <1>1, <1>2

LEMMA RepliesOnly ==
    ASSUME Typed
    PROVE  \A i \in DOMAIN backlog : IsInventory(backlog[i])
<1>1. \A i \in DOMAIN backlog : backlog[i] \in Replies
    BY DEF Typed
<1> QED  BY <1>1, Kinds

\* The walk is not concerned.
LEMMA WalkUntouched ==
    ASSUME Walked, UNCHANGED <<asked, wire, backlog, addresses, served>>,
           Clean' => Clean,
           pc' = pc \/ pc' \in {"finally", "idle"},
           Finished' => Finished \/ pc = "devices"
    PROVE  Walked'
<1>1. Quiet' = Quiet /\ Asking' = Asking /\ Answered' = Answered
    BY DEF Quiet, Asking, Answered, Found, Under, EndsLast, Ended
<1>2. \A a : Found(a)' = Found(a)
    BY DEF Found
<1> QED  BY <1>1, <1>2 DEF Walked, Finished

LEMMA DescribedUntouched ==
    ASSUME Described, UNCHANGED <<pc, todo, addresses, info, next, returned>>, ~expired' => ~expired
    PROVE  Described'
BY DEF Described, Finished

LEMMA DiscoverWalked ==
    ASSUME Typed, NEW manage \in BOOLEAN, Discover(manage)
    PROVE  Walked' /\ Described' /\ FoundOnce'
<1> DEFINE all == asked \o wire \o backlog
<1>1. /\ pc' = "gateway" /\ addresses' = <<>> /\ next' = 1 /\ returned' = FALSE
      /\ UNCHANGED <<asked, wire, backlog>>
      /\ "leftover" \in excuses' <=> \E i \in DOMAIN all : IsInventory(all[i])
    BY DEF Discover, line
<1>2. ASSUME "leftover" \notin excuses'
      PROVE  Quiet'
    <2>1. /\ asked \in Seq(Requests) /\ wire \in Seq(Requests) /\ backlog \in Seq(Requests)
          /\ wire \in Seq(Replies \cup Others)
        BY TypedIsTypeOK DEF Typed, TypeOK
    <2>2. asked \o wire \in Seq(Requests)
        BY <2>1, JoinedSeq
    <2>3. /\ \A i \in DOMAIN asked : i \in DOMAIN (asked \o wire) /\ (asked \o wire)[i] = asked[i]
          /\ \A i \in DOMAIN wire : /\ Len(asked) + i \in DOMAIN (asked \o wire)
                                    /\ (asked \o wire)[Len(asked) + i] = wire[i]
        BY <2>1, JoinedSeq
    <2>4. /\ \A i \in DOMAIN (asked \o wire) : i \in DOMAIN all /\ all[i] = (asked \o wire)[i]
          /\ \A i \in DOMAIN backlog : /\ Len(asked \o wire) + i \in DOMAIN all
                                       /\ all[Len(asked \o wire) + i] = backlog[i]
        BY <2>1, <2>2, JoinedSeq
    <2>5. \A i \in DOMAIN all : ~IsInventory(all[i])
        BY <1>1, <1>2
    <2> HIDE DEF all
    <2>6. \A i \in DOMAIN asked : ~IsInventory(asked[i])
        BY <2>3, <2>4, <2>5
    <2>7. \A i \in DOMAIN wire : ~IsInventory(wire[i])
        BY <2>3, <2>4, <2>5
    <2>8. DOMAIN backlog = {}
        BY <2>4, <2>5, RepliesOnly
    <2>9. backlog = <<>>
        BY <2>1, <2>8
    <2> QED  BY <1>1, <2>1, <2>6, <2>7, <2>9, OtherSeq, OtherRequests DEF Quiet
<1>3. Walked'
    BY <1>1, <1>2 DEF Walked, Clean, Finished
<1>4. Described'
    BY <1>1 DEF Described, Finished
<1>5. FoundOnce'
    BY <1>1 DEF FoundOnce, IsInjective
<1> QED  BY <1>3, <1>4, <1>5

\* The inventory is asked for once.
LEMMA SendWalked ==
    ASSUME LInv, Send
    PROVE  Walked' /\ Described' /\ FoundOnce'
<1> DEFINE r == Head(todo)
<1>1. /\ todo \in Seq(Requests) /\ todo # <<>> /\ asked \in Seq(Requests)
      /\ asked' = Append(asked, r) /\ UNCHANGED <<wire, backlog, addresses, info, next, served,
                                                 expired, excuses, returned>>
    BY DEF Send, LInv, Typed, result
<1>2. r \in Requests
    BY <1>1, TailOfSeq
<1>3. pc' = pc \/ (pc = "gateway" /\ pc' = "walk" /\ IsInventory(r))
    <2>1. CASE IsInventory(r)
        <3>1. pc' = "walk"
            BY <2>1 DEF Send
        <3>2. r \notin Others
            BY <2>1, Kinds
        <3>3. pc \in {"gateway", "walk"}
            <4>1. todo \in Seq(DeviceQueries) => r \in DeviceQueries
                BY <1>1, TailOfSeq
            <4>2. todo \in Seq(Others) => r \in Others
                BY <1>1, TailOfSeq
            <4> HIDE DEF r
            <4> QED  BY <1>1, <3>2, <4>1, <4>2, Kinds DEF LInv, Typed, Agenda
        <3> QED  BY <2>1, <3>1, <3>3
    <2>2. CASE ~IsInventory(r)
        BY <2>2 DEF Send
    <2> QED  BY <2>1, <2>2
<1> HIDE DEF r
<1>4. pc # "walk"
    <2>1. pc = "walk" => todo = <<>>
        BY DEF LInv, Typed, Agenda
    <2> QED  BY <1>1, <2>1
<1>5. \A a : Found(a)' = Found(a)
    BY <1>1 DEF Found
<1>6. Clean' = Clean
    BY <1>1 DEF Clean
<1>7. ASSUME Quiet, ~IsInventory(r)
      PROVE  Quiet'
    <2>1. r \in Others /\ asked \in Seq(Others)
        BY <1>2, <1>7, Kinds DEF Quiet
    <2> QED  BY <1>1, <1>7, <2>1, AppendToSeq DEF Quiet
<1>8. ASSUME Quiet, addresses = <<>>
      PROVE  Asking'
    <2>1. asked \in Seq(Others)
        BY <1>8 DEF Quiet
    <2>2. \A i \in DOMAIN asked : ~IsInventory(asked[i])
        BY <1>1, <2>1, OtherRequests
    <2>3. \A i \in DOMAIN asked' : (i \in DOMAIN asked /\ asked'[i] = asked[i]) \/ i = Len(asked) + 1
        BY <1>1, <1>2, AppendToSeq
    <2>4. \A i \in DOMAIN asked' : IsInventory(asked'[i]) => i = Len(asked) + 1
        BY <2>2, <2>3
    <2> QED  BY <1>1, <1>8, <2>4 DEF Asking, Quiet
<1>9. Walked'
    <2>1. CASE pc' = pc
        <3>1. ~IsInventory(r)
            BY <1>4, <2>1 DEF Send, r
        <3> QED  BY <1>1, <1>4, <1>5, <1>6, <1>7, <2>1, <3>1 DEF Walked, LInv, Finished
    <2>2. CASE pc = "gateway" /\ pc' = "walk"
        BY <1>6, <1>8, <2>2 DEF Walked, LInv, Finished
    <2> QED  BY <1>3, <2>1, <2>2
<1>10. Described'
    <2>1. CASE pc' = pc
        <3>1. ~IsInventory(r)
            BY <1>4, <2>1 DEF Send, r
        <3>2. todo' = todo
            BY <3>1 DEF Send, r
        <3> QED  BY <1>1, <2>1, <3>2, DescribedUntouched DEF LInv
    <2>2. CASE pc = "gateway" /\ pc' = "walk"
        BY <1>1, <2>2 DEF Described, LInv, Finished
    <2> QED  BY <1>3, <2>1, <2>2
<1> QED  BY <1>1, <1>9, <1>10 DEF LInv, FoundOnce

\* A reply goes from the line to the backlog, behind those that are there.
LEMMA DeliverAnswered ==
    ASSUME Typed, Answered, wire # <<>>, wire' = Tail(wire), backlog' = Keep(Head(wire)),
           UNCHANGED <<asked, addresses, served>>
    PROVE  Answered'
<1> DEFINE m == Head(wire)
<1>1. wire \in Seq(Replies \cup Others) /\ backlog \in Seq(Replies)
    BY DEF Typed
<1>2. /\ m = wire[1] /\ 1 \in DOMAIN wire /\ wire' \in Seq(Replies \cup Others)
      /\ \A i \in DOMAIN wire' : /\ i \in Nat /\ i + 1 \in DOMAIN wire /\ i + 1 # 1
                                 /\ wire'[i] = wire[i + 1]
      /\ \A i \in DOMAIN wire : i # 1 => i - 1 \in DOMAIN wire' /\ wire'[i - 1] = wire[i]
      /\ m \in Replies \cup Others
    BY <1>1, TailOfSeq
<1>3. EndsLast(wire')
    <2> SUFFICES ASSUME NEW i \in DOMAIN wire', NEW j \in DOMAIN wire', i < j,
                        IsInventory(wire'[i]), IsInventory(wire'[j])
                 PROVE  wire'[i].argument \notin Terminators
        BY DEF EndsLast
    <2>1. i + 1 < j + 1 /\ i + 1 \in DOMAIN wire /\ j + 1 \in DOMAIN wire
        BY <1>2
    <2>2. IsInventory(wire[i + 1]) /\ IsInventory(wire[j + 1])
        BY <1>2
    <2>3. wire[i + 1].argument \notin Terminators
        BY <2>1, <2>2 DEF Answered, EndsLast
    <2> QED  BY <1>2, <2>3
<1>4. wire \in Seq(Others) => wire' \in Seq(Others)
    <2>1. ASSUME wire \in Seq(Others) PROVE Tail(wire) \in Seq(Others)
        BY <2>1, TailOfSeq
    <2> QED  BY <2>1
<1> HIDE DEF m
<1>5. CASE ~IsInventory(m)
    <2>1. backlog' = backlog
        BY <1>5 DEF Keep, m
    <2>2. ASSUME NEW a \in Addresses
          PROVE  Under(wire', a) <=> Under(wire, a)
        <3>1. ASSUME Under(wire', a) PROVE Under(wire, a)
            BY <1>2, <3>1 DEF Under
        <3>2. ASSUME NEW i \in DOMAIN wire, IsInventory(wire[i]), wire[i].argument = a
              PROVE  Under(wire', a)
            <4>1. i # 1
                BY <1>2, <1>5, <3>2
            <4> QED  BY <1>2, <3>2, <4>1 DEF Under
        <3> QED  BY <3>1, <3>2 DEF Under
    <2>3. \A a : Found(a)' = Found(a)
        BY DEF Found
    <2>4. /\ EndsLast(backlog') /\ (Ended(backlog') => wire' \in Seq(Others))
          /\ asked' \in Seq(Others)
        BY <1>4, <2>1 DEF Answered
    <2>5. \A a \in Addresses : a \in served' <=> Found(a)' \/ Under(backlog', a) \/ Under(wire', a)
        BY <2>1, <2>2, <2>3 DEF Answered
    <2> QED  BY <1>3, <2>4, <2>5 DEF Answered, EndsLast, Under, Ended
<1>6. CASE IsInventory(m)
    <2>1. m \in Replies
        BY <1>2, <1>6, Kinds
    <2>2. /\ backlog' = Append(backlog, m)
          /\ Len(backlog) + 1 \in DOMAIN backlog' /\ backlog'[Len(backlog) + 1] = m
          /\ \A i \in DOMAIN backlog : i \in DOMAIN backlog' /\ backlog'[i] = backlog[i]
                                        /\ i \in Nat /\ i <= Len(backlog)
          /\ \A i \in DOMAIN backlog' : i \in DOMAIN backlog \/ i = Len(backlog) + 1
        <3>1. backlog' = Append(backlog, m)
            BY <1>6 DEF Keep, m
        <3> QED  BY <1>1, <2>1, <3>1, AppendToSeq
    <2>3. ~Ended(backlog)
        <3>1. wire \notin Seq(Others)
            BY <1>1, <1>2, <1>6, OtherSeq
        <3> QED  BY <3>1 DEF Answered
    <2>4. \A i \in DOMAIN backlog : backlog[i].argument \notin Terminators
        BY <2>3, RepliesOnly DEF Ended
    <2>5. EndsLast(backlog')
        <3> SUFFICES ASSUME NEW i \in DOMAIN backlog', NEW j \in DOMAIN backlog', i < j
                     PROVE  backlog'[i].argument \notin Terminators
            BY DEF EndsLast
        <3>1. i \in DOMAIN backlog
            <4>1. Len(backlog) \in Nat
                BY <1>1
            <4>2. i # Len(backlog) + 1
                BY <2>2, <4>1
            <4> QED  BY <2>2, <4>2
        <3> QED  BY <2>2, <2>4, <3>1
    <2>6. ASSUME Ended(backlog') PROVE wire' \in Seq(Others)
        <3>1. m.argument \in Terminators
            BY <2>2, <2>4, <2>6 DEF Ended
        <3>2. ASSUME NEW i \in DOMAIN wire'
              PROVE  ~IsInventory(wire'[i])
            <4>1. i + 1 \in DOMAIN wire /\ 1 < i + 1 /\ wire'[i] = wire[i + 1]
                <5>1. i \in Nat /\ i + 1 \in DOMAIN wire /\ i + 1 # 1 /\ wire'[i] = wire[i + 1]
                    BY <1>2
                <5> QED  BY <5>1
            <4> QED  BY <1>2, <1>6, <3>1, <4>1 DEF Answered, EndsLast
        <3> QED  BY <1>2, <3>2, OtherSeq
    <2>7. ASSUME NEW a \in Addresses
          PROVE  Under(backlog', a) \/ Under(wire', a) <=> Under(backlog, a) \/ Under(wire, a)
        <3>1. ASSUME Under(backlog', a) PROVE Under(backlog, a) \/ Under(wire, a)
            BY <1>2, <2>2, <3>1 DEF Under
        <3>2. ASSUME Under(wire', a) PROVE Under(wire, a)
            BY <1>2, <3>2 DEF Under
        <3>3. ASSUME Under(backlog, a) PROVE Under(backlog', a)
            BY <2>2, <3>3 DEF Under
        <3>4. ASSUME Under(wire, a) PROVE Under(backlog', a) \/ Under(wire', a)
            <4>1. PICK i \in DOMAIN wire : IsInventory(wire[i]) /\ wire[i].argument = a
                BY <3>4 DEF Under
            <4>2. CASE i = 1
                BY <1>2, <1>6, <2>2, <4>1, <4>2 DEF Under
            <4>3. CASE i # 1
                BY <1>2, <4>1, <4>3 DEF Under
            <4> QED  BY <4>2, <4>3
        <3> QED  BY <3>1, <3>2, <3>3, <3>4
    <2>8. \A a : Found(a)' = Found(a)
        BY DEF Found
    <2>9. \A a \in Addresses : a \in served' <=> Found(a)' \/ Under(backlog', a) \/ Under(wire', a)
        BY <2>7, <2>8 DEF Answered
    <2>10. asked' \in Seq(Others)
        BY DEF Answered
    <2> QED  BY <1>3, <2>5, <2>6, <2>9, <2>10 DEF Answered, EndsLast, Under, Ended
<1> QED  BY <1>5, <1>6

LEMMA DeliverWalked ==
    ASSUME LInv, Deliver
    PROVE  Walked'
<1>1. /\ wire # <<>> /\ wire' = Tail(wire) /\ wire \in Seq(Replies \cup Others)
      /\ UNCHANGED <<asked, pc, addresses, served, expired, excuses, returned>>
      /\ backlog' = backlog \/ backlog' = Keep(Head(wire))
    BY DEF Deliver, LInv, Typed, gateway
<1>2. ASSUME wire \in Seq(Others)
      PROVE  wire' \in Seq(Others) /\ backlog' = backlog
    <2>1. Tail(wire) \in Seq(Others) /\ Head(wire) \in Others
        BY <1>1, <1>2, TailOfSeq
    <2>2. ~IsInventory(Head(wire))
        BY <2>1, Kinds
    <2> QED  BY <1>1, <2>1, <2>2 DEF Keep
<1>3. Quiet => Quiet'
    BY <1>1, <1>2 DEF Quiet
<1>4. Asking => Asking'
    BY <1>1, <1>2 DEF Asking
<1>5. ASSUME pc = "walk", Answered
      PROVE  Answered'
    <2>1. ~waiting
        BY <1>5 DEF LInv, Typed, Agenda
    <2>2. backlog' = Keep(Head(wire))
        BY <2>1 DEF Deliver
    <2> QED  BY <1>1, <1>5, <2>2, DeliverAnswered DEF LInv
<1>6. \A a : Found(a)' = Found(a)
    BY <1>1 DEF Found
<1>7. Clean' = Clean /\ Finished' = Finished
    BY <1>1 DEF Clean, Finished
<1> QED  BY <1>1, <1>3, <1>4, <1>5, <1>6, <1>7 DEF Walked, LInv

\* The response to a request is what makes it the next one's turn.
LEMMA DeliverDescribed ==
    ASSUME LInv, Deliver
    PROVE  Described' /\ FoundOnce'
<1> DEFINE r == Head(todo)
           m == Head(wire)
<1>1. UNCHANGED <<pc, addresses, next, returned, expired>>
    BY DEF Deliver
<1>2. FoundOnce'
    BY <1>1 DEF LInv, FoundOnce
<1>3. CASE ~(waiting /\ Matches(r, m))
    <2>1. UNCHANGED <<todo, info>>
        BY <1>3 DEF Deliver
    <2> QED  BY <1>1, <1>2, <2>1, DescribedUntouched DEF LInv
<1>4. CASE waiting /\ Matches(r, m)
    <2>1. /\ todo' = Tail(todo) /\ todo # <<>> /\ todo \in Seq(Requests)
          /\ info' = IF pc = "devices" THEN info \cup {<<r.argument, m.method, m.argument>>}
                     ELSE info
        BY <1>4 DEF Deliver, LInv, Typed, Agenda
    <2>2. CASE pc # "devices"
        BY <1>1, <1>2, <2>1, <2>2 DEF Described, LInv, Finished
    <2>3. CASE pc = "devices"
        <3>1. /\ r = todo[1]
              /\ \A j \in DOMAIN todo : j # 1 => j - 1 \in DOMAIN todo' /\ todo'[j - 1] = todo[j]
            BY <2>1, TailOfSeq
        <3>2. m.method = r.method /\ m.argument = r.argument
            BY <1>4 DEF Matches
        <3>3. info' = info \cup {<<r.argument, r.method, r.argument>>}
            BY <2>1, <2>3, <3>2
        <3> HIDE DEF r, m
        <3>4. ASSUME NEW i \in DOMAIN addresses, NEW method \in ToSet(DeviceMethods), i < next,
                     ~expired
              PROVE  \/ <<addresses[i], method, addresses[i]>> \in info'
                     \/ \E j \in DOMAIN todo' : todo'[j] = Request(method, addresses[i])
            <4>1. CASE <<addresses[i], method, addresses[i]>> \in info
                BY <3>3, <4>1
            <4>2. CASE \E j \in DOMAIN todo : todo[j] = Request(method, addresses[i])
                <5>1. PICK j \in DOMAIN todo : todo[j] = Request(method, addresses[i])
                    BY <4>2
                <5>2. CASE j = 1
                    BY <3>1, <3>3, <5>1, <5>2, RequestParts
                <5>3. CASE j # 1
                    BY <3>1, <5>1, <5>3
                <5> QED  BY <5>2, <5>3
            <4> QED  BY <2>3, <3>4, <4>1, <4>2 DEF LInv, Described
        <3>5. Described'
            BY <1>1, <2>3, <3>4 DEF Described, LInv, Finished
        <3> QED  BY <1>2, <3>5
    <2> QED  BY <2>2, <2>3
<1> QED  BY <1>3, <1>4

\* Only a command that sets reporting is given up before the deadline.
LEMMA TimesOutWalked ==
    ASSUME LInv, TimesOut
    PROVE  Walked' /\ Described' /\ FoundOnce'
<1>1. /\ waiting /\ (expired \/ Head(todo).method = "REPORTING_STATE")
      /\ UNCHANGED <<asked, wire, backlog, addresses, served, pc, returned, expired, excuses,
                     info, next>>
    BY DEF TimesOut, line, result
<1>2. Walked'
    BY <1>1, WalkUntouched DEF LInv, Clean, Finished
<1>3. pc = "devices" => expired
    <2>1. ASSUME pc = "devices" PROVE Head(todo).method \in ToSet(DeviceMethods)
        <3>1. todo \in Seq(DeviceQueries) /\ todo # <<>>
            BY <1>1, <2>1 DEF LInv, Typed, Agenda
        <3>2. Head(todo) \in DeviceQueries
            BY <3>1, TailOfSeq
        <3> QED  BY <3>2 DEF DeviceQueries
    <2>2. "REPORTING_STATE" \notin ToSet(DeviceMethods)
        BY MethodAssumption
    <2> QED  BY <1>1, <2>1, <2>2
<1>4. Described'
    BY <1>1, <1>3 DEF LInv, Described, Finished
<1> QED  BY <1>1, <1>2, <1>4 DEF LInv, FoundOnce

\* An address is put with those found, unless it is one of them.
LEMMA WalkFinds ==
    ASSUME LInv, pc = "walk", ~expired, backlog # <<>>, backlog' = Tail(backlog),
           LET a == Head(backlog).argument
           IN  IF a \in Terminators THEN pc' = "devices" /\ UNCHANGED addresses
               ELSE /\ addresses' = IF Contains(addresses, a) THEN addresses
                                    ELSE Append(addresses, a)
                    /\ pc' = pc,
           UNCHANGED <<asked, wire, served, excuses, expired, returned>>
    PROVE  Walked' /\ FoundOnce'
<1> DEFINE a == Head(backlog).argument
<1>1. backlog \in Seq(Replies) /\ addresses \in Seq(Addresses)
    BY DEF LInv, Typed
<1>2. /\ Head(backlog) \in Replies /\ Head(backlog) = backlog[1] /\ 1 \in DOMAIN backlog
      /\ \A i \in DOMAIN backlog' : /\ i \in Nat /\ i + 1 \in DOMAIN backlog /\ i + 1 # 1
                                    /\ backlog'[i] = backlog[i + 1]
      /\ \A i \in DOMAIN backlog : i # 1 => i - 1 \in DOMAIN backlog' /\ backlog'[i - 1] = backlog[i]
      /\ backlog' \in Seq(Replies)
    BY <1>1, TailOfSeq
<1>3. a \in Addresses \cup Terminators /\ \A i \in DOMAIN backlog : IsInventory(backlog[i])
    BY <1>2, Kinds, RepliesOnly DEF LInv
<1>4. \A i \in DOMAIN backlog' : IsInventory(backlog'[i])
    BY <1>2, <1>3
<1>5. Clean => Answered
    BY DEF LInv, Walked, Asking
<1>6. Clean' = Clean /\ ~Finished /\ ~Finished'
    <2>1. ~returned
        BY DEF LInv, Described, Finished
    <2> QED  BY <2>1 DEF Clean, Finished
<1>7. a = backlog[1].argument
    BY <1>2
<1>8. CASE a \in Terminators
    <2>1. pc' = "devices" /\ addresses' = addresses
        BY <1>8
    <2>2. ASSUME Clean
          PROVE  Quiet' /\ \A b \in Addresses : b \in served' <=> Found(b)'
        <3>1. Answered
            BY <1>5, <2>2
        <3>2. Ended(backlog)
            BY <1>2, <1>3, <1>7, <1>8 DEF Ended
        <3>3. wire \in Seq(Others)
            BY <3>1, <3>2 DEF Answered
        <3>4. \A j \in DOMAIN backlog : ~(1 < j)
            <4>1. EndsLast(backlog)
                BY <3>1 DEF Answered
            <4> HIDE DEF a
            <4> QED  BY <1>2, <1>3, <1>7, <1>8, <4>1 DEF EndsLast
        <3>5. backlog' = <<>>
            <4>1. \A j \in DOMAIN backlog : j = 1
                BY <1>1, <3>4
            <4>2. DOMAIN backlog' = {}
                BY <1>2, <4>1
            <4> QED  BY <1>2, <4>2
        <3>6. \A b \in Addresses : ~Under(wire, b)
            BY <3>3, Kinds DEF Under
        <3>7. \A b \in Addresses : ~Under(backlog, b)
            <4>1. \A j \in DOMAIN backlog : j = 1
                BY <1>1, <3>4
            <4> HIDE DEF a
            <4> QED  BY <1>7, <1>8, <4>1, Ends DEF Under
        <3>8. \A b : Found(b)' = Found(b)
            BY <2>1 DEF Found
        <3> QED  BY <3>1, <3>3, <3>5, <3>6, <3>7, <3>8 DEF Quiet, Answered
    <2>3. Walked'
        BY <1>6, <2>1, <2>2 DEF Walked
    <2> QED  BY <2>1, <2>3 DEF LInv, FoundOnce
<1>9. CASE a \notin Terminators
    <2>1. pc' = pc /\ a \in Addresses
          /\ addresses' = IF Contains(addresses, a) THEN addresses ELSE Append(addresses, a)
        BY <1>3, <1>9
    <2> HIDE DEF a
    <2>2. Contains(addresses, a) <=> Found(a)
        BY <1>1 DEF Contains, Found
    <2>3. (\A b : Found(b)' <=> Found(b) \/ b = a) /\ FoundOnce'
        <3>1. CASE Contains(addresses, a)
            BY <2>1, <2>2, <3>1 DEF Found, LInv, FoundOnce
        <3>2. CASE ~Contains(addresses, a)
            <4>1. /\ addresses' = Append(addresses, a)
                  /\ Len(addresses) + 1 \in DOMAIN addresses' /\ addresses'[Len(addresses) + 1] = a
                  /\ \A i \in DOMAIN addresses : i \in DOMAIN addresses'
                                                 /\ addresses'[i] = addresses[i]
                  /\ \A i \in DOMAIN addresses' : i \in DOMAIN addresses \/ i = Len(addresses) + 1
                BY <1>1, <2>1, <3>2, AppendToSeq
            <4>2. \A i \in DOMAIN addresses : addresses[i] # a
                BY <2>2, <3>2 DEF Found
            <4>3. FoundOnce'
                <5> SUFFICES ASSUME NEW i \in DOMAIN addresses', NEW j \in DOMAIN addresses',
                                    addresses'[i] = addresses'[j]
                             PROVE  i = j
                    BY DEF FoundOnce, IsInjective
                <5>1. CASE i \in DOMAIN addresses /\ j \in DOMAIN addresses
                    BY <4>1, <5>1 DEF LInv, FoundOnce, IsInjective
                <5>2. CASE i \notin DOMAIN addresses \/ j \notin DOMAIN addresses
                    BY <4>1, <4>2, <5>2
                <5> QED  BY <5>1, <5>2
            <4>4. ASSUME NEW b PROVE Found(b)' <=> Found(b) \/ b = a
                BY <4>1 DEF Found
            <4> QED  BY <4>3, <4>4
        <3> QED  BY <3>1, <3>2
    <2>4. ASSUME Clean PROVE Answered'
        <3>1. Answered
            BY <1>5, <2>4
        <3>2. EndsLast(backlog')
            <4> SUFFICES ASSUME NEW i \in DOMAIN backlog', NEW j \in DOMAIN backlog', i < j
                         PROVE  backlog'[i].argument \notin Terminators
                BY DEF EndsLast
            <4>1. i + 1 \in DOMAIN backlog /\ j + 1 \in DOMAIN backlog /\ i + 1 < j + 1
                BY <1>2
            <4>2. backlog[i + 1].argument \notin Terminators
                BY <1>3, <3>1, <4>1 DEF Answered, EndsLast
            <4> QED  BY <1>2, <4>2
        <3>3. Ended(backlog') => wire' \in Seq(Others)
            <4>1. Ended(backlog') => Ended(backlog)
                BY <1>2, <1>3 DEF Ended
            <4> QED  BY <3>1, <4>1 DEF Answered
        <3>4. ASSUME NEW b \in Addresses
              PROVE  Under(backlog, b) <=> b = a \/ Under(backlog', b)
            <4>1. Under(backlog, a)
                BY <1>2, <1>3, <1>7 DEF Under
            <4>2. Under(backlog', b) => Under(backlog, b)
                BY <1>2, <1>3 DEF Under
            <4>3. ASSUME NEW i \in DOMAIN backlog, backlog[i].argument = b, b # a
                  PROVE  Under(backlog', b)
                <5>1. i # 1
                    BY <1>7, <4>3
                <5> QED  BY <1>2, <1>4, <4>3, <5>1 DEF Under
            <4>4. ASSUME Under(backlog, b), b # a PROVE Under(backlog', b)
                BY <4>3, <4>4 DEF Under
            <4> QED  BY <4>1, <4>2, <4>4
        <3>5. ASSUME NEW b \in Addresses
              PROVE  b \in served' <=> Found(b)' \/ Under(backlog', b) \/ Under(wire', b)
            <4>1. b \in served <=> Found(b) \/ Under(backlog, b) \/ Under(wire, b)
                BY <3>1 DEF Answered
            <4>2. Found(b)' <=> Found(b) \/ b = a
                BY <2>3
            <4>3. served' = served /\ Under(wire', b) = Under(wire, b)
                BY DEF Under
            <4> QED  BY <3>4, <4>1, <4>2, <4>3
        <3>6. asked' \in Seq(Others) /\ EndsLast(wire')
            BY <3>1 DEF Answered, EndsLast
        <3> QED  BY <3>2, <3>3, <3>5, <3>6 DEF Answered, EndsLast, Under, Ended
    <2>5. Walked'
        BY <1>6, <2>1, <2>4 DEF Walked
    <2> QED  BY <2>3, <2>5
<1> QED  BY <1>8, <1>9

LEMMA WalkWalked ==
    ASSUME LInv, Walk
    PROVE  Walked' /\ Described' /\ FoundOnce'
<1>1. /\ pc = "walk"
      /\ UNCHANGED <<up, asked, wire, served, excuses, expired, next, info>>
    BY WalkSteps
<1>2. next = 1 /\ ~returned
    BY <1>1 DEF LInv, Described, Finished
<1>3. CASE Leave(FALSE) /\ UNCHANGED <<addresses, backlog>>
    <2>1. pc' \in {"finally", "idle"} /\ returned' = FALSE
        BY <1>3 DEF Leave
    <2> QED  BY <1>3, <2>1 DEF Walked, Described, Finished, LInv, FoundOnce
<1>4. CASE pc' \in {"walk", "devices"} /\ UNCHANGED <<todo, returned>>
    <2>1. addresses' \in Seq(Addresses)
        BY WalkTyped DEF LInv, Typed
    <2>2. \A i \in DOMAIN addresses' : ~(i < 1)
        BY <2>1
    <2>3. Described'
        BY <1>1, <1>2, <1>4, <2>2 DEF Described, Finished
    <2>4. CASE UNCHANGED <<addresses, backlog>> /\ (expired \/ ~up)
        <3>1. ~Clean
            BY <1>1, <2>4 DEF LInv, Connected, Clean
        <3> QED  BY <1>1, <2>3, <2>4, <3>1 DEF Walked, Clean, LInv, FoundOnce
    <2>5. CASE /\ ~expired /\ backlog # <<>> /\ backlog' = Tail(backlog)
               /\ LET a == Head(backlog).argument
                  IN  IF a \in Terminators THEN pc' = "devices" /\ UNCHANGED addresses
                      ELSE /\ addresses' = IF Contains(addresses, a) THEN addresses
                                           ELSE Append(addresses, a)
                           /\ pc' = pc
        <3>1. Walked' /\ FoundOnce'
            BY <1>1, <1>4, <2>5, WalkFinds
        <3> QED  BY <2>3, <3>1
    <2>6. (UNCHANGED <<addresses, backlog>> /\ (expired \/ ~up)) \/ backlog # <<>>
        BY <1>2, <1>3, <1>4, WalkSteps DEF Leave
    <2> QED  BY <2>4, <2>5, <2>6, <1>4, WalkSteps, <1>3
<1> QED  BY <1>1, <1>3, <1>4, WalkSteps

\* All the requests to the device are left.
LEMMA AskDeviceWalked ==
    ASSUME LInv, AskDevice
    PROVE  Walked' /\ Described' /\ FoundOnce'
<1>1. /\ pc = "devices" /\ todo = <<>> /\ next <= Len(addresses) /\ next \in Nat \ {0}
      /\ todo' = DeviceRequests(addresses[next]) /\ next' = next + 1
      /\ UNCHANGED <<asked, wire, backlog, pc, expired, addresses, info, returned, served, excuses>>
    BY DEF AskDevice, LInv, Typed, line
<1>2. Walked'
    BY <1>1, WalkUntouched DEF LInv, Clean, Finished
<1>3. ~returned
    BY <1>1 DEF LInv, Described, Finished
<1>4. addresses \in Seq(Addresses)
    BY DEF LInv, Typed
<1>5. addresses[next] \in Addresses
    BY <1>1, <1>4
<1>6. ASSUME NEW i \in DOMAIN addresses, NEW m \in ToSet(DeviceMethods), i < next', ~expired
      PROVE  \/ <<addresses[i], m, addresses[i]>> \in info
             \/ \E j \in DOMAIN todo' : todo'[j] = Request(m, addresses[i])
    <2>1. i < next \/ i = next
        BY <1>1, <1>4, <1>6
    <2>2. CASE i < next
        <3>1. DOMAIN todo = {}
            BY <1>1
        <3> QED  BY <1>1, <1>6, <2>2, <3>1 DEF LInv, Described
    <2>3. CASE i = next
        BY <1>1, <1>5, <2>3, DeviceRequestsTyped
    <2> QED  BY <2>1, <2>2, <2>3
<1>7. Described'
    BY <1>1, <1>3, <1>6 DEF Described, Finished
<1> QED  BY <1>1, <1>2, <1>7 DEF LInv, FoundOnce

\* A call has a result when every device has been asked and has answered.
LEMMA AllDevicesWalked ==
    ASSUME LInv, AllDevices
    PROVE  Walked' /\ Described' /\ FoundOnce'
<1>1. /\ pc = "devices" /\ todo = <<>> /\ next > Len(addresses) /\ Leave(TRUE)
      /\ UNCHANGED <<asked, wire, backlog, expired, addresses, info, next, served, excuses>>
    BY DEF AllDevices, line, result
<1>2. pc' \in {"finally", "idle"} /\ returned' = TRUE
    BY <1>1 DEF Leave
<1>3. Walked'
    BY <1>1, <1>2, WalkUntouched DEF LInv, Clean
<1>4. DOMAIN todo = {}
    BY <1>1
<1>5. Described'
    BY <1>1, <1>2, <1>4 DEF Described, LInv, Finished
<1> QED  BY <1>1, <1>3, <1>5 DEF LInv, FoundOnce

LEMMA PropagateWalked ==
    ASSUME LInv, Raise \/ Cancel
    PROVE  Walked' /\ Described' /\ FoundOnce'
<1>1. Propagate /\ UNCHANGED addresses
    BY DEF Raise, Cancel, result
<1>2. pc' \in {"finally", "idle"} /\ returned' = FALSE
    BY <1>1 DEF Propagate, Leave
<1>3. Walked' /\ Described'
    BY <1>1, <1>2 DEF Walked, Described, Finished
<1> QED  BY <1>1, <1>3 DEF LInv, FoundOnce

LEMMA OthersWalked ==
    ASSUME LInv, Expire \/ Return \/ Reopen \/ (\E a \in Addresses : ChangeTopology(a)) \/ UNCHANGED vars
    PROVE  Walked' /\ Described' /\ FoundOnce'
<1>1. /\ UNCHANGED <<asked, wire, backlog, todo, addresses, info, next, served, excuses, returned>>
      /\ pc' = pc \/ (pc = "finally" /\ pc' = "idle")
      /\ expired' = expired \/ expired'
    BY DEF Expire, Return, Reopen, ChangeTopology, vars, line, result
<1>2. Finished' = Finished
    BY <1>1 DEF Finished
<1>3. Clean' => Clean
    BY <1>1 DEF Clean
<1>4. Walked'
    BY <1>1, <1>2, <1>3, WalkUntouched DEF LInv
<1>5. Described'
    BY <1>1, <1>2 DEF Described, LInv
<1> QED  BY <1>1, <1>4, <1>5 DEF LInv, FoundOnce

\* The gateway's listing goes to the end of a line that has no other.
LEMMA ServeAnswers ==
    ASSUME LInv, Serve, Asking, pc = "walk"
    PROVE  Asking' \/ Answered'
<1> DEFINE r == Head(asked)
<1>1. /\ asked \in Seq(Requests) /\ wire \in Seq(Replies \cup Others) /\ asked # <<>>
      /\ attached \subseteq Addresses
    BY DEF LInv, Typed, Serve
<1>2. /\ asked' = Tail(asked) /\ asked' \in Seq(Requests) /\ r \in Requests
      /\ r = asked[1] /\ 1 \in DOMAIN asked
      /\ \A i \in DOMAIN asked' : /\ i \in Nat /\ i + 1 \in DOMAIN asked /\ i + 1 # 1
                                  /\ asked'[i] = asked[i + 1]
    BY <1>1, TailOfSeq DEF Serve
<1>3. UNCHANGED <<backlog, addresses>> /\ backlog = <<>> /\ addresses = <<>>
      /\ wire \in Seq(Others)
    BY DEF Serve, Asking, result
<1>4. CASE IsInventory(r)
    <2>1. PICK end \in Terminators : wire' = wire \o Listing(end) /\ served' = attached
        BY <1>4, Ends DEF Serve
    <2>2. \A i \in DOMAIN asked' : ~IsInventory(asked'[i])
        BY <1>2, <1>4 DEF Asking
    <2>3. asked' \in Seq(Others)
        BY <1>2, <2>2, OtherRequests
    <2>4. /\ Listing(end) \in Seq(Replies)
          /\ \A i, j \in DOMAIN Listing(end) : i < j => Listing(end)[i].argument \notin Terminators
          /\ \A a \in Addresses :
                a \in attached <=> \E i \in DOMAIN Listing(end) : Listing(end)[i].argument = a
        BY <1>1, ListingTyped
    <2>5. \A i \in DOMAIN Listing(end) : IsInventory(Listing(end)[i])
        BY <2>4, Kinds
    <2>6. \A i \in DOMAIN wire : ~IsInventory(wire[i])
        BY <1>1, <1>3, OtherSeq
    <2> DEFINE L == Listing(end)
               n == Len(wire)
    <2> HIDE DEF L
    <2>7. /\ \A i \in DOMAIN L : n + i \in DOMAIN wire' /\ wire'[n + i] = L[i]
          /\ \A i \in DOMAIN wire' :
                \/ i \in DOMAIN wire /\ wire'[i] = wire[i]
                \/ i - n \in DOMAIN L /\ wire'[i] = L[i - n] /\ i > n
          /\ n \in Nat /\ DOMAIN wire' \subseteq Int
        <3>1. L \in Seq(Replies \cup Others)
            BY <2>4, LargerSet DEF L
        <3>2. wire' = wire \o L
            BY <2>1 DEF L
        <3>3. wire' \in Seq(Replies \cup Others)
            BY <1>1, <3>1, <3>2, JoinedSeq
        <3>4. n \in Nat /\ DOMAIN wire' \subseteq Int
            BY <1>1, <3>3
        <3> QED  BY <1>1, <3>1, <3>2, <3>4, JoinedSeq
    <2> HIDE DEF n
    <2>8. \A i \in DOMAIN wire' : IsInventory(wire'[i]) => i - n \in DOMAIN L /\ wire'[i] = L[i - n]
        BY <2>6, <2>7
    <2>9. EndsLast(wire')
        <3> SUFFICES ASSUME NEW i \in DOMAIN wire', NEW j \in DOMAIN wire', i < j,
                            IsInventory(wire'[i]), IsInventory(wire'[j])
                     PROVE  wire'[i].argument \notin Terminators
            BY DEF EndsLast
        <3>1. i - n \in DOMAIN L /\ j - n \in DOMAIN L /\ wire'[i] = L[i - n]
            BY <2>8
        <3>2. i - n < j - n
            BY <2>7
        <3> QED  BY <2>4, <3>1, <3>2 DEF L
    <2>10. ASSUME NEW a \in Addresses
           PROVE  a \in served' <=> Under(wire', a)
        <3>1. ASSUME a \in served' PROVE Under(wire', a)
            <4>1. PICK i \in DOMAIN L : L[i].argument = a
                BY <2>1, <2>4, <3>1 DEF L
            <4>2. n + i \in DOMAIN wire' /\ wire'[n + i] = L[i] /\ IsInventory(L[i])
                BY <2>5, <2>7 DEF L
            <4> QED  BY <4>1, <4>2 DEF Under
        <3>2. ASSUME Under(wire', a) PROVE a \in served'
            <4>1. PICK i \in DOMAIN wire' : IsInventory(wire'[i]) /\ wire'[i].argument = a
                BY <3>2 DEF Under
            <4>2. i - n \in DOMAIN L /\ L[i - n].argument = a
                BY <2>8, <4>1
            <4> QED  BY <2>1, <2>4, <4>2 DEF L
        <3> QED  BY <3>1, <3>2
    <2>11. backlog' = <<>> /\ addresses' = <<>>
        BY <1>3
    <2>12. \A a : ~Under(backlog', a) /\ ~Found(a)'
        BY <2>11 DEF Under, Found
    <2>13. EndsLast(backlog') /\ ~Ended(backlog')
        BY <2>11 DEF EndsLast, Ended
    <2> QED  BY <2>3, <2>9, <2>10, <2>12, <2>13 DEF Answered, EndsLast, Under, Ended
<1>5. CASE ~IsInventory(r)
    <2>1. wire' = wire \/ wire' = Append(wire, r)
        BY <1>5 DEF Serve
    <2>2. r \in Others
        BY <1>2, <1>5, Kinds
    <2> HIDE DEF r
    <2>3. wire' \in Seq(Others)
        BY <1>3, <2>1, <2>2, AppendToSeq
    <2>4. ASSUME NEW i \in DOMAIN asked', NEW j \in DOMAIN asked',
                 IsInventory(asked'[i]), IsInventory(asked'[j])
          PROVE  i = j
        <3>1. i + 1 = j + 1
            BY <1>2, <2>4 DEF Asking
        <3> QED  BY <1>2, <3>1
    <2> QED  BY <1>3, <2>3, <2>4 DEF Asking
<1> QED  BY <1>4, <1>5

\* Other messages are put on the line without moving the replies.
LEMMA OtherAppended ==
    ASSUME Typed, NEW r \in Others, wire' = Append(wire, r)
    PROVE  /\ wire \in Seq(Others) => wire' \in Seq(Others)
           /\ EndsLast(wire) => EndsLast(wire')
           /\ \A a : Under(wire', a) <=> Under(wire, a)
<1>1. wire \in Seq(Replies \cup Others) /\ ~IsInventory(r)
    BY Kinds DEF Typed
<1>2. /\ \A i \in DOMAIN wire : i \in DOMAIN wire' /\ wire'[i] = wire[i]
      /\ \A i \in DOMAIN wire' : i \in DOMAIN wire \/ wire'[i] = r
    BY <1>1, AppendToSeq
<1>3. wire \in Seq(Others) => wire' \in Seq(Others)
    BY AppendToSeq
<1>4. EndsLast(wire) => EndsLast(wire')
    BY <1>1, <1>2 DEF EndsLast
<1>5. \A a : Under(wire', a) <=> Under(wire, a)
    BY <1>1, <1>2 DEF Under
<1> QED  BY <1>3, <1>4, <1>5

LEMMA ServeQuiet ==
    ASSUME LInv, Serve, asked \in Seq(Others)
    PROVE  /\ asked' \in Seq(Others) /\ UNCHANGED <<served, backlog, addresses>>
           /\ wire \in Seq(Others) => wire' \in Seq(Others)
           /\ EndsLast(wire) => EndsLast(wire')
           /\ \A a : Under(wire', a) <=> Under(wire, a)
<1> DEFINE r == Head(asked)
<1>1. asked # <<>> /\ Typed
    BY DEF Serve, LInv
<1>2. r \in Others /\ Tail(asked) \in Seq(Others)
    BY <1>1, TailOfSeq
<1>3. ~IsInventory(r)
    BY <1>2, Kinds
<1>4. /\ asked' = Tail(asked) /\ UNCHANGED <<served, backlog, addresses>>
      /\ wire' = wire \/ wire' = Append(wire, r)
    BY <1>3 DEF Serve, result
<1> HIDE DEF r
<1>5. CASE wire' = wire
    <2>1. \A a : Under(wire', a) <=> Under(wire, a)
        BY <1>5 DEF Under
    <2>2. EndsLast(wire) => EndsLast(wire')
        BY <1>5 DEF EndsLast
    <2> QED  BY <1>2, <1>4, <1>5, <2>1, <2>2
<1>6. CASE wire' = Append(wire, r)
    BY <1>1, <1>2, <1>4, <1>6, OtherAppended
<1> QED  BY <1>4, <1>5, <1>6

LEMMA ServeWalked ==
    ASSUME LInv, Serve
    PROVE  Walked' /\ Described' /\ FoundOnce'
<1>1. UNCHANGED <<pc, todo, expired, backlog, addresses, info, next, returned>>
    BY DEF Serve, result
<1>2. Described' /\ FoundOnce'
    BY <1>1, DescribedUntouched DEF LInv, FoundOnce
<1>3. Clean' = Clean /\ Finished' = Finished /\ \A a : Found(a)' = Found(a)
    <2>1. excuses' \subseteq {"silenced"} <=> excuses \subseteq {"silenced"}
        BY DEF Serve
    <2> QED  BY <1>1, <2>1 DEF Clean, Finished, Found
<1>4. ASSUME Quiet PROVE Quiet' /\ served' = served
    BY <1>4, ServeQuiet DEF Quiet
<1>5. ASSUME Answered PROVE Answered'
    <2>1. asked \in Seq(Others)
        BY <1>5 DEF Answered
    <2>2. /\ asked' \in Seq(Others) /\ UNCHANGED <<served, backlog>>
          /\ wire \in Seq(Others) => wire' \in Seq(Others)
          /\ EndsLast(wire) => EndsLast(wire')
          /\ \A a : Under(wire', a) <=> Under(wire, a)
        BY <2>1, ServeQuiet
    <2>3. \A a \in Addresses : a \in served' <=> Found(a)' \/ Under(backlog', a) \/ Under(wire', a)
        BY <1>3, <1>5, <2>2 DEF Answered
    <2>4. EndsLast(wire') /\ EndsLast(backlog') /\ (Ended(backlog') => wire' \in Seq(Others))
        BY <1>5, <2>2 DEF Answered
    <2> QED  BY <2>2, <2>3, <2>4 DEF Answered, EndsLast, Under, Ended
<1>6. ASSUME pc = "walk", Asking PROVE Asking' \/ Answered'
    BY <1>6, ServeAnswers
<1>7. Walked'
    BY <1>1, <1>3, <1>4, <1>5, <1>6 DEF Walked, LInv
<1> QED  BY <1>2, <1>7

LEMMA LoseWalked ==
    ASSUME LInv, Lose
    PROVE  Walked' /\ Described' /\ FoundOnce'
<1>1. UNCHANGED <<pc, todo, expired, addresses, info, next, returned>> /\ "lost" \in excuses'
    BY DEF Lose, result
<1>2. Walked'
    BY <1>1 DEF Walked, Clean
<1> QED  BY <1>1, <1>2, DescribedUntouched DEF LInv, FoundOnce

LEMMA DownWalked ==
    ASSUME LInv, Down
    PROVE  Walked' /\ Described' /\ FoundOnce'
<1>1. UNCHANGED <<pc, todo, expired, addresses, info, next, returned>> /\ "lost" \in excuses'
    BY DEF Down, result
<1>2. Walked'
    BY <1>1 DEF Walked, Clean
<1> QED  BY <1>1, <1>2, DescribedUntouched DEF LInv, FoundOnce

LEMMA AnnounceWalked ==
    ASSUME LInv, Announce
    PROVE  Walked' /\ Described' /\ FoundOnce'
<1>1. UNCHANGED <<asked, backlog, pc, todo, expired, addresses, info, next, served, returned,
                  excuses>>
    BY DEF Announce, result
<1>2. Described' /\ FoundOnce'
    BY <1>1, DescribedUntouched DEF LInv, FoundOnce
<1>3. /\ wire \in Seq(Others) => wire' \in Seq(Others)
      /\ EndsLast(wire) => EndsLast(wire')
      /\ \A a : Under(wire', a) <=> Under(wire, a)
    BY AnnouncementIsOther, OtherAppended DEF Announce, LInv
<1>4. Clean' = Clean /\ Finished' = Finished /\ \A a : Found(a)' = Found(a)
    BY <1>1 DEF Clean, Finished, Found
<1>5. Quiet => Quiet'
    BY <1>1, <1>3 DEF Quiet
<1>6. Asking => Asking'
    BY <1>1, <1>3 DEF Asking
<1>7. ASSUME Answered PROVE Answered'
    <2>1. \A a \in Addresses : a \in served' <=> Found(a)' \/ Under(backlog', a) \/ Under(wire', a)
        BY <1>1, <1>3, <1>4, <1>7 DEF Answered
    <2>2. EndsLast(wire') /\ EndsLast(backlog') /\ (Ended(backlog') => wire' \in Seq(Others))
          /\ asked' \in Seq(Others)
        BY <1>1, <1>3, <1>7 DEF Answered
    <2> QED  BY <2>1, <2>2 DEF Answered, EndsLast, Under, Ended
<1>8. Walked'
    BY <1>1, <1>4, <1>5, <1>6, <1>7 DEF Walked, LInv
<1> QED  BY <1>2, <1>8

\* The inventory is asked for in a session that is up, and one that goes down loses it.
LEMMA StepConnected ==
    ASSUME Connected, [Next]_vars
    PROVE  Connected'
<1>1. CASE Send
    BY <1>1 DEF Send, Connected
<1>2. CASE Down
    BY <1>2 DEF Down, Connected
<1>3. CASE Walk
    <2>1. UNCHANGED <<up, excuses>> /\ pc = "walk"
        BY <1>3, WalkSteps
    <2> QED  BY <2>1 DEF Connected
<1>4. CASE Raise \/ Cancel \/ AllDevices \/ \E manage \in BOOLEAN : Discover(manage)
    <2>1. pc' # "walk"
        BY <1>4 DEF Raise, Cancel, AllDevices, Propagate, Leave, Discover
    <2> QED  BY <2>1 DEF Connected
<1>5. CASE Deliver \/ Expire \/ TimesOut \/ AskDevice \/ Return \/ Announce
           \/ (\E a \in Addresses : ChangeTopology(a)) \/ UNCHANGED vars
    <2>1. UNCHANGED <<up, excuses>> /\ (pc' = pc \/ pc' # "walk")
        BY <1>5 DEF Deliver, Expire, TimesOut, AskDevice, Return, Announce, ChangeTopology, vars, line
    <2> QED  BY <2>1 DEF Connected
<1>6. CASE Serve \/ Lose \/ Reopen
    <2>1. pc' = pc /\ (up' = up \/ up') /\ ("lost" \in excuses => "lost" \in excuses')
        BY <1>6 DEF Serve, Lose, Reopen
    <2> QED  BY <2>1 DEF Connected
<1> QED  BY <1>1, <1>2, <1>3, <1>4, <1>5, <1>6 DEF Next

LEMMA StepListed == LInv /\ [Next]_vars => LInv'
<1> SUFFICES ASSUME LInv, [Next]_vars PROVE LInv'
    OBVIOUS
<1>1. Typed' /\ Connected'
    BY StepTyped, StepConnected DEF LInv
<1>2. ASSUME NEW manage \in BOOLEAN, Discover(manage)
      PROVE  Walked' /\ Described' /\ FoundOnce'
    BY <1>2, DiscoverWalked DEF LInv
<1>3. CASE Expire \/ Return \/ Reopen \/ (\E a \in Addresses : ChangeTopology(a)) \/ UNCHANGED vars
    BY <1>1, <1>3, OthersWalked DEF LInv
<1>4. CASE Deliver
    BY <1>1, <1>4, DeliverWalked, DeliverDescribed DEF LInv
<1>5. CASE Raise \/ Cancel
    BY <1>1, <1>5, PropagateWalked DEF LInv
<1> QED  BY <1>1, <1>2, <1>3, <1>4, <1>5, SendWalked, TimesOutWalked, WalkWalked, AskDeviceWalked,
            AllDevicesWalked, ServeWalked, LoseWalked, DownWalked, AnnounceWalked DEF Next, LInv

-----------------------------------------------------------------------------
(* Reporting *)

On == ReportingState(TRUE)
Off == ReportingState(FALSE)
SetsReporting(r) == r.method = "REPORTING_STATE"

IsSequence(s) == \E S : s \in Seq(S)
IsRequest(r) == SetsReporting(r) => r \in {On, Off}
AreRequests(s) == IsSequence(s) /\ \A i \in DOMAIN s : IsRequest(s[i])

\* The call has no command left that turns reporting on.
Restored ==
    \/ pc = "idle" \/ ~manage_reporting
    \/ pc = "finally" /\ (waiting \/ todo = <<>>)

\* Every request under way that turns reporting off has one after it that does not.
OffThenOn ==
    \A i \in DOMAIN asked : SetsReporting(asked[i]) /\ asked[i] # On =>
        \E j \in DOMAIN asked : j > i /\ asked[j] = On

OnIsComing == reporting \/ \E j \in DOMAIN asked : asked[j] = On

Silenced == "silenced" \in excuses

\* The phases of the call, as far as they matter for reporting.
Phases ==
    /\ pc \in {"idle", "gateway", "walk", "devices", "finally"}
    /\ pc = "idle" => todo = <<>>
    /\ pc = "finally" => manage_reporting /\ todo \in {<<>>, <<On>>}
    /\ waiting => todo # <<>>
    /\ \A i \in DOMAIN todo : SetsReporting(todo[i]) => manage_reporting

IInv ==
    /\ AreRequests(asked) /\ AreRequests(todo)
    /\ reporting \in BOOLEAN
    /\ Phases
    /\ Restored /\ ~Silenced => OffThenOn /\ OnIsComing

-----------------------------------------------------------------------------
(* Sequences of requests *)

LEMMA OnIsRequest ==
    /\ SetsReporting(On) /\ On.argument = 1 /\ Off.argument = 0 /\ On # Off
    /\ AreRequests(<<On>>) /\ AreRequests(<<>>)
<1>1. /\ On.method = "REPORTING_STATE" /\ On.argument = 1 /\ Off.argument = 0 /\ On # Off
    BY DEF On, Off, ReportingState, Request, Message
<1>2. IsSequence(<<On>>) /\ IsSequence(<<>>)
    <2>1. <<On>> \in Seq({On}) /\ <<>> \in Seq({On})
        OBVIOUS
    <2> QED  BY <2>1 DEF IsSequence
<1> QED  BY <1>1, <1>2 DEF AreRequests, IsRequest, SetsReporting

LEMMA TailOfRequests ==
    ASSUME NEW s, AreRequests(s), s # <<>>
    PROVE  /\ AreRequests(Tail(s))
           /\ Head(s) = s[1] /\ 1 \in DOMAIN s
           /\ IsRequest(Head(s))
           /\ DOMAIN s \subseteq Nat
           /\ \A i \in DOMAIN Tail(s) : i + 1 \in DOMAIN s /\ Tail(s)[i] = s[i + 1]
           /\ \A i \in DOMAIN s : i > 1 => i - 1 \in DOMAIN Tail(s) /\ Tail(s)[i - 1] = s[i]
<1>1. PICK S : s \in Seq(S)
    BY DEF AreRequests, IsSequence
<1>2. /\ Tail(s) \in Seq(S) /\ Head(s) = s[1] /\ 1 \in DOMAIN s /\ DOMAIN s \subseteq Nat
      /\ \A i \in DOMAIN Tail(s) : i + 1 \in DOMAIN s /\ Tail(s)[i] = s[i + 1]
      /\ \A i \in DOMAIN s : i > 1 => i - 1 \in DOMAIN Tail(s) /\ Tail(s)[i - 1] = s[i]
    BY <1>1
<1>3. IsSequence(Tail(s))
    BY <1>2 DEF IsSequence
<1>4. \A i \in DOMAIN Tail(s) : IsRequest(Tail(s)[i])
    BY <1>2 DEF AreRequests
<1> QED  BY <1>2, <1>3, <1>4 DEF AreRequests

LEMMA AreRequestsDomain ==
    ASSUME NEW s, AreRequests(s), NEW i \in DOMAIN s
    PROVE  i \in Nat /\ i > 0
BY DEF AreRequests, IsSequence

LEMMA AppendRequest ==
    ASSUME NEW s, AreRequests(s), NEW r, IsRequest(r)
    PROVE  /\ AreRequests(Append(s, r))
           /\ DOMAIN s \subseteq DOMAIN Append(s, r) /\ DOMAIN Append(s, r) \subseteq Nat
           /\ \A i \in DOMAIN s : Append(s, r)[i] = s[i] /\ i < Len(s) + 1
           /\ \A i \in DOMAIN Append(s, r) : i \in DOMAIN s \/ i = Len(s) + 1
           /\ Len(s) + 1 \in DOMAIN Append(s, r) /\ Append(s, r)[Len(s) + 1] = r
<1>1. PICK S : s \in Seq(S)
    BY DEF AreRequests, IsSequence
<1>2. s \in Seq(S \cup {r})
    BY <1>1
<1>3. /\ Append(s, r) \in Seq(S \cup {r})
      /\ DOMAIN s \subseteq DOMAIN Append(s, r) /\ DOMAIN Append(s, r) \subseteq Nat
      /\ \A i \in DOMAIN s : Append(s, r)[i] = s[i] /\ i < Len(s) + 1
      /\ \A i \in DOMAIN Append(s, r) : i \in DOMAIN s \/ i = Len(s) + 1
      /\ Len(s) + 1 \in DOMAIN Append(s, r) /\ Append(s, r)[Len(s) + 1] = r
    BY <1>2
<1>4. IsSequence(Append(s, r))
    BY <1>3 DEF IsSequence
<1>5. \A i \in DOMAIN Append(s, r) : IsRequest(Append(s, r)[i])
    BY <1>3 DEF AreRequests
<1> QED  BY <1>3, <1>4, <1>5 DEF AreRequests

LEMMA SequenceOfRequests ==
    ASSUME NEW S, NEW s \in Seq(S), \A r \in S : IsRequest(r)
    PROVE  AreRequests(s) /\ \A i \in DOMAIN s : s[i] \in S
<1>1. \A i \in DOMAIN s : s[i] \in S
    OBVIOUS
<1> QED  BY <1>1 DEF AreRequests, IsSequence

\* What get_gateway_info and get_device_info ask for does not set reporting.
Queries(a) == {Request(m, a) : m \in STRING \ {"REPORTING_STATE"}}

LEMMA QueriesAreQuiet ==
    ASSUME NEW a, NEW r \in Queries(a)
    PROVE  IsRequest(r) /\ ~SetsReporting(r)
BY DEF Queries, Request, Message, SetsReporting, IsRequest

LEMMA MethodRequests ==
    ASSUME NEW methods \in Seq(STRING), "REPORTING_STATE" \notin ToSet(methods), NEW a
    PROVE  [i \in DOMAIN methods |-> Request(methods[i], a)] \in Seq(Queries(a))
<1>1. DOMAIN methods = 1 .. Len(methods) /\ Len(methods) \in Nat
    OBVIOUS
<1>2. \A i \in 1 .. Len(methods) : methods[i] \in STRING \ {"REPORTING_STATE"}
    BY <1>1 DEF ToSet
<1>3. \A i \in 1 .. Len(methods) : Request(methods[i], a) \in Queries(a)
    BY <1>2 DEF Queries
<1> QED  BY <1>1, <1>3

LEMMA DeviceRequestsAreQuiet ==
    ASSUME NEW a
    PROVE  /\ AreRequests(DeviceRequests(a))
           /\ \A i \in DOMAIN DeviceRequests(a) : ~SetsReporting(DeviceRequests(a)[i])
<1>1. DeviceMethods \in Seq(STRING) /\ "REPORTING_STATE" \notin ToSet(DeviceMethods)
    BY MethodAssumption
<1>2. DeviceRequests(a) \in Seq(Queries(a))
    BY <1>1, MethodRequests DEF DeviceRequests
<1> QED  BY <1>2, QueriesAreQuiet, SequenceOfRequests

\* Only a call that manages reporting sets it.
LEMMA GatewayRequestsManage ==
    ASSUME NEW manage \in BOOLEAN
    PROVE  /\ AreRequests(GatewayRequests(manage))
           /\ \A i \in DOMAIN GatewayRequests(manage) :
                SetsReporting(GatewayRequests(manage)[i]) => manage
<1> DEFINE S == Queries(0) \cup {Inventory} \cup (IF manage THEN {Off} ELSE {})
           first == IF manage THEN <<Off>> ELSE <<>>
           asks == [i \in DOMAIN GatewayMethods |-> Request(GatewayMethods[i], 0)]
<1>1. GatewayMethods \in Seq(STRING) /\ "REPORTING_STATE" \notin ToSet(GatewayMethods)
    BY MethodAssumption
<1>2. asks \in Seq(Queries(0))
    BY <1>1, MethodRequests
<1>3. IsRequest(Inventory) /\ ~SetsReporting(Inventory)
    BY DEF Inventory, Request, Message, SetsReporting, IsRequest
<1>4. first \in Seq(S) /\ asks \in Seq(S) /\ <<Inventory>> \in Seq(S)
    <2> HIDE DEF asks
    <2>1. asks \in Seq(S)
        <3>1. Queries(0) \subseteq S
            OBVIOUS
        <3> HIDE DEF S
        <3> QED  BY <1>2, <3>1, LargerSet
    <2>2. first \in Seq(S)
        <3>1. CASE manage
            <4>1. Off \in S
                BY <3>1
            <4>2. first = <<Off>>
                BY <3>1
            <4> HIDE DEF S, first
            <4> QED  BY <4>1, <4>2
        <3>2. CASE ~manage
            <4>1. first = <<>>
                BY <3>2
            <4> HIDE DEF S, first
            <4> QED  BY <4>1
        <3> QED  BY <3>1, <3>2
    <2>3. <<Inventory>> \in Seq(S)
        <3>1. Inventory \in S
            OBVIOUS
        <3> HIDE DEF S
        <3> QED  BY <3>1
    <2> QED  BY <2>1, <2>2, <2>3
<1>5. GatewayRequests(manage) = first \o asks \o <<Inventory>>
    BY DEF GatewayRequests, Off
<1> HIDE DEF first, asks
<1>6. GatewayRequests(manage) \in Seq(S)
    <2> HIDE DEF S
    <2> QED  BY <1>4, <1>5
<1>7. \A r \in S : IsRequest(r) /\ (SetsReporting(r) => manage)
    BY <1>3, QueriesAreQuiet DEF IsRequest
<1> HIDE DEF S
<1> QED  BY <1>6, <1>7, SequenceOfRequests

-----------------------------------------------------------------------------
(* What a step does to the requests under way *)

LEMMA NothingSent ==
    ASSUME IInv, UNCHANGED <<asked, reporting>>, Silenced' = Silenced,
           Restored' => Restored, AreRequests(todo'), Phases'
    PROVE  IInv'
<1>1. OffThenOn' = OffThenOn /\ OnIsComing' = OnIsComing /\ AreRequests(asked')
      /\ reporting' \in BOOLEAN
    BY DEF IInv, OffThenOn, OnIsComing
<1> QED  BY <1>1 DEF IInv

\* The requests left are a part of those there were.
LEMMA TailQuiet ==
    ASSUME AreRequests(todo), todo # <<>>, Phases, todo' = Tail(todo)
    PROVE  /\ AreRequests(todo')
           /\ \A i \in DOMAIN todo' : SetsReporting(todo'[i]) => manage_reporting
           /\ todo = <<On>> => todo' = <<>>
<1>1. todo = <<On>> => todo' = <<>>
    BY DEF Phases
<1> QED  BY <1>1, TailOfRequests DEF Phases

\* A request waits no more: it has been answered, or given up.
LEMMA AnsweredOrGivenUp ==
    ASSUME IInv, waiting, todo' = Tail(todo), waiting' = FALSE,
           UNCHANGED <<asked, reporting, pc, manage_reporting, excuses>>
    PROVE  IInv'
<1>1. todo # <<>> /\ AreRequests(todo) /\ Phases
    BY DEF IInv, Phases
<1>2. AreRequests(todo')
      /\ (\A i \in DOMAIN todo' : SetsReporting(todo'[i]) => manage_reporting)
      /\ (todo = <<On>> => todo' = <<>>)
    BY <1>1, TailQuiet
<1>3. Phases'
    BY <1>1, <1>2 DEF Phases
<1>4. Restored' => Restored
    BY DEF Restored
<1> QED  BY <1>2, <1>3, <1>4, NothingSent DEF Silenced

LEMMA DiscoverSafe ==
    ASSUME IInv, NEW manage \in BOOLEAN, Discover(manage)
    PROVE  IInv'
<1>1. AreRequests(todo')
      /\ \A i \in DOMAIN todo' : SetsReporting(todo'[i]) => manage_reporting'
    BY GatewayRequestsManage DEF Discover
<1>2. Phases'
    BY <1>1 DEF Discover, Phases
<1>3. Restored
    BY DEF Discover, Restored
<1>4. UNCHANGED <<asked, reporting>> /\ Silenced' = Silenced
    BY DEF Discover, gateway, line, Silenced
<1> QED  BY <1>1, <1>2, <1>3, <1>4, NothingSent

\* A command that turns reporting on is the last one; no other is sent by a call
\* that has none to come.
LEMMA SendSafe ==
    ASSUME IInv, Send
    PROVE  IInv'
<1> DEFINE r == Head(todo)
<1>1. AreRequests(todo) /\ AreRequests(asked) /\ todo # <<>> /\ Phases
    BY DEF IInv, Send
<1>2. IsRequest(r) /\ (SetsReporting(r) => manage_reporting)
    BY <1>1, TailOfRequests DEF Phases
<1>3. asked' = Append(asked, r) /\ UNCHANGED <<reporting, manage_reporting, excuses>>
      /\ pc # "idle" /\ ~waiting
    BY <1>1 DEF Send, gateway, line, Phases
<1>4. AreRequests(todo') /\ Phases'
    <2>1. CASE IsInventory(r)
        <3>1. pc' = "walk" /\ todo' = Tail(todo) /\ ~waiting'
            BY <2>1, <1>3 DEF Send
        <3>2. AreRequests(todo')
              /\ (\A i \in DOMAIN todo' : SetsReporting(todo'[i]) => manage_reporting)
            BY <1>1, <3>1, TailQuiet
        <3> QED  BY <3>1, <3>2, <1>3 DEF Phases
    <2>2. CASE ~IsInventory(r)
        <3>1. waiting' /\ UNCHANGED <<pc, todo>>
            BY <2>2 DEF Send
        <3> QED  BY <3>1, <1>1, <1>3 DEF Phases
    <2> QED  BY <2>1, <2>2
<1>5. AreRequests(asked')
    BY <1>1, <1>2, <1>3, AppendRequest
<1>6. CASE r = On
    <2>1. PICK n \in DOMAIN asked' : asked'[n] = On
                /\ \A i \in DOMAIN asked' : i = n \/ i < n
        <3>1. /\ Len(asked) + 1 \in DOMAIN asked' /\ asked'[Len(asked) + 1] = On
              /\ \A i \in DOMAIN asked' : i \in DOMAIN asked \/ i = Len(asked) + 1
              /\ \A i \in DOMAIN asked : i < Len(asked) + 1
            BY <1>1, <1>2, <1>3, <1>6, AppendRequest
        <3> QED  BY <3>1
    <2>2. DOMAIN asked' \subseteq Nat
        BY <1>1, <1>2, <1>3, AppendRequest
    <2>3. OffThenOn'
        BY <2>1, <2>2 DEF OffThenOn
    <2>4. OnIsComing'
        BY <2>1 DEF OnIsComing
    <2> QED  BY <1>3, <1>4, <1>5, <2>3, <2>4 DEF IInv
<1>7. CASE r # On /\ Restored'
    <2>1. pc # "finally"
        BY <1>1, <1>7 DEF Phases
    <2>2. ~manage_reporting
        <3>1. pc' # "idle" /\ pc' # "finally"
            BY <1>3, <2>1 DEF Send
        <3> QED  BY <1>3, <1>7, <3>1 DEF Restored
    <2>3. Restored /\ ~SetsReporting(r)
        BY <1>2, <2>2 DEF Restored
    <2>4. ~Silenced => OffThenOn /\ OnIsComing
        BY <2>3 DEF IInv
    <2>5. /\ DOMAIN asked \subseteq DOMAIN asked'
          /\ \A i \in DOMAIN asked : asked'[i] = asked[i]
          /\ \A i \in DOMAIN asked' : i \in DOMAIN asked \/ asked'[i] = r
        BY <1>1, <1>2, <1>3, AppendRequest
    <2>6. OffThenOn => OffThenOn'
        BY <2>3, <2>5 DEF OffThenOn
    <2>7. ~Silenced' => ~Silenced /\ OnIsComing'
        BY <1>3, <2>4, <2>5 DEF OnIsComing, Silenced
    <2> QED  BY <1>3, <1>4, <1>5, <2>4, <2>6, <2>7 DEF IInv
<1>8. CASE ~Restored'
    BY <1>3, <1>4, <1>5, <1>8 DEF IInv
<1> QED  BY <1>6, <1>7, <1>8

LEMMA DeliverSafe ==
    ASSUME IInv, Deliver
    PROVE  IInv'
<1>1. CASE waiting /\ Matches(Head(todo), Head(wire))
    <2>1. todo' = Tail(todo) /\ waiting' = FALSE
        BY <1>1 DEF Deliver
    <2> QED  BY <1>1, <2>1, AnsweredOrGivenUp DEF Deliver, gateway
<1>2. CASE ~(waiting /\ Matches(Head(todo), Head(wire)))
    <2>1. UNCHANGED <<asked, reporting, pc, todo, waiting, manage_reporting, excuses>>
        BY <1>2 DEF Deliver, gateway
    <2> QED  BY <2>1, NothingSent DEF IInv, Phases, Restored, Silenced
<1> QED  BY <1>1, <1>2

\* Where the call goes when it has a result, or raises.
LEMMA LeaveSafe ==
    ASSUME IInv, NEW ok, Leave(ok), pc \in {"gateway", "walk", "devices"},
           UNCHANGED <<asked, reporting, manage_reporting, excuses>>
    PROVE  IInv'
<1>1. AreRequests(todo') /\ \A i \in DOMAIN todo' : manage_reporting
    <2>1. CASE manage_reporting
        BY <2>1, OnIsRequest DEF Leave, On
    <2>2. CASE ~manage_reporting
        BY <2>2, OnIsRequest DEF Leave
    <2> QED  BY <2>1, <2>2
<1>2. Phases'
    BY <1>1 DEF Leave, Phases, On
<1>3. Restored' => Restored
    <2>1. ReportingState(TRUE) = On /\ <<On>> # <<>>
        BY DEF On
    <2> QED  BY <2>1 DEF Leave, Restored
<1> QED  BY <1>1, <1>2, <1>3, NothingSent DEF Silenced

\* A finally clause that an exception ends before the command is sent leaves the
\* gateway as it is.
LEMMA PropagateSafe ==
    ASSUME IInv, Propagate, pc # "idle", UNCHANGED <<asked, reporting, manage_reporting>>
    PROVE  IInv'
<1>1. CASE pc = "finally"
    <2>1. /\ waiting' = FALSE /\ pc' = "idle" /\ todo' = <<>>
          /\ Silenced' <=> Silenced \/ (todo # <<>> /\ ~waiting)
        BY <1>1 DEF Propagate, Silenced
    <2>2. AreRequests(todo') /\ Phases'
        BY <2>1, OnIsRequest DEF Phases
    <2>3. ~Silenced' => ~Silenced /\ Restored
        BY <1>1, <2>1 DEF Restored
    <2>4. OffThenOn' = OffThenOn /\ OnIsComing' = OnIsComing /\ AreRequests(asked')
          /\ reporting' \in BOOLEAN
        BY DEF IInv, OffThenOn, OnIsComing
    <2> QED  BY <2>2, <2>3, <2>4 DEF IInv
<1>2. CASE pc # "finally"
    BY <1>2, LeaveSafe DEF Propagate, IInv, Phases
<1> QED  BY <1>1, <1>2

\* Without its first request the order of the others is what it was.
LEMMA TailKeepsOrder ==
    ASSUME AreRequests(asked'), DOMAIN asked \subseteq Nat, OffThenOn,
           \A i \in DOMAIN asked' : i + 1 \in DOMAIN asked /\ asked'[i] = asked[i + 1],
           \A i \in DOMAIN asked : i > 1 => i - 1 \in DOMAIN asked' /\ asked'[i - 1] = asked[i]
    PROVE  OffThenOn'
<1> SUFFICES ASSUME OffThenOn, NEW i \in DOMAIN asked',
                    SetsReporting(asked'[i]), asked'[i] # On
             PROVE  \E j \in DOMAIN asked' : j > i /\ asked'[j] = On
    BY DEF OffThenOn
<1>1. PICK j \in DOMAIN asked : j > i + 1 /\ asked[j] = On
    BY DEF OffThenOn
<1>2. j - 1 \in DOMAIN asked' /\ j - 1 > i /\ asked'[j - 1] = On
    <2>1. i + 1 \in Nat /\ j \in Nat /\ i + 1 \in DOMAIN asked
        OBVIOUS
    <2>2. i + 1 > 0 /\ i \in Int
        BY <2>1, AreRequestsDomain
    <2> QED  BY <1>1, <2>1, <2>2
<1> QED  BY <1>2

\* Executing a command that turns reporting off leaves the one that is behind it.
LEMMA ServeSafe ==
    ASSUME IInv, Serve
    PROVE  IInv'
<1> DEFINE r == Head(asked)
<1>1. AreRequests(asked) /\ asked # <<>>
    BY DEF IInv, Serve
<1>2. /\ asked' = Tail(asked)
      /\ reporting' = (IF SetsReporting(r) THEN r.argument = 1 ELSE reporting)
      /\ UNCHANGED <<pc, todo, waiting, manage_reporting>>
      /\ excuses' = IF r = On /\ ~Contains(asked', Off) THEN excuses \ {"silenced"} ELSE excuses
    BY DEF Serve, On, Off, SetsReporting
<1>3. Silenced' <=> Silenced /\ ~(r = On /\ ~Contains(asked', Off))
    BY <1>2 DEF Silenced
<1>4. /\ AreRequests(asked') /\ r = asked[1] /\ 1 \in DOMAIN asked /\ IsRequest(r)
      /\ DOMAIN asked \subseteq Nat
      /\ \A i \in DOMAIN asked' : i + 1 \in DOMAIN asked /\ asked'[i] = asked[i + 1]
      /\ \A i \in DOMAIN asked : i > 1 => i - 1 \in DOMAIN asked' /\ asked'[i - 1] = asked[i]
    BY <1>1, <1>2, TailOfRequests
<1>5. OffThenOn => OffThenOn'
    BY <1>4, TailKeepsOrder
<1>6. ASSUME OffThenOn /\ OnIsComing, r # On
      PROVE  OnIsComing'
    <2>1. reporting' \/ \E j \in DOMAIN asked : j > 1 /\ asked[j] = On
        <3>1. CASE SetsReporting(r)
            BY <1>4, <1>6, <3>1 DEF OffThenOn
        <3>2. CASE ~SetsReporting(r)
            <4>1. reporting' = reporting
                BY <1>2, <3>2
            <4>2. reporting \/ \E j \in DOMAIN asked : asked[j] = On
                BY <1>6 DEF OnIsComing
            <4>3. \A j \in DOMAIN asked : j > 1 \/ asked[j] # On
                BY <1>1, <1>4, <1>6, AreRequestsDomain
            <4> QED  BY <4>1, <4>2, <4>3
        <3> QED  BY <3>1, <3>2
    <2> QED  BY <1>4, <2>1 DEF OnIsComing
<1>7. ASSUME r = On PROVE OnIsComing'
    BY <1>2, <1>7, OnIsRequest DEF OnIsComing
<1>8. ASSUME r = On, ~Contains(asked', Off)
      PROVE  OffThenOn'
    <2>1. \A i \in DOMAIN asked' : asked'[i] # Off
        <3>1. PICK S : asked' \in Seq(S)
            BY <1>4 DEF AreRequests, IsSequence
        <3> QED  BY <1>8, <3>1 DEF Contains
    <2>2. \A i \in DOMAIN asked' : SetsReporting(asked'[i]) => asked'[i] = On
        BY <1>4, <2>1 DEF AreRequests, IsRequest
    <2> QED  BY <2>2 DEF OffThenOn
<1>9. AreRequests(todo') /\ Phases' /\ Restored' = Restored /\ reporting' \in BOOLEAN
    BY <1>2 DEF IInv, Phases, Restored
<1>10. Restored /\ ~Silenced => OffThenOn /\ OnIsComing
    BY DEF IInv
<1>11. Restored /\ ~Silenced' => OffThenOn' /\ OnIsComing'
    BY <1>3, <1>5, <1>6, <1>7, <1>8, <1>10
<1> QED  BY <1>4, <1>9, <1>11 DEF IInv

\* What the line loses is the first request: all that was behind another still is.
LEMMA LoseSafe ==
    ASSUME IInv, Lose
    PROVE  IInv'
<1>1. UNCHANGED <<reporting, pc, todo, waiting, manage_reporting>>
    BY DEF Lose, gateway
<1>2. AreRequests(todo') /\ Phases' /\ Restored' = Restored /\ reporting' \in BOOLEAN
    BY <1>1 DEF IInv, Phases, Restored
<1>3. CASE UNCHANGED asked
    <2>1. OffThenOn' = OffThenOn /\ OnIsComing' = OnIsComing /\ AreRequests(asked')
        BY <1>1, <1>3 DEF IInv, OffThenOn, OnIsComing
    <2>2. ~Silenced' => ~Silenced
        BY DEF Lose, Silenced
    <2> QED  BY <1>2, <2>1, <2>2 DEF IInv
<1>4. CASE /\ asked # <<>> /\ asked' = Tail(asked)
           /\ excuses' = excuses \cup (IF Head(asked) = ReportingState(TRUE)
                                       THEN {"lost", "silenced"} ELSE {"lost"})
    <2>1. /\ AreRequests(asked') /\ Head(asked) = asked[1] /\ 1 \in DOMAIN asked
          /\ DOMAIN asked \subseteq Nat
          /\ \A i \in DOMAIN asked' : i + 1 \in DOMAIN asked /\ asked'[i] = asked[i + 1]
          /\ \A i \in DOMAIN asked : i > 1 => i - 1 \in DOMAIN asked' /\ asked'[i - 1] = asked[i]
        BY <1>4, TailOfRequests DEF IInv
    <2>2. OffThenOn => OffThenOn'
        BY <2>1, TailKeepsOrder
    <2>3. ~Silenced' => ~Silenced /\ Head(asked) # On
        BY <1>4 DEF Silenced, On
    <2>4. OnIsComing /\ ~Silenced' => OnIsComing'
        <3> SUFFICES ASSUME OnIsComing, ~Silenced', ~reporting
                     PROVE  \E j \in DOMAIN asked' : asked'[j] = On
            BY <1>1 DEF OnIsComing
        <3>1. PICK j \in DOMAIN asked : asked[j] = On
            BY DEF OnIsComing
        <3>2. j > 1
            BY <2>1, <2>3, <3>1, AreRequestsDomain DEF IInv
        <3> QED  BY <2>1, <3>1, <3>2
    <2> QED  BY <1>2, <2>1, <2>2, <2>3, <2>4 DEF IInv
<1> QED  BY <1>3, <1>4 DEF Lose

LEMMA DownSafe ==
    ASSUME IInv, Down
    PROVE  IInv'
<1>1. UNCHANGED <<reporting, pc, todo, waiting, manage_reporting>> /\ asked' = <<>>
      /\ excuses' = excuses \cup (IF Contains(asked, On) THEN {"lost", "silenced"} ELSE {"lost"})
    BY DEF Down, gateway, On
<1>2. Silenced' <=> Silenced \/ Contains(asked, On)
    BY <1>1 DEF Silenced
<1>3. AreRequests(todo') /\ Phases' /\ Restored' = Restored /\ reporting' \in BOOLEAN
    BY <1>1 DEF IInv, Phases, Restored
<1>4. AreRequests(asked') /\ OffThenOn'
    BY <1>1, OnIsRequest DEF OffThenOn
<1>5. ASSUME OnIsComing, ~Contains(asked, On)
      PROVE  OnIsComing'
    <2>1. PICK S : asked \in Seq(S)
        BY DEF IInv, AreRequests, IsSequence
    <2>2. \A i \in DOMAIN asked : asked[i] # On
        BY <1>5, <2>1 DEF Contains
    <2> QED  BY <1>1, <1>5, <2>2 DEF OnIsComing
<1> QED  BY <1>2, <1>3, <1>4, <1>5 DEF IInv

LEMMA StepPreserves == IInv /\ [Next]_vars => IInv'
<1> SUFFICES ASSUME IInv, [Next]_vars PROVE IInv'
    OBVIOUS
<1>1. ASSUME NEW manage \in BOOLEAN, Discover(manage) PROVE IInv'
    BY <1>1, DiscoverSafe
<1>2. CASE Expire \/ Reopen \/ Announce \/ UNCHANGED vars \/ \E a \in Addresses : ChangeTopology(a)
    <2>1. UNCHANGED <<asked, reporting, pc, todo, waiting, manage_reporting, excuses>>
        BY <1>2 DEF Expire, Reopen, Announce, ChangeTopology, vars, gateway, line
    <2> QED  BY <2>1, NothingSent DEF IInv, Phases, Restored, Silenced
<1>3. CASE TimesOut
    BY <1>3, AnsweredOrGivenUp DEF TimesOut, gateway, line
<1>4. CASE Walk
    <2>1. pc = "walk" /\ UNCHANGED <<asked, reporting, manage_reporting, excuses>>
        BY <1>4, WalkSteps
    <2>2. CASE Leave(FALSE)
        <3>1. pc \in {"gateway", "walk", "devices"}
            BY <2>1
        <3> QED  BY <2>1, <2>2, <3>1, LeaveSafe, Zenon
    <2>3. CASE pc' \in {"walk", "devices"} /\ UNCHANGED <<todo, waiting>>
        <3>1. Phases' /\ AreRequests(todo') /\ (Restored' => Restored)
            BY <2>1, <2>3 DEF IInv, Phases, Restored
        <3> QED  BY <2>1, <3>1, NothingSent DEF Silenced
    <2> QED  BY <1>4, <2>2, <2>3, WalkSteps
<1>5. CASE AskDevice
    <2>1. /\ pc = "devices" /\ todo = <<>> /\ todo' = DeviceRequests(addresses[next])
          /\ UNCHANGED <<asked, reporting, pc, waiting, manage_reporting, excuses>>
        BY <1>5 DEF AskDevice, gateway, line
    <2>2. AreRequests(todo') /\ \A i \in DOMAIN todo' : ~SetsReporting(todo'[i])
        BY <2>1, DeviceRequestsAreQuiet
    <2>3. Phases' /\ (Restored' => Restored)
        BY <2>1, <2>2 DEF IInv, Phases, Restored
    <2> QED  BY <2>1, <2>2, <2>3, NothingSent DEF Silenced
<1>6. CASE AllDevices
    BY <1>6, LeaveSafe DEF AllDevices, gateway, line
<1>7. CASE Raise \/ Cancel
    <2>1. Propagate /\ pc # "idle" /\ UNCHANGED <<asked, reporting, manage_reporting>>
        BY <1>7 DEF Raise, Cancel, gateway, line, IInv, Phases
    <2> QED  BY <2>1, PropagateSafe
<1>8. CASE Return
    <2>1. pc = "finally" /\ todo = <<>> /\ pc' = "idle"
          /\ UNCHANGED <<asked, reporting, todo, waiting, manage_reporting, excuses>>
        BY <1>8 DEF Return, gateway, line
    <2>2. Phases' /\ AreRequests(todo') /\ Restored
        BY <2>1 DEF IInv, Phases, Restored
    <2> QED  BY <2>1, <2>2, NothingSent DEF Silenced
<1> QED  BY <1>1, <1>2, <1>3, <1>4, <1>5, <1>6, <1>7, <1>8, SendSafe, DeliverSafe,
            ServeSafe, LoseSafe, DownSafe DEF Next

-----------------------------------------------------------------------------
(* The theorems *)

\* Reporting is on when a call has ended and the line is empty, whatever timed out, was
\* cancelled or failed, unless the command that turns it on was not sent, because the
\* session is down or the finally clause was cancelled, or was lost; and from then on it
\* holds again when a later call has turned it on (client.py:445-474).
THEOREM ReportingIsRestored == Spec => []ReportingRestored
<1>1. Init => IInv
    BY OnIsRequest DEF Init, IInv, Phases, Restored, OffThenOn, OnIsComing
<1>2. IInv => ReportingRestored
    <2>1. asked = <<>> => ~ \E j \in DOMAIN asked : asked[j] = On
        OBVIOUS
    <2> QED  BY <2>1 DEF IInv, ReportingRestored, Restored, OnIsComing, Silenced
<1> QED  BY <1>1, <1>2, StepPreserves, PTL DEF Spec

\* The state and the line of a discover() have the form the code gives them, whatever
\* comes late: a response is waited for in the phases that have requests only, the
\* inventory is requested last, and the backlog holds replies to it
\* (client.py:355-474).
THEOREM TypesAreRight == Spec => []TypeOK
<1>1. Spec => []Typed
    BY AlwaysTyped
<1> QED  BY <1>1, TypedIsTypeOK, PTL

\* A call that has a result, in time and with nothing lost or left over, has found the
\* devices that the gateway listed, once each, and all of their metadata: the replies
\* stay in order from the line through the backlog to the walk, late answers to
\* earlier requests notwithstanding (client.py:341-474).
THEOREM AllDevicesAreFound == Spec => []FindsAllDevices
<1>1. Init => LInv
    <2> SUFFICES ASSUME Init PROVE LInv
        OBVIOUS
    <2>1. Typed
        BY InitTyped
    <2>2. pc = "idle" /\ ~returned /\ addresses = <<>>
        BY DEF Init
    <2>3. Walked /\ Described /\ FoundOnce /\ Connected
        BY <2>2 DEF Walked, Described, FoundOnce, Finished, IsInjective, Connected
    <2> QED  BY <2>1, <2>3 DEF LInv
<1>2. LInv => FindsAllDevices
    <2> SUFFICES ASSUME LInv, pc = "idle", returned, ~expired, excuses \subseteq {"silenced"}
                 PROVE  /\ IsInjective(addresses)
                        /\ ToSet(addresses) = served
                        /\ \A a \in served, m \in ToSet(DeviceMethods) : <<a, m, a>> \in info
        BY DEF FindsAllDevices
    <2>1. Finished /\ Clean
        BY DEF Finished, Clean
    <2>2. \A a \in Addresses : a \in served <=> Found(a)
        BY <2>1 DEF LInv, Walked
    <2>3. addresses \in Seq(Addresses) /\ served \subseteq Addresses /\ next \in Nat
        BY DEF LInv, Typed
    <2>4. ToSet(addresses) = served
        <3>1. ToSet(addresses) \subseteq Addresses
            BY <2>3 DEF ToSet
        <3>2. \A a : a \in ToSet(addresses) <=> Found(a)
            BY DEF ToSet, Found
        <3> QED  BY <2>2, <2>3, <3>1, <3>2
    <2>5. next > Len(addresses)
        BY <2>1 DEF LInv, Described
    <2>6. ASSUME NEW a \in served, NEW m \in ToSet(DeviceMethods)
          PROVE  <<a, m, a>> \in info
        <3>1. PICK i \in DOMAIN addresses : addresses[i] = a
            BY <2>2, <2>3 DEF Found
        <3>2. i < next
            BY <2>3, <2>5
        <3> QED  BY <2>1, <3>1, <3>2 DEF LInv, Described
    <2> QED  BY <2>4, <2>6 DEF LInv, FoundOnce
<1> QED  BY <1>1, <1>2, StepListed, PTL DEF Spec

==============================================================================

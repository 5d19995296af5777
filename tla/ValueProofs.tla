----------------------------- MODULE ValueProofs -----------------------------
(***************************************************************************)
(* For every network, every choice of watched values, settings, tasks and  *)
(* bounds: the values that the state shows are the present ones or there   *)
(* is a cause, and what a setter says it has set, it has.                  *)
(*                                                                         *)
(* The first rests on these facts.  What a message packs is what it        *)
(* unpacks to, as long as the value fits its field, and every value of the *)
(* network does (VInv).  A value is fresh if there is a cause, if the last *)
(* message about it that the report loop has yet to read says what it is,  *)
(* or if the state shows it: every step keeps a fresh value fresh or, if   *)
(* it is not fresh, leaves it alone (Kept); the reducer puts the value of  *)
(* a message into its place and disturbs no other.  A state shows nothing  *)
(* of a value that is not fresh (SInv), and a poll brings what is still so *)
(* (Brings) although its exchanges take place one after the other.         *)
(*                                                                         *)
(* The second: a value that was confirmed is one that the device's echo    *)
(* says it was given, since the answer repeats the body of the command;    *)
(* and the units round to the nearest step.  What packing a value into its *)
(* field loses need not be known: the echo is compared with what was asked *)
(* for.                                                                    *)
(***************************************************************************)
EXTENDS RuntimeProofs

-----------------------------------------------------------------------------
(* What is packed is unpacked again, as long as it fits *)

LEMMA FlattenOne ==
    ASSUME NEW a
    PROVE  FlattenSeq(<<a>>) = a
<1> DEFINE f == CHOOSE g : Flattens(g, <<a>>, 1)
<1>1. Flattens(f, <<a>>, 1)
    BY FlattensExists
<1>2. Len(<<a>>) = 1 /\ <<a>>[1] = a
    OBVIOUS
<1>3. FlattenSeq(<<a>>) = f[1]
    BY <1>2 DEF FlattenSeq, Flattens
<1> HIDE DEF f
<1>4. f[1] = a
    BY <1>1, <1>2 DEF Flattens
<1> QED  BY <1>3, <1>4

LEMMA FlattenTwo ==
    ASSUME NEW a, NEW b
    PROVE  FlattenSeq(<<a, b>>) = a \o b
<1> DEFINE f == CHOOSE g : Flattens(g, <<a, b>>, 2)
<1>1. Flattens(f, <<a, b>>, 2)
    BY FlattensExists
<1>2. Len(<<a, b>>) = 2 /\ <<a, b>>[1] = a /\ <<a, b>>[2] = b
    OBVIOUS
<1>3. FlattenSeq(<<a, b>>) = f[2]
    BY <1>2 DEF FlattenSeq, Flattens
<1> HIDE DEF f
<1>4. f[1] = a /\ f[2] = f[1] \o b
    <2> DEFINE s == <<a, b>>
    <2> HIDE DEF s
    <2>1. \A i \in 1 .. 2 : f[i] = IF i = 1 THEN s[i] ELSE f[i - 1] \o s[i]
        BY <1>1 DEF Flattens, s
    <2>2. f[1] = s[1]
        BY <2>1
    <2>3. 2 \in 1 .. 2 /\ 2 # 1 /\ 2 - 1 = 1
        OBVIOUS
    <2>4. f[2] = f[2 - 1] \o s[2]
        BY <2>1, <2>3
    <2>5. f[2] = f[1] \o s[2]
        BY <2>3, <2>4
    <2> QED  BY <1>2, <2>2, <2>5 DEF s
<1> QED  BY <1>3, <1>4

\* The number that one byte, or two, stand for.
LEMMA UnpackedBytes ==
    /\ \A data \in [1 .. 1 -> Byte] : _unpack_int(data) = data[1]
    /\ \A data \in [1 .. 2 -> Byte] : _unpack_int(data) = data[1] + 256 * data[2]
<1>1. ASSUME NEW size \in 1 .. 2, NEW data \in [1 .. size -> Byte]
      PROVE  _unpack_int(data) = IF size = 1 THEN data[1] ELSE data[1] + 256 * data[2]
    <2> DEFINE f == CHOOSE g : Sums(g, data, size)
    <2>1. Len(data) = size
        OBVIOUS
    <2>2. Sums(f, data, size)
        BY SumsExists
    <2>3. _unpack_int(data) = f[size]
        BY <2>1 DEF _unpack_int, Sums
    <2> HIDE DEF f
    <2>4. \A i \in 0 .. size : f[i] = IF i = 0 THEN 0 ELSE f[i - 1] + data[i] * Place[i]
        BY <2>2 DEF Sums
    <2>5. Place[1] = 1 /\ Place[2] = 256
        BY DEF Place
    <2>6. \A i \in 1 .. size : data[i] \in Int
        <3>1. \A i \in 1 .. size : data[i] \in Byte
            OBVIOUS
        <3>2. Byte \subseteq Int
            BY DEF Byte
        <3> QED  BY <3>1, <3>2
    <2>7. f[1] = data[1]
        BY <2>4, <2>5, <2>6
    <2>8. CASE size = 1
        BY <2>3, <2>7, <2>8
    <2>9. CASE size = 2
        <3>1. f[2] = f[1] + data[2] * Place[2]
            BY <2>4, <2>9
        <3> QED  BY <2>3, <2>5, <2>6, <2>7, <2>9, <3>1
    <2> QED  BY <2>8, <2>9
<1> QED  BY <1>1

\* What fits a field of one or two bytes.
Fits(size) == {value \in Nat : value < IF size = 1 THEN 256 ELSE 65536}

LEMMA PackedUnpacks ==
    ASSUME NEW size \in 1 .. 2, NEW value \in Fits(size)
    PROVE  /\ _pack_int(value, size) \in [1 .. size -> Byte]
           /\ _unpack_int(_pack_int(value, size)) = value
<1>1. Place[1] = 1 /\ Place[2] = 256
    BY DEF Place
<1>2. value \in Nat
    BY DEF Fits
<1>3. CASE size = 1
    <2>1. (value \div Place[1]) % 256 = value /\ value \in Byte
        BY <1>1, <1>3 DEF Fits, Byte
    <2>2. _pack_int(value, size) = [i \in 1 .. 1 |-> value]
        BY <1>3, <2>1 DEF _pack_int
    <2>3. [i \in 1 .. 1 |-> value] \in [1 .. 1 -> Byte]
        BY <2>1
    <2> QED  BY <1>3, <2>2, <2>3, UnpackedBytes
<1>4. CASE size = 2
    <2>1. PICK low \in Byte, high \in Byte :
                /\ low = (value \div Place[1]) % 256 /\ high = (value \div Place[2]) % 256
                /\ value = low + 256 * high
        <3>1. value < 65536
            BY <1>4 DEF Fits
        <3> DEFINE l == (value \div 1) % 256
                   h == (value \div 256) % 256
        <3>2. l \in Byte /\ h \in Byte
            BY <1>2 DEF Byte
        <3>3. value = l + 256 * h
            BY <1>2, <3>1
        <3>4. l = (value \div Place[1]) % 256 /\ h = (value \div Place[2]) % 256
            BY <1>1
        <3> HIDE DEF l, h
        <3> QED  BY <3>2, <3>3, <3>4
    <2> DEFINE packed == _pack_int(value, size)
    <2>2. packed[1] = low /\ packed[2] = high /\ packed = [i \in 1 .. 2 |-> packed[i]]
        BY <1>4, <2>1 DEF _pack_int
    <2> HIDE DEF packed
    <2>3. packed \in [1 .. 2 -> Byte]
        BY <2>2
    <2>4. _unpack_int(packed) = packed[1] + 256 * packed[2]
        BY <2>3, UnpackedBytes
    <2> QED  BY <1>4, <2>1, <2>2, <2>3, <2>4 DEF packed
<1> QED  BY <1>3, <1>4

LEMMA OffsetsOfTwo ==
    ASSUME NEW spec, spec[1].size \in Nat
    PROVE  Offset(spec, 1) = 0 /\ Offset(spec, 2) = spec[1].size
<1> DEFINE Total(f, n) == f = [i \in 0 .. n |-> IF i = 0 THEN 0 ELSE f[i - 1] + spec[i].size]
           first == CHOOSE f : Total(f, 0)
           second == CHOOSE f : Total(f, 1)
           one == [i \in 0 .. 1 |-> IF i = 0 THEN 0 ELSE spec[1].size]
<1>1. Total([i \in 0 .. 0 |-> 0], 0)
    OBVIOUS
<1>2. Total(one, 1)
    <2>1. one[0] = 0 /\ one[1] = spec[1].size
        OBVIOUS
    <2>2. \A i \in 0 .. 1 : one[i] = IF i = 0 THEN 0 ELSE one[i - 1] + spec[i].size
        <3>1. one[1] = one[0] + spec[1].size
            BY <2>1
        <3> HIDE DEF one
        <3>2. ASSUME NEW i \in 0 .. 1
              PROVE  one[i] = IF i = 0 THEN 0 ELSE one[i - 1] + spec[i].size
            <4>1. i = 0 \/ (i = 1 /\ i - 1 = 0)
                OBVIOUS
            <4> QED  BY <2>1, <3>1, <4>1
        <3> QED  BY <3>2
    <2>3. one = [i \in 0 .. 1 |-> one[i]]
        OBVIOUS
    <2> HIDE DEF one
    <2> QED  BY <2>2, <2>3
<1>3. Total(first, 0) /\ Total(second, 1)
    BY <1>1, <1>2
<1>4. Offset(spec, 1) = first[0] /\ Offset(spec, 2) = second[1]
    BY DEF Offset
<1> HIDE DEF first, second
<1>5. first[0] = 0
    BY <1>3
<1>6. second[0] = 0 /\ 1 - 1 = 0 /\ 1 \in 0 .. 1
    BY <1>3
<1>7. second[1] = second[1 - 1] + spec[1].size
    BY <1>3, <1>6
<1> QED  BY <1>4, <1>5, <1>6, <1>7

Bytes(size) == [1 .. size -> Byte]
Says(body, names, name, value) == DOMAIN body = names /\ body[name] = value

\* A body of one field, and one of two.
OneField(method, a, m) ==
    method \in DOMAIN METHOD_SPECS /\ METHOD_SPECS[method] = <<Field(a, m)>>
TwoFields(method, a, m, b, n) ==
    /\ method \in DOMAIN METHOD_SPECS /\ a # b
    /\ METHOD_SPECS[method] = <<Field(a, m), Field(b, n)>>

LEMMA OneFieldUnpacked ==
    ASSUME NEW method, NEW a, NEW m \in 1 .. 2, OneField(method, a, m),
           NEW p \in Bytes(m)
    PROVE  Says(UnpackedBody(method, p), {a}, a, _unpack_int(p))
<1> DEFINE spec == METHOD_SPECS[method]
           at(name) == CHOOSE j \in DOMAIN spec : spec[j].name = name
           bytes(i) == [j \in 1 .. spec[i].size |-> ByteAt(p, Offset(spec, i) + j)]
<1>1. DOMAIN spec = 1 .. 1 /\ spec[1].name = a /\ spec[1].size = m
    BY DEF Field, OneField
<1>2. UnpackedBody(method, p)
            = [name \in {spec[i].name : i \in DOMAIN spec} |-> _unpack_int(bytes(at(name)))]
    BY DEF UnpackedBody, Known, OneField
<1> HIDE DEF spec
<1>3. {spec[i].name : i \in DOMAIN spec} = {a}
    BY <1>1
<1>4. at(a) = 1
    BY <1>1
<1>5. bytes(1) = p
    <2>1. Offset(spec, 1) = 0
        BY <1>1, OffsetsOfTwo
    <2>2. \A j \in 1 .. m : ByteAt(p, 0 + j) = p[j]
        BY DEF ByteAt, Bytes
    <2>3. bytes(1) = [j \in 1 .. m |-> p[j]]
        BY <1>1, <2>1, <2>2
    <2> QED  BY <2>3 DEF Bytes
<1> HIDE DEF bytes, at
<1> QED  BY <1>2, <1>3, <1>4, <1>5 DEF Says

LEMMA TwoFieldsUnpacked ==
    ASSUME NEW method, NEW a, NEW m \in 1 .. 2, NEW b, NEW n \in 1 .. 2,
           TwoFields(method, a, m, b, n),
           NEW p \in Bytes(m), NEW q \in Bytes(n)
    PROVE  /\ Says(UnpackedBody(method, p \o q), {a, b}, a, _unpack_int(p))
           /\ Says(UnpackedBody(method, p \o q), {a, b}, b, _unpack_int(q))
<1> DEFINE spec == METHOD_SPECS[method]
           data == p \o q
           at(name) == CHOOSE j \in DOMAIN spec : spec[j].name = name
           bytes(i) == [j \in 1 .. spec[i].size |-> ByteAt(data, Offset(spec, i) + j)]
<1>1. /\ DOMAIN spec = 1 .. 2 /\ spec[1].name = a /\ spec[1].size = m
      /\ spec[2].name = b /\ spec[2].size = n /\ a # b
    BY DEF Field, TwoFields
<1>2. UnpackedBody(method, data)
            = [name \in {spec[i].name : i \in DOMAIN spec} |-> _unpack_int(bytes(at(name)))]
    BY DEF UnpackedBody, Known, TwoFields
<1>3. /\ DOMAIN data = 1 .. m + n
      /\ \A j \in 1 .. m : data[j] = p[j]
      /\ \A j \in 1 .. n : data[m + j] = q[j]
    <2>1. Len(p) = m /\ Len(q) = n /\ p \in Seq(Byte) /\ q \in Seq(Byte)
        BY DEF Bytes
    <2>2. \A r, s \in Seq(Byte) :
            /\ DOMAIN (r \o s) = 1 .. Len(r) + Len(s)
            /\ \A j \in 1 .. Len(r) : (r \o s)[j] = r[j]
            /\ \A j \in 1 .. Len(s) : (r \o s)[Len(r) + j] = s[j]
        OBVIOUS
    <2>3. /\ DOMAIN (p \o q) = 1 .. Len(p) + Len(q)
          /\ \A j \in 1 .. Len(p) : (p \o q)[j] = p[j]
          /\ \A j \in 1 .. Len(q) : (p \o q)[Len(p) + j] = q[j]
        BY <2>1, <2>2
    <2> QED  BY <2>1, <2>3
<1> HIDE DEF spec, data
<1>4. {spec[i].name : i \in DOMAIN spec} = {a, b}
    BY <1>1
<1>5. at(a) = 1 /\ at(b) = 2
    BY <1>1
<1>6. Offset(spec, 1) = 0 /\ Offset(spec, 2) = m
    BY <1>1, OffsetsOfTwo
<1>7. bytes(1) = p
    <2>1. \A j \in 1 .. m : ByteAt(data, 0 + j) = p[j]
        BY <1>3 DEF ByteAt
    <2>2. bytes(1) = [j \in 1 .. m |-> p[j]]
        BY <1>1, <1>6, <2>1
    <2> QED  BY <2>2 DEF Bytes
<1>8. bytes(2) = q
    <2>1. \A j \in 1 .. n : ByteAt(data, m + j) = q[j]
        BY <1>3 DEF ByteAt
    <2>2. bytes(2) = [j \in 1 .. n |-> q[j]]
        BY <1>1, <1>6, <2>1
    <2> QED  BY <2>2 DEF Bytes
<1> HIDE DEF bytes, at
<1> QED  BY <1>2, <1>4, <1>5, <1>7, <1>8 DEF data, Says

-----------------------------------------------------------------------------
(* Messages about what is watched *)

LEMMA GatewaySpecs ==
    ASSUME NEW method \in PolledMethods
    PROVE  /\ method \in DOMAIN METHOD_SPECS
           /\ \E name \in Names : \E size \in 1 .. 2 :
                OneField(method, name, size)
<1>1. method \in {"NETWORK_ERROR", "OUTDOOR_TEMP", "REPORTING_STATE", "SETBACK_ENABLE"}
    BY DEF PolledMethods, GATEWAY_METHODS
<1>2. METHOD_SPECS[method] \in
        {<<Field("error", 2)>>, <<Field("temp", 2)>>, <<Field("state", 1)>>, <<Field("enable", 1)>>}
    BY <1>1 DEF METHOD_SPECS, GatewayBody
<1>3. {"error", "temp", "state", "enable"} \subseteq Names
    BY DEF Names
<1>4. method \in DOMAIN METHOD_SPECS
    BY <1>1 DEF METHOD_SPECS
<1> HIDE DEF Field
<1>5. OneField(method, "error", 2) \/ OneField(method, "temp", 2)
      \/ OneField(method, "state", 1) \/ OneField(method, "enable", 1)
    BY <1>2, <1>4 DEF OneField
<1> QED  BY <1>3, <1>4, <1>5

LEMMA DeviceSpecs ==
    ASSUME NEW method \in DEVICE_VALUE_METHODS
    PROVE  /\ method \in DOMAIN METHOD_SPECS
           /\ \E name \in Names \ {"address"} : \E size \in 1 .. 2 :
                TwoFields(method, "address", 2, name, size)
<1>1. method \in {"ACTIVE_DEMAND", "CURRENT_FLOOR_TEMPERATURE", "CURRENT_TEMPERATURE",
                  "MODE_SETTING", "SETBACK_STATE", "RELATIVE_HUMIDITY", "HUMIDITY_SET_MAX",
                  "HUMIDITY_SET_MIN"}
    BY DEF DEVICE_VALUE_METHODS, HumidityMethods
<1>2. METHOD_SPECS[method] \in
        {<<Field("address", 2), Field("demand", 1)>>, <<Field("address", 2), Field("temp", 2)>>,
         <<Field("address", 2), Field("mode", 1)>>, <<Field("address", 2), Field("setback", 1)>>,
         <<Field("address", 2), Field("percent", 1)>>}
    BY <1>1 DEF METHOD_SPECS, DeviceBody
<1>3. {"demand", "temp", "mode", "setback", "percent"} \subseteq Names \ {"address"}
    BY DEF Names
<1>4. method \in DOMAIN METHOD_SPECS
    BY <1>1 DEF METHOD_SPECS
<1> HIDE DEF Field
<1>5. \E name \in {"demand", "temp", "mode", "setback", "percent"} : \E size \in 1 .. 2 :
            TwoFields(method, "address", 2, name, size)
    BY <1>2, <1>4 DEF TwoFields
<1> QED  BY <1>3, <1>4, <1>5

LEMMA GroupSpec ==
    TwoFields("SETPOINT_GROUP_ENABLE", "group_id", 1, "enable", 1)
BY DEF METHOD_SPECS, TwoFields

\* The value of the gateway, of a group or of a device.
OfGateway(k) == k[1] = 0 /\ k[2] \in PolledMethods
OfGroup(k) == k[1] \in Groups /\ k[2] = "SETPOINT_GROUP_ENABLE"
OfDevice(k) == k[1] \in Address /\ k[2] \in DEVICE_VALUE_METHODS

LEMMA WatchedKinds ==
    ASSUME NEW k \in Watched
    PROVE  k = Key(k[1], k[2]) /\ (OfGateway(k) \/ OfGroup(k) \/ OfDevice(k))
<1>1. k \in GatewayKeys \/ k \in Address \X DEVICE_VALUE_METHODS
    BY WatchedAssumption
<1>2. CASE k \in GatewayKeys
    BY <1>2 DEF GatewayKeys, Key, OfGateway, OfGroup
<1>3. CASE k \in Address \X DEVICE_VALUE_METHODS
    BY <1>3 DEF OfDevice, Key
<1> QED  BY <1>1, <1>2, <1>3

\* A value that the field of a method has room for.
Roomy(method) == 0 .. Room(method) - 1

LEMMA RoomFits ==
    ASSUME NEW method, NEW size \in 1 .. 2, Last(METHOD_SPECS[method]).size = size,
           NEW value \in 0 .. Room(method) - 1
    PROVE  value \in Fits(size)
<1>1. value \in Nat /\ value < Room(method)
    BY DEF Room
<1>2. Room(method) <= 256 \/ (size = 2 /\ Room(method) = 65536)
    BY DEF Room
<1>3. 2 <= 256 /\ Room(method) \in Nat
    BY DEF Room
<1>4. size = 1 => value < 256
    BY <1>1, <1>2, <1>3
<1>5. size = 2 => value < 65536
    BY <1>1, <1>2, <1>3
<1> QED  BY <1>1, <1>4, <1>5 DEF Fits

Value(message) == field(message, ValueField(message.method))

\* What is known of a message with one field, and of one with two.
LEMMA OneFieldSays ==
    ASSUME NEW service, NEW method, NEW a \in Names, NEW m \in 1 .. 2,
           OneField(method, a, m), NEW value \in Roomy(method)
    PROVE  /\ KeyOf(from_bytes(Message(service, Key(0, method), value))) = Key(0, method)
           /\ Value(from_bytes(Message(service, Key(0, method), value))) = value
<1> DEFINE fields == [name \in {a} |-> value]
           packed == _pack_int(value, m)
           p == Message(service, Key(0, method), value)
<1>1. /\ Len(METHOD_SPECS[method]) = 1 /\ DOMAIN METHOD_SPECS[method] = 1 .. 1
      /\ METHOD_SPECS[method][1] = Field(a, m)
      /\ Head(METHOD_SPECS[method]) = Field(a, m) /\ Last(METHOD_SPECS[method]) = Field(a, m)
    BY DEF Last, OneField
<1>2. Field(a, m).name = a /\ Field(a, m).size = m /\ ValueField(method) = a
    BY <1>1 DEF Field, ValueField
<1>3. p = to_bytes(create(service, method, fields))
    BY <1>1, <1>2 DEF Message, Key
<1>4. value \in Fits(m)
    BY <1>1, <1>2, RoomFits DEF Roomy
<1>5. packed \in Bytes(m) /\ _unpack_int(packed) = value
    BY <1>4, PackedUnpacks DEF Bytes
<1> HIDE DEF packed
<1>6. PackedBody(method, fields) = packed
    <2>1. fields[a] = value /\ a \in DOMAIN fields
        OBVIOUS
    <2> HIDE DEF fields
    <2>2. PackedBody(method, fields) = FlattenSeq([i \in 1 .. 1 |-> packed])
        BY <1>1, <1>2, <2>1 DEF PackedBody, Known, packed, OneField
    <2>3. [i \in 1 .. 1 |-> packed] = <<packed>>
        OBVIOUS
    <2> QED  BY <2>2, <2>3, FlattenOne
<1>7. p.body = packed /\ p.method = method
    <2>1. packed \o <<>> = packed
        <3>1. packed \in Seq(Byte)
            BY <1>5 DEF Bytes
        <3> QED  BY <3>1
    <2> QED  BY <1>3, <1>6, <2>1 DEF to_bytes, create
<1> HIDE DEF p, fields
<1>8. Says(UnpackedBody(method, packed), {a}, a, value)
    BY <1>5, OneFieldUnpacked
<1>9. /\ DOMAIN from_bytes(p).body = {a} /\ from_bytes(p).body[a] = value
      /\ from_bytes(p).method = method
    BY <1>7, <1>8 DEF from_bytes, Says
<1>10. Value(from_bytes(p)) = value
    BY <1>2, <1>9 DEF Value, field
<1>11. KeyOf(from_bytes(p)) = Key(0, method)
    BY <1>1, <1>9 DEF KeyOf
<1> QED  BY <1>10, <1>11 DEF p

LEMMA TwoFieldsSay ==
    ASSUME NEW service, NEW method, NEW a \in Names, NEW m \in 1 .. 2, NEW b \in Names,
           NEW n \in 1 .. 2, TwoFields(method, a, m, b, n),
           NEW id \in Fits(m), NEW value \in Roomy(method)
    PROVE  /\ KeyOf(from_bytes(Message(service, Key(id, method), value))) = Key(id, method)
           /\ Value(from_bytes(Message(service, Key(id, method), value))) = value
<1> DEFINE fields == [name \in {a, b} |-> IF name = b THEN value ELSE id]
           first == _pack_int(id, m)
           second == _pack_int(value, n)
           p == Message(service, Key(id, method), value)
<1>1. /\ Len(METHOD_SPECS[method]) = 2 /\ DOMAIN METHOD_SPECS[method] = 1 .. 2
      /\ METHOD_SPECS[method][1] = Field(a, m) /\ METHOD_SPECS[method][2] = Field(b, n)
      /\ Head(METHOD_SPECS[method]) = Field(a, m) /\ Last(METHOD_SPECS[method]) = Field(b, n)
      /\ a # b
    BY DEF Last, TwoFields
<1>2. /\ Field(a, m).name = a /\ Field(a, m).size = m
      /\ Field(b, n).name = b /\ Field(b, n).size = n /\ ValueField(method) = b
    BY <1>1 DEF Field, ValueField
<1>3. p = to_bytes(create(service, method, fields))
    BY <1>1, <1>2 DEF Message, Key
<1>4. value \in Fits(n)
    BY <1>1, <1>2, RoomFits DEF Roomy
<1>5. /\ first \in Bytes(m) /\ _unpack_int(first) = id
      /\ second \in Bytes(n) /\ _unpack_int(second) = value
    BY <1>4, PackedUnpacks DEF Bytes
<1>6. PackedBody(method, fields) = first \o second
    <2>1. fields[a] = id /\ fields[b] = value /\ a \in DOMAIN fields /\ b \in DOMAIN fields
        BY <1>1
    <2> HIDE DEF fields
    <2>2. PackedBody(method, fields)
            = FlattenSeq([i \in 1 .. 2 |->
                _pack_int(IF METHOD_SPECS[method][i].name \in DOMAIN fields
                          THEN fields[METHOD_SPECS[method][i].name] ELSE 0,
                          METHOD_SPECS[method][i].size)])
        BY <1>1 DEF PackedBody, Known, TwoFields
    <2>3. [i \in 1 .. 2 |->
                _pack_int(IF METHOD_SPECS[method][i].name \in DOMAIN fields
                          THEN fields[METHOD_SPECS[method][i].name] ELSE 0,
                          METHOD_SPECS[method][i].size)]
            = [i \in 1 .. 2 |-> IF i = 1 THEN first ELSE second]
        BY <1>1, <1>2, <2>1
    <2> HIDE DEF first, second
    <2>4. [i \in 1 .. 2 |-> IF i = 1 THEN first ELSE second] = <<first, second>>
        OBVIOUS
    <2> QED  BY <2>2, <2>3, <2>4, FlattenTwo
<1> HIDE DEF first, second
<1>7. p.body = first \o second /\ p.method = method
    <2>1. (first \o second) \o <<>> = first \o second
        <3>1. first \in Seq(Byte) /\ second \in Seq(Byte)
            BY <1>5 DEF Bytes
        <3>2. first \o second \in Seq(Byte)
            BY <3>1
        <3> QED  BY <3>2
    <2> DEFINE body == first \o second
    <2>2. p = [service |-> service, method |-> method, body |-> body \o <<>>]
        BY <1>3, <1>6 DEF to_bytes, create
    <2>3. body \o <<>> = body
        BY <2>1
    <2> HIDE DEF body
    <2>4. p.body = body /\ p.method = method
        BY <2>2, <2>3
    <2> QED  BY <2>4 DEF body
<1> HIDE DEF p, fields
<1>8. /\ Says(UnpackedBody(method, first \o second), {a, b}, a, id)
      /\ Says(UnpackedBody(method, first \o second), {a, b}, b, value)
    BY <1>5, TwoFieldsUnpacked
<1>9. /\ DOMAIN from_bytes(p).body = {a, b} /\ from_bytes(p).body[a] = id
      /\ from_bytes(p).body[b] = value /\ from_bytes(p).method = method
    BY <1>7, <1>8 DEF from_bytes, Says
<1>10. Value(from_bytes(p)) = value
    BY <1>2, <1>9 DEF Value, field
<1>11. field(from_bytes(p), a) = id
    BY <1>9 DEF field
<1>12. KeyOf(from_bytes(p)) = Key(id, method)
    BY <1>1, <1>2, <1>9, <1>11 DEF KeyOf
<1> QED  BY <1>10, <1>12 DEF p

\* What a payload is about, and the value that it carries.
Carries(p, k, value) == KeyOf(from_bytes(p)) = k /\ Value(from_bytes(p)) = value

\* What the message about a value is unpacked to is what it was made from, for each
\* value watched that the field of its method has room for (trpc.py:514-520, 712-762).
THEOREM ValuesSurviveTheWire ==
    ASSUME NEW k \in Watched, NEW service, NEW value \in Roomy(k[2])
    PROVE  Carries(Message(service, k, value), k, value) /\ Message(service, k, value).service = service
<1> DEFINE id == k[1]
           method == k[2]
<1>1. k = Key(id, method) /\ (OfGateway(k) \/ OfGroup(k) \/ OfDevice(k))
    BY WatchedKinds
<1>2. value \in Roomy(method)
    OBVIOUS
<1>3. \/ id = 0 /\ method \in PolledMethods
      \/ id \in Fits(1) /\ method = "SETPOINT_GROUP_ENABLE"
      \/ id \in Fits(2) /\ method \in DEVICE_VALUE_METHODS
    <2>1. Groups \subseteq Fits(1)
        <3>1. Groups \subseteq 1 .. 12
            BY WatchedAssumption
        <3> QED  BY <3>1 DEF Fits
    <2>2. Address \subseteq Fits(2)
        BY DEF Address, Fits
    <2> QED  BY <1>1, <2>1, <2>2 DEF OfGateway, OfGroup, OfDevice
<1> HIDE DEF id, method
<1>4. CASE id = 0 /\ method \in PolledMethods
    <2>1. PICK name \in Names, size \in 1 .. 2 : OneField(method, name, size)
        BY <1>4, GatewaySpecs
    <2>2. Carries(Message(service, Key(0, method), value), Key(0, method), value)
        BY <1>2, <2>1, OneFieldSays DEF Carries
    <2> QED  BY <1>1, <1>4, <2>2 DEF Message, to_bytes, create
<1>5. CASE id \in Fits(1) /\ method = "SETPOINT_GROUP_ENABLE"
    <2>1. /\ "group_id" \in Names /\ "enable" \in Names /\ 1 \in 1 .. 2
          /\ TwoFields(method, "group_id", 1, "enable", 1)
        BY <1>5, GroupSpec DEF Names
    <2>2. Carries(Message(service, Key(id, method), value), Key(id, method), value)
        BY <1>2, <1>5, <2>1, TwoFieldsSay DEF Carries
    <2> QED  BY <1>1, <2>2 DEF Message, to_bytes, create
<1>6. CASE id \in Fits(2) /\ method \in DEVICE_VALUE_METHODS
    <2>1. PICK name \in Names, size \in 1 .. 2 : TwoFields(method, "address", 2, name, size)
        BY <1>6, DeviceSpecs
    <2>2. "address" \in Names /\ 2 \in 1 .. 2
        BY DEF Names
    <2>3. Carries(Message(service, Key(id, method), value), Key(id, method), value)
        BY <1>2, <1>6, <2>1, <2>2, TwoFieldsSay DEF Carries
    <2> QED  BY <1>1, <2>3 DEF Message, to_bytes, create
<1> QED  BY <1>3, <1>4, <1>5, <1>6

\* Whatever a body holds, the field that follows the address fits its bytes.
LEMMA UnpackedFits ==
    ASSUME NEW method, NEW a, NEW m \in 1 .. 2, NEW b, TwoFields(method, a, m, b, 1),
           NEW data \in Seq(Byte)
    PROVE  b \in DOMAIN UnpackedBody(method, data) /\ UnpackedBody(method, data)[b] \in Fits(1)
<1> DEFINE spec == METHOD_SPECS[method]
           at(name) == CHOOSE j \in DOMAIN spec : spec[j].name = name
           bytes(i) == [j \in 1 .. spec[i].size |-> ByteAt(data, Offset(spec, i) + j)]
<1>1. /\ DOMAIN spec = 1 .. 2 /\ spec[1].name = a
      /\ spec[2].name = b /\ spec[2].size = 1 /\ a # b
    BY DEF Field, TwoFields
<1>2. UnpackedBody(method, data)
            = [name \in {spec[i].name : i \in DOMAIN spec} |-> _unpack_int(bytes(at(name)))]
    BY DEF UnpackedBody, Known, TwoFields
<1> HIDE DEF spec
<1>3. at(b) = 2 /\ b \in {spec[i].name : i \in DOMAIN spec}
    BY <1>1
<1>4. bytes(2) \in [1 .. 1 -> Byte]
    <2>1. \A j : ByteAt(data, j) \in Byte
        <3>1. \A j \in DOMAIN data : data[j] \in Byte
            OBVIOUS
        <3>2. 0 \in Byte
            BY DEF Byte
        <3> QED  BY <3>1, <3>2 DEF ByteAt
    <2> QED  BY <1>1, <2>1
<1> HIDE DEF bytes, at
<1>5. _unpack_int(bytes(2)) = bytes(2)[1] /\ bytes(2)[1] \in Byte
    BY <1>4, UnpackedBytes
<1>6. Byte \subseteq Fits(1)
    BY DEF Byte, Fits
<1> QED  BY <1>2, <1>3, <1>5, <1>6

-----------------------------------------------------------------------------
(* What the commands under way do *)

\* The values that fit their fields.
Fitting == {values \in [Watched -> Nat] : \A k \in Watched : values[k] \in Roomy(k[2])}

\* The commands that are sent: a poll's, a reporting command, a setter's.
Sent ==
    {Message("REQUEST", k, 0) : k \in Watched}
        \cup {ReportingCommand(enabled) : enabled \in BOOLEAN}
        \cup {p \in Payloads : p.service = "UPDATE" /\ p.method \in SetterMethods}

VInv == actual \in Fitting /\ commands \in Seq(Sent)

\* What an exchange does to the network is what its answer says.
Tells(answer, values) ==
    /\ answer.service \in RUNTIME_SERVICES
    /\ \A k \in Watched :
        \/ Carries(answer, k, values[k])
        \/ KeyOf(from_bytes(answer)) # k /\ values[k] = actual[k]

LEMMA RoomsHold ==
    ASSUME NEW method
    PROVE  0 \in Roomy(method) /\ 1 \in Roomy(method) /\ Roomy(method) \subseteq Nat
BY DEF Roomy, Room

LEMMA ReportingCarries ==
    ASSUME NEW enabled
    PROVE  /\ ReportingCommand(enabled) = Message("UPDATE", REPORTING, IF enabled THEN 1 ELSE 0)
           /\ Carries(ReportingCommand(enabled), REPORTING, IF enabled THEN 1 ELSE 0)
           /\ ReportingCommand(enabled).service = "UPDATE"
<1> DEFINE value == IF enabled THEN 1 ELSE 0
<1>1. METHOD_SPECS["REPORTING_STATE"] = <<Field("state", 1)>>
    BY DEF METHOD_SPECS, GatewayBody
<1>2. Head(<<Field("state", 1)>>).name = "state" /\ Last(<<Field("state", 1)>>).name = "state"
    BY DEF Last, Field
<1>3. [name \in {"state"} |-> value] = [state |-> value]
    OBVIOUS
<1>4. REPORTING[2] = "REPORTING_STATE" /\ REPORTING \in Watched
    BY WatchedAssumption DEF REPORTING, Key
<1>5. ReportingCommand(enabled) = Message("UPDATE", REPORTING, value)
    BY <1>1, <1>2, <1>3, <1>4 DEF ReportingCommand, ReportingStateFields, Message, ValueField
<1>6. value \in Roomy(REPORTING[2])
    BY RoomsHold
<1> HIDE DEF value
<1>7. /\ Carries(Message("UPDATE", REPORTING, value), REPORTING, value)
      /\ Message("UPDATE", REPORTING, value).service = "UPDATE"
    BY <1>4, <1>6, ValuesSurviveTheWire
<1> QED  BY <1>5, <1>7 DEF value

LEMMA UpdateTells ==
    ASSUME actual \in Fitting, NEW p, p = [service |-> "UPDATE", method |-> p.method, body |-> p.body],
           \A k \in Watched : KeyOf(from_bytes(p)) = k => Value(from_bytes(p)) \in Roomy(k[2])
    PROVE  Executed(p) \in Fitting /\ Tells(Answer(p), Executed(p))
<1> DEFINE message == from_bytes(p)
           echo == from_bytes(Answer(p))
<1>1. p.service = "UPDATE"
    OBVIOUS
<1>2. Answer(p) = [service |-> "RESPONSE_UPDATE", method |-> p.method, body |-> p.body]
    BY <1>1 DEF Answer
<1>3. echo.method = message.method /\ echo.body = message.body
    BY <1>2 DEF from_bytes
<1>4. Answer(p).service \in RUNTIME_SERVICES
    BY <1>2 DEF RUNTIME_SERVICES
<1>5. message.service = "UPDATE"
    BY <1>1 DEF from_bytes
<1> HIDE DEF message, echo
<1>6. KeyOf(echo) = KeyOf(message) /\ Value(echo) = Value(message)
    BY <1>3 DEF KeyOf, Value, field
<1>7. Executed(p) = IF KeyOf(message) \in Watched
                    THEN [actual EXCEPT ![KeyOf(message)] = Value(message)] ELSE actual
    BY <1>5 DEF Executed, Value, message
<1>8. CASE KeyOf(message) \in Watched
    <2>1. PICK k \in Watched : k = KeyOf(message)
        BY <1>8
    <2>2. PICK value \in Roomy(k[2]) : value = Value(message)
        BY <2>1 DEF message
    <2>3. Executed(p) = [actual EXCEPT ![k] = value]
        BY <1>7, <2>1, <2>2
    <2>4. value \in Nat
        BY <2>2, RoomsHold
    <2>5. Executed(p) \in Fitting
        BY <2>2, <2>3, <2>4 DEF Fitting
    <2>6. Executed(p)[k] = value /\ \A j \in Watched : j # k => Executed(p)[j] = actual[j]
        BY <2>3 DEF Fitting
    <2>7. KeyOf(echo) = k /\ Value(echo) = value
        BY <1>6, <2>1, <2>2
    <2> QED  BY <1>4, <2>5, <2>6, <2>7 DEF Tells, Carries, echo
<1>9. CASE KeyOf(message) \notin Watched
    <2>1. Executed(p) = actual
        BY <1>7, <1>9
    <2>2. \A k \in Watched : KeyOf(echo) # k
        BY <1>6, <1>9
    <2> QED  BY <1>4, <2>1, <2>2 DEF Tells, echo
<1> QED  BY <1>8, <1>9

\* A setter's command is about a value that is watched only if it sets a mode.
LEMMA SetterFits ==
    ASSUME NEW p \in Payloads, p.method \in SetterMethods, NEW k \in Watched,
           KeyOf(from_bytes(p)) = k
    PROVE  Value(from_bytes(p)) \in Roomy(k[2])
<1>1. PICK id : KeyOf(from_bytes(p)) = Key(id, p.method)
    BY DEF KeyOf, from_bytes
<1>2. k[2] = p.method
    BY <1>1 DEF Key
<1>3. p.method = "MODE_SETTING"
    BY <1>2, WatchedKinds DEF OfGateway, OfGroup, OfDevice, SetterMethods, PolledMethods,
                    GATEWAY_METHODS, DEVICE_VALUE_METHODS, HumidityMethods
<1>4. p.body \in Seq(Byte)
    BY DEF Payloads
<1>5. TwoFields("MODE_SETTING", "address", 2, "mode", 1)
    BY DEF TwoFields, METHOD_SPECS, DeviceBody
<1>6. /\ "mode" \in DOMAIN UnpackedBody("MODE_SETTING", p.body)
      /\ UnpackedBody("MODE_SETTING", p.body)["mode"] \in Fits(1)
    BY <1>4, <1>5, UnpackedFits
<1>7. ValueField("MODE_SETTING") = "mode"
    BY <1>5 DEF TwoFields, ValueField, Last, Field
<1>8. Value(from_bytes(p)) = UnpackedBody("MODE_SETTING", p.body)["mode"]
    BY <1>3, <1>6, <1>7 DEF Value, from_bytes, field
<1>9. Room("MODE_SETTING") = 256
    <2>1. Last(METHOD_SPECS["MODE_SETTING"]).size = 1
        BY <1>5 DEF TwoFields, Last, Field
    <2> QED  BY <2>1 DEF Room, FlagMethods
<1>10. Fits(1) \subseteq 0 .. 256 - 1
    BY DEF Fits
<1> QED  BY <1>2, <1>3, <1>6, <1>8, <1>9, <1>10 DEF Roomy

LEMMA AnswerTells ==
    ASSUME VInv, NEW p \in Sent
    PROVE  Executed(p) \in Fitting /\ Tells(Answer(p), Executed(p))
<1>1. actual \in Fitting
    BY DEF VInv
<1>2. CASE \E k \in Watched : p = Message("REQUEST", k, 0)
    <2>1. PICK k \in Watched : p = Message("REQUEST", k, 0)
        BY <1>2
    <2>2. Carries(p, k, 0) /\ p.service = "REQUEST"
        BY <2>1, RoomsHold, ValuesSurviveTheWire
    <2>3. Executed(p) = actual
        BY <2>2 DEF Executed, from_bytes
    <2>4. Answer(p) = Message("RESPONSE_REQUEST", k, actual[k])
        BY <2>2 DEF Answer, Carries, Actual
    <2>5. actual[k] \in Roomy(k[2])
        BY <1>1 DEF Fitting
    <2>6. Carries(Answer(p), k, actual[k]) /\ Answer(p).service = "RESPONSE_REQUEST"
        BY <2>4, <2>5, ValuesSurviveTheWire
    <2>7. \A j \in Watched : Carries(Answer(p), j, actual[j]) \/ KeyOf(from_bytes(Answer(p))) # j
        BY <2>6 DEF Carries
    <2> QED  BY <1>1, <2>3, <2>6, <2>7 DEF Tells, RUNTIME_SERVICES
<1>3. CASE \E enabled \in BOOLEAN : p = ReportingCommand(enabled)
    <2>1. PICK enabled \in BOOLEAN : p = ReportingCommand(enabled)
        BY <1>3
    <2>2. Carries(p, REPORTING, IF enabled THEN 1 ELSE 0)
        BY <2>1, ReportingCarries
    <2>3. p = [service |-> "UPDATE", method |-> p.method, body |-> p.body]
        BY <2>1 DEF ReportingCommand, to_bytes, create
    <2>4. \A k \in Watched : KeyOf(from_bytes(p)) = k => Value(from_bytes(p)) \in Roomy(k[2])
        BY <2>2, RoomsHold DEF Carries
    <2> QED  BY <1>1, <2>3, <2>4, UpdateTells
<1>4. CASE p \in Payloads /\ p.service = "UPDATE" /\ p.method \in SetterMethods
    <2>1. p = [service |-> "UPDATE", method |-> p.method, body |-> p.body]
        BY <1>4 DEF Payloads
    <2>2. \A k \in Watched : KeyOf(from_bytes(p)) = k => Value(from_bytes(p)) \in Roomy(k[2])
        BY <1>4, SetterFits
    <2> QED  BY <1>1, <2>1, <2>2, UpdateTells
<1> QED  BY <1>2, <1>3, <1>4 DEF Sent

-----------------------------------------------------------------------------
(* The values keep fitting, whatever is sent *)

LEMMA ValuesStep ==
    ASSUME VInv, actual' \in Fitting, commands' \in Seq(Sent)
    PROVE  VInv'
<1>1. Fitting' = Fitting /\ Sent' = Sent
    BY DEF Fitting, Sent
<1> QED  BY <1>1 DEF VInv

LEMMA ReportingSent ==
    ASSUME NEW enabled \in BOOLEAN
    PROVE  ReportingCommand(enabled) \in Sent
BY DEF Sent

LEMMA GivenUpValues ==
    ASSUME VInv, NEW p \in Sent, GivenUp(p)
    PROVE  commands' \in Seq(Sent) /\ actual' = actual
<1>1. commands \in Seq(Sent)
    BY DEF VInv
<1>2. commands' = commands \/ commands' = Append(commands, p)
    BY DEF GivenUp
<1>3. Append(commands, p) \in Seq(Sent)
    BY <1>1, QueueTypes
<1> QED  BY <1>1, <1>2, <1>3 DEF GivenUp

LEMMA SetReportingValues ==
    ASSUME VInv, NEW enabled \in BOOLEAN, NEW response, set_reporting_state(enabled, response)
    PROVE  actual' \in Fitting /\ commands' \in Seq(Sent)
<1>1. ReportingCommand(enabled) \in Sent
    BY ReportingSent
<1>2. actual \in Fitting /\ commands \in Seq(Sent)
    BY DEF VInv
<1>3. CASE actual' = Executed(ReportingCommand(enabled)) /\ UNCHANGED commands
    BY <1>1, <1>2, <1>3, AnswerTells
<1>4. CASE GivenUp(ReportingCommand(enabled))
    BY <1>1, <1>2, <1>4, GivenUpValues
<1> QED  BY <1>3, <1>4 DEF set_reporting_state

LEMMA ServeValues ==
    ASSUME VInv, Serve
    PROVE  VInv'
<1>1. commands # <<>> /\ commands \in Seq(Sent)
    BY DEF Serve, VInv
<1>2. Head(commands) \in Sent /\ Tail(commands) \in Seq(Sent)
    BY <1>1, QueueTypes
<1>3. actual' = Executed(Head(commands)) /\ commands' = Tail(commands)
    BY DEF Serve
<1> QED  BY <1>2, <1>3, AnswerTells, ValuesStep

LEMMA ChangeValues ==
    ASSUME VInv, NEW k \in Watched, Change(k)
    PROVE  VInv' /\ actual'[k] \in Roomy(k[2]) /\ \A j \in Watched \ {k} : actual'[j] = actual[j]
<1> DEFINE value == (actual[k] + 1) % Room(k[2])
<1>1. actual' = [actual EXCEPT ![k] = value] /\ UNCHANGED commands
    BY DEF Change
<1>2. actual \in Fitting /\ commands \in Seq(Sent) /\ actual[k] \in Nat
    BY DEF VInv, Fitting
<1>3. value \in Roomy(k[2]) /\ value \in Nat
    BY <1>2, RoomIsPositive, RoomsHold DEF Roomy
<1> HIDE DEF value
<1>4. actual' \in Fitting
    BY <1>1, <1>2, <1>3 DEF Fitting
<1>5. actual'[k] = value /\ \A j \in Watched \ {k} : actual'[j] = actual[j]
    BY <1>1, <1>2 DEF Fitting
<1> QED  BY <1>1, <1>2, <1>3, <1>4, <1>5, ValuesStep

LEMMA EnvironmentValues ==
    ASSUME VInv, Environment \/ Loop
    PROVE  VInv'
<1>1. actual \in Fitting /\ commands \in Seq(Sent) /\ <<>> \in Seq(Sent)
    BY DEF VInv
<1>2. CASE (\E devices \in Inventories : Topology(devices)) \/ LinkFails \/ Handle \/ Reconnect
    <2>1. actual' = actual /\ (commands' = commands \/ commands' = <<>>)
        BY <1>2 DEF Topology, LinkFails, Handle, Reconnect, network
    <2> QED  BY <1>1, <2>1, ValuesStep
<1>3. CASE Resubscribe
    <2>1. PICK response : set_reporting_state(TRUE, response)
        BY <1>3 DEF Resubscribe
    <2> QED  BY <2>1, SetReportingValues, ValuesStep
<1> QED  BY <1>2, <1>3, ServeValues, ChangeValues DEF Environment, Loop

LEMMA ReportingValues ==
    ASSUME VInv, NEW t \in Apps, Pause(t) \/ Enable(t) \/ Restore(t) \/ Close(t)
    PROVE  VInv'
<1>1. actual \in Fitting /\ commands \in Seq(Sent) /\ <<>> \in Seq(Sent)
    BY DEF VInv
<1>2. \/ \E enabled \in BOOLEAN : \E response : set_reporting_state(enabled, response)
      \/ \E enabled \in BOOLEAN : LastReportingCommand(enabled)
      \/ UNCHANGED <<actual, commands>>
    BY DEF Pause, Enable, Restore, Close
<1>3. ASSUME NEW enabled \in BOOLEAN, LastReportingCommand(enabled)
      PROVE  VInv'
    <2>1. actual' \in {actual, Executed(ReportingCommand(enabled))} /\ commands' = <<>>
        BY <1>3 DEF LastReportingCommand
    <2>2. Executed(ReportingCommand(enabled)) \in Fitting
        BY ReportingSent, AnswerTells
    <2> QED  BY <1>1, <2>1, <2>2, ValuesStep
<1>4. CASE UNCHANGED <<actual, commands>>
    BY <1>1, <1>4, ValuesStep
<1> QED  BY <1>2, <1>3, <1>4, SetReportingValues, ValuesStep

\* What a poll of some keys gets, and what it leaves under way.
LEMMA PolledValues ==
    ASSUME VInv, NEW keys, NEW got, Values(keys, got)
    PROVE  /\ actual' = actual /\ commands' \in Seq(Sent)
           /\ \A k \in keys \cap Watched : got[k] \in {None, actual[k]}
<1>1. CASE UNCHANGED <<commands, actual>> /\ got = [k \in keys |-> Actual(k)]
    BY <1>1 DEF VInv, Actual
<1>2. ASSUME NEW lost \in keys \cap Watched, GivenUp(Message("REQUEST", lost, 0)),
             got = [k \in keys |-> IF k = lost THEN None ELSE Actual(k)]
      PROVE  /\ actual' = actual /\ commands' \in Seq(Sent)
             /\ \A k \in keys \cap Watched : got[k] \in {None, actual[k]}
    <2>1. Message("REQUEST", lost, 0) \in Sent
        BY DEF Sent
    <2>2. \A k \in keys \cap Watched : got[k] \in {None, actual[k]}
        BY <1>2 DEF Actual
    <2> QED  BY <1>2, <2>1, <2>2, GivenUpValues
<1> QED  BY <1>1, <1>2 DEF Values

LEMMA FailsValues ==
    ASSUME VInv, NEW t \in Apps, Fails(t)
    PROVE  VInv'
<1>1. actual \in Fitting /\ commands \in Seq(Sent)
    BY DEF VInv
<1>2. \A late \in InFlight(t) : late \in Seq(Sent)
    <2>1. \A command \in Sent : <<command>> \in Seq(Sent)
        OBVIOUS
    <2>2. <<>> \in Seq(Sent)
        OBVIOUS
    <2>3. <<ReportingCommand(TRUE)>> \in Seq(Sent) /\ <<ReportingCommand(FALSE)>> \in Seq(Sent)
        BY <2>1, ReportingSent
    <2> QED  BY <2>2, <2>3 DEF InFlight
<1>3. commands' = commands \/ \E late \in InFlight(t) : commands' = commands \o late
    BY DEF Fails
<1>4. \A late \in Seq(Sent) : commands \o late \in Seq(Sent)
    BY <1>1
<1>5. commands' \in Seq(Sent)
    BY <1>1, <1>2, <1>3, <1>4
<1>6. actual' = actual
    BY DEF Fails
<1> QED  BY <1>1, <1>5, <1>6, ValuesStep

LEMMA SetterSent ==
    ASSUME NEW method \in SetterMethods, NEW address \in Int, NEW value \in Int
    PROVE  to_bytes(create("UPDATE", method, Payload(method, address, value))) \in Sent
<1> DEFINE fields == Payload(method, address, value)
           p == to_bytes(create("UPDATE", method, fields))
<1>1. p \in Commands
    BY SetterCommand
<1>2. p.service = "UPDATE" /\ p.method = method
    BY DEF to_bytes, create
<1> HIDE DEF p
<1>3. p \in Payloads
    BY <1>1 DEF Commands
<1>4. p \in Sent
    BY <1>2, <1>3 DEF Sent
<1> QED  BY <1>4 DEF p

LEMMA SetValues ==
    ASSUME VInv, NEW t \in Apps, NEW method \in SetterMethods, NEW address \in Int,
           NEW value \in Int, SetLatest(t, method, address, value)
    PROVE  VInv'
<1> DEFINE command == to_bytes(create("UPDATE", method, Payload(method, address, value)))
           pending == Append(commands, command)
<1>1. command \in Sent /\ commands \in Seq(Sent) /\ actual \in Fitting
    BY SetterSent DEF VInv
<1>2. \/ commands' = Tail(pending) /\ actual' = Executed(Head(pending))
      \/ GivenUp(command)
      \/ commands' \in {pending, commands} /\ UNCHANGED actual
    BY DEF SetLatest
<1> HIDE DEF command
<1>3. /\ pending \in Seq(Sent)
      /\ Head(pending) \in Sent /\ Tail(pending) \in Seq(Sent)
    BY <1>1, QueueTypes
<1> HIDE DEF pending
<1>4. CASE commands' = Tail(pending) /\ actual' = Executed(Head(pending))
    BY <1>3, <1>4, AnswerTells, ValuesStep
<1>5. CASE GivenUp(command)
    BY <1>1, <1>5, GivenUpValues, ValuesStep
<1>6. CASE commands' \in {pending, commands} /\ UNCHANGED actual
    BY <1>1, <1>3, <1>6, ValuesStep
<1> QED  BY <1>2, <1>4, <1>5, <1>6

LEMMA StepValues ==
    ASSUME VInv, [Next]_vars
    PROVE  VInv'
<1>1. actual \in Fitting /\ commands \in Seq(Sent)
    BY DEF VInv
<1>2. ASSUME NEW t \in Apps, App(t)
      PROVE  VInv'
    <2>1. CASE Restarts(t) \/ Discover(t) \/ Install(t) \/ Stop(t)
        <3>1. UNCHANGED <<actual, commands>>
            BY <2>1 DEF Restarts, Start, Rediscover, RefreshRuntime, Stop, Calls, Discover,
                        Install, network
        <3> QED  BY <1>1, <3>1, ValuesStep
    <2>2. CASE Pause(t) \/ Enable(t) \/ Restore(t) \/ Close(t)
        BY <2>2, ReportingValues
    <2>3. CASE poll_gateway(t) \/ _dump_device_snapshot(t)
        <3>1. \E keys, got : Values(keys, got)
            BY <2>3 DEF poll_gateway, _dump_device_snapshot
        <3> QED  BY <1>1, <3>1, PolledValues, ValuesStep
    <2>4. CASE Fails(t)
        BY <2>4, FailsValues
    <2>5. ASSUME NEW address \in UNION {Addresses(devices) : devices \in Inventories},
                 NEW setting \in Settings, SetLatest(t, setting[1], address, setting[2])
          PROVE  VInv'
        BY <2>5, AskedTypes, SetValues
    <2> QED  BY <1>2, <2>1, <2>2, <2>3, <2>4, <2>5 DEF App, Restarts
<1>3. CASE UNCHANGED vars
    <2>1. UNCHANGED <<actual, commands>>
        BY <1>3 DEF vars, network
    <2> QED  BY <1>1, <2>1, ValuesStep
<1> QED  BY <1>2, <1>3, EnvironmentValues DEF Next

LEMMA InitValues == Init => VInv
<1> SUFFICES ASSUME Init PROVE VInv
    OBVIOUS
<1>1. actual = [k \in Watched |-> 0] /\ commands = <<>>
    BY DEF Init
<1>2. actual \in Fitting
    BY <1>1, RoomsHold DEF Fitting
<1>3. <<>> \in Seq(Sent)
    OBVIOUS
<1> QED  BY <1>1, <1>2, <1>3 DEF VInv

-----------------------------------------------------------------------------
(* What is on its way to the state *)

\* Python's None is neither a state nor a message.
NoneIsNothing ==
    /\ \A devices, data : None # [discovery |-> devices, data |-> data]
    /\ \A service, method, body : None # [service |-> service, method |-> method, body |-> body]

\* A message about a value that the reducer takes in.
Concerns(p, k) == p.service \in RUNTIME_SERVICES /\ KeyOf(from_bytes(p)) = k

\* The last of the messages about a value says what it is.
Told(s, k, value) ==
    \E i \in DOMAIN s :
        /\ s[i].service \in RUNTIME_SERVICES /\ Carries(s[i], k, value)
        /\ \A j \in DOMAIN s : j > i => ~Concerns(s[j], k)

\* The messages that the loop has yet to read: it begins with the backlog.
Pending == IF loop = "reading" THEN queue ELSE backlog

LEMMA ToldOfNothing ==
    ASSUME NEW k, NEW value
    PROVE  ~Told(<<>>, k, value)
BY DEF Told

LEMMA ToldAppended ==
    ASSUME NEW S, NEW s \in Seq(S), NEW m \in S, NEW k, NEW value,
           \/ m.service \in RUNTIME_SERVICES /\ Carries(m, k, value)
           \/ KeyOf(from_bytes(m)) # k /\ Told(s, k, value)
    PROVE  Told(Append(s, m), k, value)
<1> DEFINE n == Len(s)
           r == Append(s, m)
<1>1. /\ n \in Nat /\ DOMAIN r = 1 .. n + 1 /\ r[n + 1] = m
      /\ DOMAIN s = 1 .. n /\ \A i \in 1 .. n : r[i] = s[i]
    OBVIOUS
<1> HIDE DEF r, n
<1>2. CASE m.service \in RUNTIME_SERVICES /\ Carries(m, k, value)
    <2>1. n + 1 \in DOMAIN r /\ \A j \in DOMAIN r : ~(j > n + 1)
        BY <1>1
    <2> QED  BY <1>1, <1>2, <2>1 DEF Told, r
<1>3. CASE KeyOf(from_bytes(m)) # k /\ Told(s, k, value)
    <2>1. PICK i \in DOMAIN s :
                /\ s[i].service \in RUNTIME_SERVICES /\ Carries(s[i], k, value)
                /\ \A j \in DOMAIN s : j > i => ~Concerns(s[j], k)
        BY <1>3 DEF Told
    <2>2. i \in DOMAIN r /\ r[i] = s[i]
        BY <1>1
    <2>3. ~Concerns(m, k)
        BY <1>3 DEF Concerns
    <2>4. ASSUME NEW j \in DOMAIN r, j > i
          PROVE  ~Concerns(r[j], k)
        <3>1. j = n + 1 \/ j \in 1 .. n
            BY <1>1
        <3>2. CASE j = n + 1
            <4>1. r[j] = m
                BY <1>1, <3>2
            <4> QED  BY <2>3, <4>1
        <3>3. CASE j \in 1 .. n
            <4>1. r[j] = s[j] /\ j \in DOMAIN s
                BY <1>1, <3>3
            <4> QED  BY <2>1, <2>4, <4>1
        <3> QED  BY <3>1, <3>2, <3>3
    <2> QED  BY <2>1, <2>2, <2>4 DEF Told, r
<1> QED  BY <1>2, <1>3

LEMMA ToldRead ==
    ASSUME NEW S, NEW s \in Seq(S), s # <<>>, NEW k, NEW value, Told(s, k, value)
    PROVE  \/ Told(Tail(s), k, value)
           \/ Head(s).service \in RUNTIME_SERVICES /\ Carries(Head(s), k, value)
<1> DEFINE n == Len(s)
           r == Tail(s)
<1>1. /\ n \in Nat /\ DOMAIN s = 1 .. n /\ DOMAIN r = 1 .. n - 1
      /\ \A i \in 1 .. n - 1 : r[i] = s[i + 1]
      /\ Head(s) = s[1]
    <2>1. \A q \in Seq(S) \ {<<>>} :
            /\ Len(q) \in Nat /\ DOMAIN q = 1 .. Len(q) /\ DOMAIN Tail(q) = 1 .. Len(q) - 1
            /\ \A i \in 1 .. Len(q) - 1 : Tail(q)[i] = q[i + 1]
            /\ Head(q) = q[1]
        OBVIOUS
    <2> QED  BY <2>1
<1>2. PICK i \in DOMAIN s :
            /\ s[i].service \in RUNTIME_SERVICES /\ Carries(s[i], k, value)
            /\ \A j \in DOMAIN s : j > i => ~Concerns(s[j], k)
    BY DEF Told
<1> HIDE DEF r, n
<1>3. CASE i = 1
    BY <1>1, <1>2, <1>3
<1>4. CASE i # 1
    <2>1. PICK h \in 1 .. n - 1 : i = h + 1
        <3>1. i - 1 \in 1 .. n - 1 /\ i = (i - 1) + 1
            BY <1>1, <1>4
        <3> QED  BY <3>1
    <2>2. r[h] = s[i] /\ h \in DOMAIN r
        BY <1>1, <2>1
    <2>3. ASSUME NEW j \in DOMAIN r, j > h
          PROVE  ~Concerns(r[j], k)
        <3>1. PICK l \in 1 .. n : l = j + 1 /\ l > i
            <4>1. j + 1 \in 1 .. n /\ j + 1 > i
                BY <1>1, <2>1, <2>3
            <4> QED  BY <4>1
        <3>2. r[j] = s[l] /\ l \in DOMAIN s
            BY <1>1, <3>1
        <3> QED  BY <1>2, <3>1, <3>2
    <2>4. Told(r, k, value)
        BY <1>2, <2>2, <2>3 DEF Told
    <2> QED  BY <2>4 DEF r
<1> QED  BY <1>3, <1>4

-----------------------------------------------------------------------------
(* A value is fresh *)

\* There is a cause, what is on its way says it, or the state shows it.
Fresh(k) ==
    \/ cause[k] # {}
    \/ Told(Pending, k, actual[k])
    \/ Shows(state, k) = {actual[k]}

CauseForm == cause = [k \in Watched |-> cause[k]]

\* What a step makes of the history, and of what is fresh.
Settles(k, more) ==
    cause'[k] = IF Shows(state', k) = {actual'[k]} THEN {} ELSE cause[k] \cup more
Keeps(k) == Fresh(k)' \/ (~Fresh(k) /\ actual'[k] = actual[k])
Kept == CauseForm' /\ \A k \in Watched : Keeps(k)

LEMMA SettledIsFresh ==
    ASSUME NEW k, NEW more, Settles(k, more),
           \/ cause[k] # {} \/ more # {}
           \/ Told(Pending', k, actual'[k])
           \/ Shows(state', k) = {actual'[k]}
    PROVE  Fresh(k)'
BY DEF Settles, Fresh

\* A message arrives that says what a step has done to the values.
LEMMA AppendKeeps ==
    ASSUME NEW k \in Watched, NEW more, Settles(k, more), NEW m \in Payloads, Tells(m, actual'),
           Pending \in Seq(Payloads), Pending' = Append(Pending, m),
           Shows(state', k) = Shows(state, k)
    PROVE  Keeps(k)
<1>1. m.service \in RUNTIME_SERVICES
    BY DEF Tells
<1>2. CASE Carries(m, k, actual'[k])
    <2>1. Told(Append(Pending, m), k, actual'[k])
        BY <1>1, <1>2, ToldAppended
    <2> QED  BY <2>1, SettledIsFresh DEF Keeps
<1>3. CASE KeyOf(from_bytes(m)) # k /\ actual'[k] = actual[k]
    <2>1. Told(Pending, k, actual[k]) => Told(Append(Pending, m), k, actual[k])
        BY <1>3, ToldAppended
    <2>2. Fresh(k) => Fresh(k)'
        BY <1>3, <2>1, SettledIsFresh DEF Fresh
    <2> QED  BY <1>3, <2>2 DEF Keeps
<1> QED  BY <1>2, <1>3 DEF Tells

\* Nothing arrives, and the value stays or there is a cause.
LEMMA QuietKeeps ==
    ASSUME NEW k \in Watched, NEW more, Settles(k, more), Shows(state', k) = Shows(state, k),
           \/ more # {}
           \/ /\ actual'[k] = actual[k]
              /\ Told(Pending, k, actual[k]) => Told(Pending', k, actual[k])
    PROVE  Keeps(k)
<1>1. CASE more # {}
    BY <1>1, SettledIsFresh DEF Keeps
<1>2. CASE actual'[k] = actual[k] /\ (Told(Pending, k, actual[k]) => Told(Pending', k, actual[k]))
    <2>1. Fresh(k) => Fresh(k)'
        BY <1>2, SettledIsFresh DEF Fresh
    <2> QED  BY <1>2, <2>1 DEF Keeps
<1> QED  BY <1>1, <1>2

\* Nothing happens to the history.
LEMMA StillKeeps ==
    ASSUME CauseForm, UNCHANGED <<cause, state, actual>>,
           \A k \in Watched : Told(Pending, k, actual[k]) => Told(Pending', k, actual[k])
    PROVE  Kept
<1>1. CauseForm'
    BY DEF CauseForm
<1>2. ASSUME NEW k \in Watched
      PROVE  Keeps(k)
    <2>1. Fresh(k) => Fresh(k)'
        BY DEF Fresh
    <2> QED  BY <2>1 DEF Keeps
<1> QED  BY <1>1, <1>2 DEF Kept

-----------------------------------------------------------------------------
(* The steps that leave the state alone *)

LEMMA PendingType ==
    ASSUME NInv
    PROVE  Pending \in Seq(Payloads)
<1>1. queue \in Seq(Payloads) /\ backlog \in Seq(Payloads)
    BY DEF NInv
<1> QED  BY <1>1 DEF Pending

LEMMA UnmatchedPending ==
    ASSUME NEW p, p # None, Unmatched(p), loop' = loop
    PROVE  Pending' = Append(Pending, p)
BY DEF Unmatched, Published, Subscribed, Pending

LEMMA PublishedPending ==
    ASSUME NEW p, p # None, Published(p), UNCHANGED <<loop, backlog>>
    PROVE  Pending' = IF Subscribed THEN Append(Pending, p) ELSE Pending
BY DEF Published, Subscribed, Pending

LEMMA PayloadIsSomething ==
    ASSUME NoneIsNothing, NEW p \in Payloads
    PROVE  p # None
<1>1. p = [service |-> p.service, method |-> p.method, body |-> p.body]
    BY DEF Payloads
<1> QED  BY <1>1 DEF NoneIsNothing

\* What answers a command that was sent.
LEMMA SentAnswers ==
    ASSUME NInv, VInv, NoneIsNothing, NEW p \in Sent
    PROVE  Answer(p) \in Payloads /\ Answer(p) # None /\ Tells(Answer(p), Executed(p))
<1>1. p \in Commands
    BY RequestType, ReportingCommandType DEF Sent, Commands
<1>2. Answer(p) \in Payloads
    BY <1>1, AnswerType
<1> QED  BY <1>2, PayloadIsSomething, AnswerTells

LEMMA ReportingAnswer ==
    ASSUME NEW enabled
    PROVE  Carries(Answer(ReportingCommand(enabled)), REPORTING, IF enabled THEN 1 ELSE 0)
<1> DEFINE p == ReportingCommand(enabled)
           value == IF enabled THEN 1 ELSE 0
<1>1. Carries(p, REPORTING, value) /\ p.service = "UPDATE"
    BY ReportingCarries
<1>2. p = [service |-> p.service, method |-> p.method, body |-> p.body]
    BY DEF ReportingCommand, to_bytes, create
<1> HIDE DEF p, value
<1>3. Answer(p).method = p.method /\ Answer(p).body = p.body
    BY <1>1, <1>2 DEF Answer
<1>4. /\ from_bytes(Answer(p)).method = from_bytes(p).method
      /\ from_bytes(Answer(p)).body = from_bytes(p).body
    BY <1>3 DEF from_bytes
<1>5. /\ KeyOf(from_bytes(Answer(p))) = KeyOf(from_bytes(p))
      /\ Value(from_bytes(Answer(p))) = Value(from_bytes(p))
    BY <1>4 DEF KeyOf, Value, field
<1> QED  BY <1>1, <1>5 DEF Carries, p, value

\* A reporting command is about nothing but reporting.
LEMMA ReportingOnly ==
    ASSUME VInv, NEW enabled \in BOOLEAN, NEW k \in Watched, k # REPORTING
    PROVE  Executed(ReportingCommand(enabled))[k] = actual[k]
<1>1. Tells(Answer(ReportingCommand(enabled)), Executed(ReportingCommand(enabled)))
    BY ReportingSent, AnswerTells
<1>2. KeyOf(from_bytes(Answer(ReportingCommand(enabled)))) = REPORTING
    BY ReportingAnswer DEF Carries
<1> QED  BY <1>1, <1>2 DEF Tells, Carries

LEMMA ReportingOutcome ==
    ASSUME NInv, VInv, NoneIsNothing, NEW enabled \in BOOLEAN,
           NEW response \in Responses(enabled), set_reporting_state(enabled, response)
    PROVE  /\ \/ /\ response = Answer(ReportingCommand(enabled)) /\ response # None
                 /\ response \in Payloads /\ Tells(response, actual')
              \/ response = None /\ actual' = actual
           /\ \A k \in Watched \ {REPORTING} : actual'[k] = actual[k]
<1>1. ReportingCommand(enabled) \in Sent
    BY ReportingSent
<1>2. CASE response # None /\ actual' = Executed(ReportingCommand(enabled))
    BY <1>1, <1>2, SentAnswers, ReportingOnly DEF Responses
<1>3. CASE response = None /\ GivenUp(ReportingCommand(enabled))
    BY <1>1, <1>3, GivenUpValues
<1> QED  BY <1>2, <1>3 DEF set_reporting_state

LEMMA LastReportingOutcome ==
    ASSUME VInv, NEW enabled \in BOOLEAN, LastReportingCommand(enabled)
    PROVE  \A k \in Watched \ {REPORTING} : actual'[k] = actual[k]
BY ReportingOnly DEF LastReportingCommand

LEMMA ServeKeeps ==
    ASSUME NInv, VInv, NoneIsNothing, CauseForm, Serve
    PROVE  Kept
<1> DEFINE p == Head(commands)
<1>1. commands # <<>> /\ commands \in Seq(Sent)
    BY DEF Serve, VInv
<1>2. p \in Sent
    BY <1>1, QueueTypes
<1>3. actual' = Executed(p) /\ Unmatched(Answer(p)) /\ UNCHANGED <<state, loop>>
    BY DEF Serve, controller
<1>4. CauseForm' /\ \A k \in Watched : Settles(k, {})
    BY <1>3 DEF Serve, Settle, Nothing, CauseForm, Settles
<1> HIDE DEF p
<1>5. Answer(p) \in Payloads /\ Answer(p) # None /\ Tells(Answer(p), actual')
    BY <1>2, <1>3, SentAnswers
<1>6. Pending' = Append(Pending, Answer(p)) /\ Pending \in Seq(Payloads)
    BY <1>3, <1>5, UnmatchedPending, PendingType
<1>7. \A k : Shows(state', k) = Shows(state, k)
    BY <1>3
<1>8. \A k \in Watched : Keeps(k)
    BY <1>4, <1>5, <1>6, <1>7, AppendKeeps
<1> QED  BY <1>4, <1>8 DEF Kept

LEMMA ChangeKeeps ==
    ASSUME NInv, VInv, NoneIsNothing, CauseForm, NEW k \in Watched, Change(k)
    PROVE  Kept
<1> DEFINE report == Message("REPORT", k, actual'[k])
           more(j) == IF j = k /\ backlog' = backlog THEN {"unreported"} ELSE {}
<1>1. Reports(report) /\ UNCHANGED <<state, loop>>
    BY DEF Change, controller
<1>2. actual'[k] \in Roomy(k[2]) /\ \A j \in Watched \ {k} : actual'[j] = actual[j]
    BY ChangeValues
<1>3. CauseForm' /\ \A j \in Watched : Settles(j, more(j))
    BY <1>1 DEF Change, Settle, CauseForm, Settles
<1>4. Carries(report, k, actual'[k]) /\ report.service = "REPORT"
    BY <1>2, ValuesSurviveTheWire
<1>5. report \in Payloads
    <2>1. /\ k = Key(k[1], k[2]) /\ k[1] \in Int /\ k[2] \in DOMAIN METHOD_SPECS
        BY WatchedKeys
    <2>2. actual'[k] \in Int /\ "REPORT" \in TrpcService
        BY <1>2, RoomsHold DEF TrpcService
    <2>3. Message("REPORT", Key(k[1], k[2]), actual'[k]) \in Payloads
        BY <2>1, <2>2, MessageType
    <2> QED  BY <2>1, <2>3
<1> HIDE DEF report
<1>6. Tells(report, actual')
    BY <1>2, <1>4 DEF Tells, Carries, RUNTIME_SERVICES
<1>7. \A j : Shows(state', j) = Shows(state, j)
    BY <1>1
<1> HIDE DEF more
<1>8. CASE Unmatched(report)
    <2>1. Pending' = Append(Pending, report) /\ Pending \in Seq(Payloads)
        BY <1>1, <1>5, <1>8, PayloadIsSomething, UnmatchedPending, PendingType
    <2>2. \A j \in Watched : Keeps(j)
        BY <1>3, <1>5, <1>6, <1>7, <2>1, AppendKeeps
    <2> QED  BY <1>3, <2>2 DEF Kept
<1>9. CASE UNCHANGED <<backlog, queue>>
    <2>1. Pending' = Pending /\ more(k) # {}
        BY <1>1, <1>9 DEF Pending, more
    <2>2. \A j \in Watched : Keeps(j)
        BY <1>2, <1>3, <1>7, <2>1, QuietKeeps
    <2> QED  BY <1>3, <2>2 DEF Kept
<1> QED  BY <1>1, <1>8, <1>9 DEF Reports

\* A message about the topology is about no value.
LEMMA TopologyKeeps ==
    ASSUME NInv, NoneIsNothing, CauseForm, NEW devices, Topology(devices)
    PROVE  Kept
<1> DEFINE report == to_bytes(create("REPORT", "TAKING_ADDRESS", <<>>))
<1>1. Reports(report) /\ UNCHANGED <<cause, state, actual, loop>>
    BY DEF Topology, controller
<1>2. report \in Payloads
    <2>1. Integral(<<>>) /\ "REPORT" \in TrpcService /\ "TAKING_ADDRESS" \in DOMAIN METHOD_SPECS
        BY DEF Integral, TrpcService, METHOD_SPECS
    <2> QED  BY <2>1, WireType
<1>3. report.method = "TAKING_ADDRESS"
    BY DEF to_bytes, create
<1> HIDE DEF report
<1>4. ASSUME NEW k \in Watched
      PROVE  KeyOf(from_bytes(report)) # k
    <2>1. \E id : KeyOf(from_bytes(report)) = <<id, "TAKING_ADDRESS">>
        BY <1>3 DEF KeyOf, Key, from_bytes
    <2>2. k[2] # "TAKING_ADDRESS"
        BY WatchedKinds DEF OfGateway, OfGroup, OfDevice, PolledMethods, GATEWAY_METHODS,
                            DEVICE_VALUE_METHODS, HumidityMethods
    <2> QED  BY <2>1, <2>2
<1>5. Pending' = Pending \/ Pending' = Append(Pending, report)
    BY <1>1, <1>2, PayloadIsSomething, UnmatchedPending DEF Reports, Pending
<1>6. \A k \in Watched : Told(Pending, k, actual[k]) => Told(Pending', k, actual[k])
    BY <1>2, <1>4, <1>5, PendingType, ToldAppended
<1> QED  BY <1>1, <1>6, StillKeeps

LEMMA ReconnectKeeps ==
    ASSUME CauseForm, Reconnect
    PROVE  Kept
<1>1. UNCHANGED <<cause, state, actual, queue, backlog>> /\ loop' = "opened"
    BY DEF Reconnect, network
<1>2. \/ loop = "opened" \/ queue = <<>>
    BY DEF Reconnect
<1>3. \A k \in Watched : Told(Pending, k, actual[k]) => Told(Pending', k, actual[k])
    BY <1>1, <1>2, ToldOfNothing DEF Pending
<1> QED  BY <1>1, <1>3, StillKeeps

LEMMA ResubscribeKeeps ==
    ASSUME NInv, VInv, NoneIsNothing, CauseForm, Resubscribe
    PROVE  Kept
<1>1. PICK response \in Responses(TRUE) : set_reporting_state(TRUE, response)
    BY DEF Resubscribe
<1>2. \A k \in Watched \ {REPORTING} : actual'[k] = actual[k]
    BY <1>1, ReportingOutcome
<1> DEFINE more(k) == IF k = REPORTING THEN {"unanswered"} ELSE {}
<1>3. UNCHANGED state /\ Pending' = Pending
    BY DEF Resubscribe, Pending
<1>4. CauseForm' /\ \A k \in Watched : Settles(k, more(k))
    BY <1>3 DEF Resubscribe, Settle, CauseForm, Settles
<1>5. \A k : Shows(state', k) = Shows(state, k)
    BY <1>3
<1>6. ASSUME NEW k \in Watched
      PROVE  Keeps(k)
    <2>1. more(k) # {} \/ actual'[k] = actual[k]
        BY <1>2
    <2> HIDE DEF more
    <2> QED  BY <1>3, <1>4, <1>5, <2>1, QuietKeeps
<1> QED  BY <1>4, <1>6 DEF Kept

\* Nothing changes that a state holds, a session has or the history remembers.
LEMMA SteadyKeeps ==
    ASSUME CauseForm, UNCHANGED <<cause, state, actual, queue, backlog, loop>>
    PROVE  Kept
<1>1. Pending' = Pending
    BY DEF Pending
<1> QED  BY <1>1, StillKeeps

\* A reporting command is executed that the state does not hear of.
LEMMA UnansweredKeeps ==
    ASSUME UNCHANGED state, Pending' = Pending,
           \A k \in Watched \ {REPORTING} : actual'[k] = actual[k],
           CauseForm',
           \A k \in Watched : Settles(k, IF k = REPORTING THEN {"unanswered"} ELSE {})
    PROVE  Kept
<1> DEFINE more(k) == IF k = REPORTING THEN {"unanswered"} ELSE {}
<1>1. ASSUME NEW k \in Watched
      PROVE  Keeps(k)
    <2>1. more(k) # {} \/ actual'[k] = actual[k]
        OBVIOUS
    <2>2. Settles(k, more(k)) /\ Shows(state', k) = Shows(state, k)
        OBVIOUS
    <2> HIDE DEF more
    <2> QED  BY <2>1, <2>2, QuietKeeps
<1> QED  BY <1>1 DEF Kept

\* One whose response is published.
LEMMA ReportingKeeps ==
    ASSUME NInv, VInv, NoneIsNothing, NEW enabled \in BOOLEAN,
           NEW response \in Responses(enabled), set_reporting_state(enabled, response),
           Published(response), UNCHANGED <<loop, backlog, state>>, CauseForm',
           \A k \in Watched :
                Settles(k, IF k = REPORTING /\ (response = None \/ ~Subscribed)
                           THEN {"unanswered"} ELSE {})
    PROVE  Kept
<1> DEFINE more(k) == IF k = REPORTING /\ (response = None \/ ~Subscribed)
                      THEN {"unanswered"} ELSE {}
<1>1. \A k \in Watched : Settles(k, more(k))
    OBVIOUS
<1>2. \A k : Shows(state', k) = Shows(state, k)
    OBVIOUS
<1>3. CASE response # None /\ Subscribed
    <2>1. response \in Payloads /\ Tells(response, actual')
        BY <1>3, ReportingOutcome
    <2>2. Pending' = Append(Pending, response) /\ Pending \in Seq(Payloads)
        BY <1>3, PublishedPending, PendingType
    <2> HIDE DEF more
    <2>3. \A k \in Watched : Keeps(k)
        BY <1>1, <1>2, <2>1, <2>2, AppendKeeps
    <2> QED  BY <2>3 DEF Kept
<1>4. CASE response = None \/ ~Subscribed
    <2>1. Pending' = Pending
        BY <1>4, PublishedPending DEF Published, Pending
    <2>2. \A k \in Watched \ {REPORTING} : actual'[k] = actual[k]
        BY ReportingOutcome
    <2>3. \A k \in Watched : Settles(k, IF k = REPORTING THEN {"unanswered"} ELSE {})
        BY <1>1, <1>4
    <2> QED  BY <2>1, <2>2, <2>3, UnansweredKeeps
<1> QED  BY <1>3, <1>4

LEMMA PauseKeeps ==
    ASSUME NInv, VInv, NoneIsNothing, CauseForm, NEW t \in Apps, Pause(t)
    PROVE  Kept
<1>1. UNCHANGED <<loop, backlog, state>>
    BY DEF Pause, controller
<1>2. PICK response \in Responses(FALSE) :
            /\ set_reporting_state(FALSE, response)
            /\ Published(response)
            /\ Settle(state, LAMBDA k : IF k = REPORTING /\ (response = None \/ ~Subscribed)
                                        THEN {"unanswered"} ELSE {})
    BY DEF Pause
<1>3. CauseForm' /\ \A k \in Watched :
                Settles(k, IF k = REPORTING /\ (response = None \/ ~Subscribed)
                           THEN {"unanswered"} ELSE {})
    BY <1>1, <1>2 DEF Settle, CauseForm, Settles
<1> QED  BY <1>1, <1>2, <1>3, ReportingKeeps

LEMMA RestoreKeeps ==
    ASSUME NInv, VInv, NoneIsNothing, CauseForm, NEW t \in Apps, Restore(t)
    PROVE  Kept
<1>1. UNCHANGED <<loop, backlog, state>>
    BY DEF Restore, controller
<1>2. ASSUME NEW response \in Responses(TRUE), set_reporting_state(TRUE, response),
             Published(response),
             Settle(state, LAMBDA k : IF k = REPORTING /\ (response = None \/ ~Subscribed)
                                      THEN {"unanswered"} ELSE {})
      PROVE  Kept
    <2>1. CauseForm' /\ \A k \in Watched :
                Settles(k, IF k = REPORTING /\ (response = None \/ ~Subscribed)
                           THEN {"unanswered"} ELSE {})
        BY <1>1, <1>2 DEF Settle, CauseForm, Settles
    <2> QED  BY <1>1, <1>2, <2>1, ReportingKeeps
<1>3. CASE LastReportingCommand(TRUE) /\ UNCHANGED queue
            /\ Settle(state, LAMBDA k : IF k = REPORTING THEN {"unanswered"} ELSE {})
    <2>1. \A k \in Watched \ {REPORTING} : actual'[k] = actual[k]
        BY <1>3, LastReportingOutcome
    <2>2. Pending' = Pending
        BY <1>1, <1>3 DEF Pending
    <2>3. CauseForm' /\ \A k \in Watched :
                Settles(k, IF k = REPORTING THEN {"unanswered"} ELSE {})
        BY <1>1, <1>3 DEF Settle, CauseForm, Settles
    <2> QED  BY <1>1, <2>1, <2>2, <2>3, UnansweredKeeps
<1>4. CASE UNCHANGED <<actual, queue, cause>>
    BY <1>1, <1>4, SteadyKeeps
<1> QED  BY <1>2, <1>3, <1>4 DEF Restore

LEMMA CloseKeeps ==
    ASSUME VInv, CauseForm, NEW t \in Apps, Close(t)
    PROVE  Kept
<1>1. UNCHANGED <<loop, backlog, queue, state>>
    BY DEF Close, controller
<1>2. \A k \in Watched \ {REPORTING} : actual'[k] = actual[k]
    BY LastReportingOutcome DEF Close
<1>3. Pending' = Pending
    BY <1>1 DEF Pending
<1>4. CauseForm' /\ \A k \in Watched :
            Settles(k, IF k = REPORTING THEN {"unanswered"} ELSE {})
    BY <1>1 DEF Close, Settle, CauseForm, Settles
<1> QED  BY <1>1, <1>2, <1>3, <1>4, UnansweredKeeps

\* The messages that are dropped are a cause of their own.
LEMMA StopKeeps ==
    ASSUME CauseForm, NEW t \in Apps, Stop(t)
    PROVE  Kept
<1> DEFINE more(k) == IF \E i \in DOMAIN queue : KeyOf(from_bytes(queue[i])) = k
                      THEN {"dropped"} ELSE {}
<1>1. UNCHANGED <<actual, backlog, state>> /\ loop' = "none"
    BY DEF Stop, Calls, network
<1>2. CauseForm' /\ \A k \in Watched : Settles(k, more(k))
    BY <1>1 DEF Stop, Settle, CauseForm, Settles
<1>3. \A k : Shows(state', k) = Shows(state, k)
    BY <1>1
<1>4. ASSUME NEW k \in Watched
      PROVE  Keeps(k)
    <2>1. more(k) # {} \/ ~Told(queue, k, actual[k])
        BY DEF Told, Carries
    <2>2. Told(Pending, k, actual[k]) => (more(k) # {} \/ Told(Pending', k, actual[k]))
        BY <1>1, <2>1 DEF Pending
    <2>3. Settles(k, more(k)) /\ Shows(state', k) = Shows(state, k) /\ actual'[k] = actual[k]
        BY <1>1, <1>2, <1>3
    <2> HIDE DEF more
    <2> QED  BY <2>2, <2>3, QuietKeeps
<1> QED  BY <1>2, <1>4 DEF Kept

\* An answer that confirms a setter is about its value.
LEMMA ConfirmationIsAbout ==
    ASSUME NEW method \in SetterMethods, NEW address \in Int, NEW fields, NEW message,
           matches(for_command(create("UPDATE", method, fields), address, fields), message)
    PROVE  KeyOf(message) = Key(address, method)
<1> DEFINE match == for_command(create("UPDATE", method, fields), address, fields)
<1>1. match.method = method /\ match.address = address
    BY DEF for_command, create
<1> HIDE DEF match
<1>2. message.method = method /\ address \in {None, field(message, "address")}
    BY <1>1 DEF matches, match
<1>3. address # None
    BY NoneAssumption
<1>4. /\ Head(METHOD_SPECS[method]).name = "address" /\ Len(METHOD_SPECS[method]) # 1
    <2>1. \A name, size : /\ Head(SetbackBody(name, size)).name = "address"
                          /\ Len(SetbackBody(name, size)) = 3
                          /\ Head(DeviceBody(name, size)).name = "address"
                          /\ Len(DeviceBody(name, size)) = 2
        BY DEF SetbackBody, DeviceBody, Field
    <2>2. \E name, size : METHOD_SPECS[method] \in {SetbackBody(name, size), DeviceBody(name, size)}
        BY DEF METHOD_SPECS, SetterMethods
    <2> QED  BY <2>1, <2>2
<1> QED  BY <1>2, <1>3, <1>4 DEF KeyOf

LEMMA SetKeeps ==
    ASSUME NInv, VInv, NoneIsNothing, CauseForm, NEW t \in Apps, NEW method \in SetterMethods,
           NEW address \in Int, NEW value \in Int, SetLatest(t, method, address, value)
    PROVE  Kept
<1> DEFINE fields == Payload(method, address, value)
           command == create("UPDATE", method, fields)
           pending == Append(commands, to_bytes(command))
           p == Head(pending)
           more(k) == IF k = Key(address, method) /\ ~Subscribed THEN {"unanswered"} ELSE {}
<1>1. UNCHANGED <<loop, backlog, state>>
    BY SetterLeaves DEF controller
<1>2. \A k : Shows(state', k) = Shows(state, k)
    BY <1>1
<1>3. p \in Sent
    <2>1. to_bytes(command) \in Sent /\ commands \in Seq(Sent)
        BY SetterSent DEF VInv
    <2> QED  BY <2>1, QueueTypes
<1>4. CASE /\ matches(for_command(command, address, fields), from_bytes(Answer(p)))
           /\ actual' = Executed(p)
           /\ Published(Answer(p))
           /\ Settle(state, LAMBDA k : IF k = Key(address, method) /\ ~Subscribed
                                       THEN {"unanswered"} ELSE {})
    <2>1. CauseForm' /\ \A k \in Watched : Settles(k, more(k))
        BY <1>1, <1>4 DEF Settle, CauseForm, Settles
    <2>2. KeyOf(from_bytes(Answer(p))) = Key(address, method)
        BY <1>4, ConfirmationIsAbout
    <2> HIDE DEF p
    <2>3. Answer(p) \in Payloads /\ Answer(p) # None /\ Tells(Answer(p), actual')
        BY <1>3, <1>4, SentAnswers
    <2>4. Pending' = IF Subscribed THEN Append(Pending, Answer(p)) ELSE Pending
        BY <1>1, <1>4, <2>3, PublishedPending
    <2>5. \A k \in Watched : k = Key(address, method) \/ actual'[k] = actual[k]
        BY <2>2, <2>3 DEF Tells, Carries
    <2>6. \A k \in Watched : Subscribed \/ more(k) # {} \/ actual'[k] = actual[k]
        BY <2>5
    <2> HIDE DEF more
    <2>7. \A k \in Watched : Keeps(k)
        BY <1>2, <2>1, <2>3, <2>4, <2>6, PendingType, AppendKeeps, QuietKeeps
    <2> QED  BY <2>1, <2>7 DEF Kept
<1>5. CASE UNCHANGED <<actual, queue, cause>>
    BY <1>1, <1>5, SteadyKeeps
<1>6. GivenUp(to_bytes(command)) => UNCHANGED actual
    BY DEF GivenUp
<1> QED  BY <1>4, <1>5, <1>6 DEF SetLatest

-----------------------------------------------------------------------------
(* What the data of a state show *)

InData(data, k) ==
    IF k[2] = "SETPOINT_GROUP_ENABLE" THEN {data.gateway[k[2]][k[1]]}
    ELSE IF k[2] \in GATEWAY_METHODS THEN {data.gateway[k[2]]}
    ELSE {s.values[k[2]] : s \in {s \in ToSet(data.devices) :
                                s.info.address = k[1] /\ k[2] \in DOMAIN s.values}}

LEMMA ShowsInData ==
    ASSUME NEW st, NEW k, st # None
    PROVE  Shows(st, k) = InData(st.data, k)
BY DEF Shows, InData

\* What the gateway is polled for is in its snapshot.
GatewayForm(gateway) ==
    /\ PolledMethods \cup {"SETPOINT_GROUP_ENABLE"} \subseteq DOMAIN gateway
    /\ Groups \subseteq DOMAIN gateway["SETPOINT_GROUP_ENABLE"]

LEMMA InGateway ==
    ASSUME NEW data, NEW id, NEW method \in PolledMethods
    PROVE  InData(data, Key(id, method)) = {data.gateway[method]}
BY DEF InData, Key, PolledMethods

LEMMA InGroup ==
    ASSUME NEW data, NEW id
    PROVE  InData(data, Key(id, "SETPOINT_GROUP_ENABLE"))
                = {data.gateway["SETPOINT_GROUP_ENABLE"][id]}
BY DEF InData, Key

LEMMA InDevices ==
    ASSUME NEW data, NEW id, NEW method \in DEVICE_VALUE_METHODS, NEW x
    PROVE  x \in InData(data, Key(id, method))
                <=> \E i \in DOMAIN data.devices :
                        /\ data.devices[i].info.address = id
                        /\ method \in DOMAIN data.devices[i].values
                        /\ x = data.devices[i].values[method]
<1>1. method \notin GATEWAY_METHODS /\ method # "SETPOINT_GROUP_ENABLE"
    BY DEF DEVICE_VALUE_METHODS, HumidityMethods, GATEWAY_METHODS
<1>2. InData(data, Key(id, method))
        = {s.values[method] : s \in {s \in ToSet(data.devices) :
                                s.info.address = id /\ method \in DOMAIN s.values}}
    BY <1>1 DEF InData, Key
<1>3. ToSet(data.devices) = {data.devices[i] : i \in DOMAIN data.devices}
    BY DEF ToSet
<1> QED  BY <1>2, <1>3

\* Every position is somewhere in the sequence of the positions.
LEMMA InOrderOnto ==
    ASSUME NEW n \in Nat, NEW P \in SUBSET (1 .. n), NEW i \in P
    PROVE  \E j \in DOMAIN InOrder(P) : InOrder(P)[j] = i
<1> DEFINE m == Cardinality(P)
           s == InOrder(P)
<1>1. IsFiniteSet(P)
    <2>1. IsFiniteSet(1 .. n)
        BY FS_Interval
    <2> QED  BY <2>1, FS_Subset
<1>2. m \in Nat
    BY <1>1, FS_CardinalityType
<1>3. s \in [1 .. m -> P] /\ Increasing(s)
    <2>1. s = CHOOSE r \in [1 .. m -> P] : Increasing(r)
        BY DEF InOrder, Increasing
    <2> HIDE DEF s, m
    <2>2. \E r \in [1 .. m -> P] : Increasing(r)
        BY IncreasingExists DEF m
    <2> QED  BY <2>1, <2>2
<1> HIDE DEF m, s
<1>4. \A j, l \in 1 .. m : s[j] = s[l] => j = l
    <2>1. ASSUME NEW j \in 1 .. m, NEW l \in 1 .. m, j < l
          PROVE  s[j] # s[l]
        <3>1. s[j] < s[l] /\ s[j] \in 1 .. n /\ s[l] \in 1 .. n
            BY <1>3, <2>1 DEF Increasing
        <3> QED  BY <3>1
    <2> QED  BY <1>2, <2>1
<1>5. s \in Injection(1 .. m, P)
    BY <1>3, <1>4 DEF Injection, IsInjective
<1>6. Cardinality(1 .. m) = m
    BY <1>2, FS_Interval
<1>7. s \in Surjection(1 .. m, P)
    BY <1>1, <1>5, <1>6, FS_Injection DEF m
<1>8. \E j \in 1 .. m : s[j] = i
    BY <1>7 DEF Surjection
<1> QED  BY <1>3, <1>8 DEF s

-----------------------------------------------------------------------------
(* What a message makes of them *)

LEMMA FlagOfFlag ==
    ASSUME NEW method \in FlagMethods, NEW value \in Roomy(method)
    PROVE  Flag(value) = value
<1>1. Room(method) = 2
    BY DEF Room
<1>2. value \in {0, 1}
    BY <1>1 DEF Roomy
<1> QED  BY <1>2 DEF Flag

\* What the messages of the gateway are about.
LEMMA GatewayKey ==
    ASSUME NEW message, message.method \in GATEWAY_METHODS
    PROVE  /\ message.method \in PolledMethods => KeyOf(message) = Key(0, message.method)
           /\ message.method = "SETPOINT_GROUP_ENABLE" =>
                KeyOf(message) = Key(field(message, "group_id"), message.method)
<1>1. ASSUME message.method \in PolledMethods
      PROVE  KeyOf(message) = Key(0, message.method)
    <2>1. PICK name \in Names, size \in 1 .. 2 : OneField(message.method, name, size)
        BY <1>1, GatewaySpecs
    <2>2. Len(METHOD_SPECS[message.method]) = 1
        BY <2>1 DEF OneField
    <2> QED  BY <2>2 DEF KeyOf
<1>2. ASSUME message.method = "SETPOINT_GROUP_ENABLE"
      PROVE  KeyOf(message) = Key(field(message, "group_id"), message.method)
    <2>1. METHOD_SPECS[message.method] = <<Field("group_id", 1), Field("enable", 1)>>
        BY <1>2 DEF METHOD_SPECS
    <2>2. Len(METHOD_SPECS[message.method]) = 2
          /\ Head(METHOD_SPECS[message.method]).name = "group_id"
        BY <2>1 DEF Field
    <2> QED  BY <2>2 DEF KeyOf
<1> QED  BY <1>1, <1>2

\* And those of a device.
LEMMA DeviceKey ==
    ASSUME NEW message, message.method \in DEVICE_VALUE_METHODS \cup SETPOINT_METHODS
    PROVE  KeyOf(message) = Key(field(message, "address"), message.method)
<1>1. \A name, size : /\ Head(SetbackBody(name, size)).name = "address"
                      /\ Len(SetbackBody(name, size)) = 3
                      /\ Head(DeviceBody(name, size)).name = "address"
                      /\ Len(DeviceBody(name, size)) = 2
    BY DEF SetbackBody, DeviceBody, Field
<1>2. \E name, size :
        METHOD_SPECS[message.method] \in {SetbackBody(name, size), DeviceBody(name, size)}
    BY DEF METHOD_SPECS, DEVICE_VALUE_METHODS, HumidityMethods, SETPOINT_METHODS
<1> QED  BY <1>1, <1>2 DEF KeyOf

\* The snapshot of the gateway after a message: the value of the method is new.
LEMMA GatewayMessageSets ==
    ASSUME NEW data, NEW message, Data(data), message.method \in GATEWAY_METHODS
    PROVE  \E x : /\ _apply_gateway_message(data, message)
                        = [gateway |-> [data.gateway EXCEPT ![message.method] = x],
                           devices |-> data.devices]
                  /\ message.method \in PolledMethods \cap FlagMethods => x = Flag(Value(message))
                  /\ message.method \in PolledMethods \ FlagMethods => x = Value(message)
                  /\ message.method = "SETPOINT_GROUP_ENABLE" =>
                        x = Put(data.gateway[message.method], field(message, "group_id"),
                                Flag(Value(message)))
<1> DEFINE method == message.method
           value == Value(message)
           gateway == data.gateway
           after == _apply_gateway_message(data, message)
           x == IF method \in {"REPORTING_STATE", "SETBACK_ENABLE"} THEN Flag(value)
                ELSE IF method = "SETPOINT_GROUP_ENABLE"
                     THEN Put(gateway[method], field(message, "group_id"), Flag(value))
                ELSE IF method = "DATE_TIME" THEN message.body ELSE value
<1>1. after = [data EXCEPT !.gateway[method] = x]
    BY DEF _apply_gateway_message, Value
<1>2. data = [gateway |-> gateway, devices |-> data.devices]
    BY DEF Data
<1> HIDE DEF x, after, gateway
<1>3. after = [gateway |-> [gateway EXCEPT ![method] = x], devices |-> data.devices]
    BY <1>1, <1>2
<1>4. /\ method \in PolledMethods \cap FlagMethods => x = Flag(value)
      /\ method \in PolledMethods \ FlagMethods => x = value
      /\ method = "SETPOINT_GROUP_ENABLE" =>
            x = Put(gateway[method], field(message, "group_id"), Flag(value))
    BY DEF x, PolledMethods, FlagMethods, GATEWAY_METHODS
<1> QED  BY <1>3, <1>4 DEF after, gateway

LEMMA GatewayMessageShows ==
    ASSUME NEW data, NEW message, Data(data), GatewayForm(data.gateway),
           message.method \in GATEWAY_METHODS
    PROVE  /\ GatewayForm(_apply_gateway_message(data, message).gateway)
           /\ \A k \in Watched :
                /\ KeyOf(message) # k =>
                    InData(_apply_gateway_message(data, message), k) = InData(data, k)
                /\ KeyOf(message) = k /\ Value(message) \in Roomy(k[2]) =>
                    InData(_apply_gateway_message(data, message), k) = {Value(message)}
<1> DEFINE method == message.method
           value == Value(message)
           group == "SETPOINT_GROUP_ENABLE"
           gateway == data.gateway
           after == _apply_gateway_message(data, message)
<1>1. PICK x : /\ after = [gateway |-> [gateway EXCEPT ![method] = x], devices |-> data.devices]
               /\ method \in PolledMethods \cap FlagMethods => x = Flag(value)
               /\ method \in PolledMethods \ FlagMethods => x = value
               /\ method = group => x = Put(gateway[method], field(message, "group_id"), Flag(value))
    BY GatewayMessageSets
<1> HIDE DEF after, value, gateway
<1>2. /\ DOMAIN after.gateway = DOMAIN gateway /\ after.devices = data.devices
      /\ \A m \in DOMAIN gateway : m # method => after.gateway[m] = gateway[m]
      /\ method \in DOMAIN gateway => after.gateway[method] = x
    BY <1>1
<1>3. /\ PolledMethods \subseteq DOMAIN gateway /\ group \in DOMAIN gateway
      /\ Groups \subseteq DOMAIN gateway[group]
    BY DEF GatewayForm, gateway
<1>4. ASSUME method = group
      PROVE  /\ after.gateway[group] = Put(gateway[group], field(message, "group_id"), Flag(value))
             /\ \A id \in Groups : id \in DOMAIN after.gateway[group]
             /\ \A id \in Groups : after.gateway[group][id]
                    = IF id = field(message, "group_id") THEN Flag(value) ELSE gateway[group][id]
    <2>1. after.gateway[group] = Put(gateway[group], field(message, "group_id"), Flag(value))
        BY <1>1, <1>2, <1>3, <1>4
    <2> QED  BY <1>3, <2>1 DEF Put
<1>5. GatewayForm(after.gateway)
    <2>1. Groups \subseteq DOMAIN after.gateway[group]
        BY <1>2, <1>3, <1>4
    <2> QED  BY <1>2, <1>3, <2>1 DEF GatewayForm
<1>6. ASSUME NEW k \in Watched
      PROVE  /\ KeyOf(message) # k => InData(after, k) = InData(data, k)
             /\ KeyOf(message) = k /\ value \in Roomy(k[2]) => InData(after, k) = {value}
    <2> DEFINE id == k[1]
               m == k[2]
    <2>1. k = Key(id, m)
        BY WatchedKinds
    <2>2. \/ id = 0 /\ m \in PolledMethods
          \/ id \in Groups /\ m = group
          \/ m \in DEVICE_VALUE_METHODS
        BY WatchedKinds DEF OfGateway, OfGroup, OfDevice
    <2>3. ASSUME KeyOf(message) = k
          PROVE  m = method
        BY <2>1, <2>3 DEF KeyOf, Key
    <2> HIDE DEF id, m
    <2>4. CASE id = 0 /\ m \in PolledMethods
        <3>1. InData(after, k) = {after.gateway[m]} /\ InData(data, k) = {gateway[m]}
            BY <2>1, <2>4, InGateway DEF gateway
        <3>2. CASE m # method
            <4>1. after.gateway[m] = gateway[m]
                BY <1>2, <1>3, <2>4, <3>2
            <4> QED  BY <2>3, <3>1, <3>2, <4>1
        <3>3. CASE m = method
            <4>1. KeyOf(message) = k
                BY <2>1, <2>4, <3>3, GatewayKey
            <4>2. ASSUME value \in Roomy(m)
                  PROVE  x = value
                BY <1>1, <2>4, <3>3, <4>2, FlagOfFlag
            <4>3. after.gateway[m] = x
                BY <1>2, <1>3, <2>4, <3>3
            <4> QED  BY <3>1, <4>1, <4>2, <4>3 DEF m
        <3> QED  BY <3>2, <3>3
    <2>5. CASE id \in Groups /\ m = group
        <3>1. InData(after, k) = {after.gateway[group][id]} /\ InData(data, k) = {gateway[group][id]}
            BY <2>1, <2>5, InGroup DEF gateway
        <3>2. CASE m # method
            <4>1. after.gateway[group] = gateway[group]
                BY <1>2, <1>3, <2>5, <3>2
            <4> QED  BY <2>3, <3>1, <3>2, <4>1
        <3>3. CASE m = method
            <4>1. KeyOf(message) = Key(field(message, "group_id"), group)
                BY <2>5, <3>3, GatewayKey
            <4>2. KeyOf(message) = k <=> id = field(message, "group_id")
                BY <2>1, <2>5, <4>1 DEF Key
            <4>3. after.gateway[group][id]
                    = IF id = field(message, "group_id") THEN Flag(value) ELSE gateway[group][id]
                BY <1>4, <2>5, <3>3
            <4>4. ASSUME value \in Roomy(m)
                  PROVE  Flag(value) = value
                <5>1. m \in FlagMethods
                    BY <2>5 DEF FlagMethods
                <5> QED  BY <4>4, <5>1, FlagOfFlag
            <4> QED  BY <3>1, <4>2, <4>3, <4>4 DEF m
        <3> QED  BY <3>2, <3>3
    <2>6. CASE m \in DEVICE_VALUE_METHODS
        <3>1. m # method
            BY <2>6 DEF DEVICE_VALUE_METHODS, HumidityMethods, GATEWAY_METHODS
        <3>2. \A y : y \in InData(after, k) <=> y \in InData(data, k)
            BY <1>2, <2>1, <2>6, InDevices
        <3>3. InData(after, k) = InData(data, k)
            <4>1. \A y : y \in InData(after, k) <=> y \in InData(data, k)
                BY <3>2
            <4> QED  BY <4>1 DEF InData
        <3> QED  BY <2>3, <3>1, <3>3
    <2> QED  BY <2>2, <2>4, <2>5, <2>6
<1> QED  BY <1>5, <1>6 DEF after, value

\* The snapshots after a message for a device: theirs are the values that were
\* there, and the new one.
LEMMA SnapshotUpdated ==
    ASSUME NEW data, NEW message, Data(data), NEW s \in UpdatedSnapshots(data, message)
    PROVE  \E i \in DOMAIN data.devices :
                /\ s.info = data.devices[i].info
                /\ s.values = IF s.info.address = field(message, "address")
                              THEN Updated(data.devices[i].values, message)
                              ELSE data.devices[i].values
<1> DEFINE new(r) == IF r.info.address = field(message, "address")
                     THEN [r EXCEPT !.values = Updated(@, message)] ELSE r
<1>1. UpdatedSnapshots(data, message) = {new(r) : r \in ToSet(data.devices)}
    BY DEF UpdatedSnapshots
<1> HIDE DEF new
<1>2. PICK i \in DOMAIN data.devices : s = new(data.devices[i])
    BY <1>1 DEF ToSet
<1> DEFINE r == data.devices[i]
           values == Updated(r.values, message)
<1>3. r = [info |-> r.info, values |-> r.values]
    BY DEF Data, Complete
<1>4. CASE r.info.address = field(message, "address")
    <2>1. s = [r EXCEPT !.values = values]
        BY <1>2, <1>4 DEF new
    <2> HIDE DEF values, r
    <2>2. s.info = r.info /\ s.values = values
        BY <1>3, <2>1
    <2> QED  BY <1>4, <2>2 DEF values, r
<1>5. CASE r.info.address # field(message, "address")
    <2>1. s = r
        BY <1>2, <1>5 DEF new
    <2> QED  BY <1>5, <2>1 DEF r
<1> QED  BY <1>4, <1>5

\* The snapshots of the state, if it has one of the device: those of devices that
\* it knows and had snapshots of, in their order.
Replaced(devices, data, message) ==
    LET P == {i \in DOMAIN devices : devices[i].address \in SnapshotAddresses(data)}
        snapshots == _apply_device_message(devices, data, message).devices
    IN  /\ DOMAIN snapshots = DOMAIN InOrder(P)
        /\ \A j \in DOMAIN snapshots :
            /\ InOrder(P)[j] \in P
            /\ snapshots[j] \in UpdatedSnapshots(data, message)
            /\ snapshots[j].info.address = devices[InOrder(P)[j]].address

LEMMA DeviceMessageReplaces ==
    ASSUME NEW devices \in Inventories, NEW data, NEW message, Data(data)
    PROVE  /\ _apply_device_message(devices, data, message).gateway = data.gateway
           /\ \/ _apply_device_message(devices, data, message) = data
              \/ Replaced(devices, data, message)
           /\ /\ field(message, "address") \in SnapshotAddresses(data)
              /\ message.method \notin SETPOINT_METHODS
              => Replaced(devices, data, message)
<1> DEFINE after == _apply_device_message(devices, data, message)
           P == {i \in DOMAIN devices : devices[i].address \in SnapshotAddresses(data)}
           kept == InOrder(P)
           snapshot(j) == CHOOSE s \in UpdatedSnapshots(data, message) :
                                s.info.address = devices[kept[j]].address
           snapshots == [j \in DOMAIN kept |-> snapshot(j)]
           kept_as_is == \/ field(message, "address") \notin SnapshotAddresses(data)
                         \/ message.method \in SETPOINT_METHODS
                                /\ field(message, "setback") \notin 0 .. 7
<1>1. after = IF kept_as_is THEN data ELSE [data EXCEPT !.devices = snapshots]
    BY DEF _apply_device_message
<1>2. PICK n \in Nat : DOMAIN devices = 1 .. n
    BY InventoryIsSequence
<1>3. P \in SUBSET (1 .. n)
    BY <1>2
<1> HIDE DEF P
<1>4. kept \in [1 .. Cardinality(P) -> P]
    BY <1>3, InOrderType
<1>5. \A j \in DOMAIN kept : kept[j] \in P
    BY <1>4
<1> HIDE DEF kept
<1>6. ASSUME NEW j \in DOMAIN kept
      PROVE  /\ snapshot(j) \in UpdatedSnapshots(data, message)
             /\ snapshot(j).info.address = devices[kept[j]].address
    <2>1. PICK i \in DOMAIN data.devices :
                data.devices[i].info.address = devices[kept[j]].address
        BY <1>5 DEF P, SnapshotAddresses, ToSet
    <2>2. PICK s \in UpdatedSnapshots(data, message) : s.info = data.devices[i].info
        BY UpdatedSnapshotsComplete
    <2>3. s.info.address = devices[kept[j]].address
        BY <2>1, <2>2
    <2> QED  BY <2>3
<1> HIDE DEF snapshot, after, kept_as_is
<1>7. DOMAIN snapshots = DOMAIN kept /\ \A j \in DOMAIN kept : snapshots[j] = snapshot(j)
    OBVIOUS
<1> HIDE DEF snapshots
<1>8. [data EXCEPT !.devices = snapshots] = [gateway |-> data.gateway, devices |-> snapshots]
    BY DEF Data
<1>9. CASE kept_as_is
    <2>1. after = data
        BY <1>1, <1>9
    <2>2. ~(field(message, "address") \in SnapshotAddresses(data)
                /\ message.method \notin SETPOINT_METHODS)
        BY <1>9 DEF kept_as_is
    <2> QED  BY <2>1, <2>2 DEF after
<1>10. CASE ~kept_as_is
    <2>1. after.gateway = data.gateway /\ after.devices = snapshots
        BY <1>1, <1>8, <1>10
    <2>2. Replaced(devices, data, message)
        BY <1>5, <1>6, <1>7, <2>1 DEF Replaced, after, kept, P
    <2> QED  BY <2>1, <2>2 DEF after
<1> QED  BY <1>9, <1>10

LEMMA DeviceMessageShows ==
    ASSUME NEW devices \in Inventories, NEW data, NEW message, Data(data),
           message.method \in DEVICE_VALUE_METHODS \cup SETPOINT_METHODS,
           NEW k \in Watched
    PROVE  /\ KeyOf(message) # k =>
                InData(_apply_device_message(devices, data, message), k) \subseteq InData(data, k)
           /\ /\ KeyOf(message) = k
              /\ k[1] \in Addresses(devices) /\ k[1] \in SnapshotAddresses(data)
              => InData(_apply_device_message(devices, data, message), k) = {Value(message)}
<1> DEFINE id == k[1]
           m == k[2]
           method == message.method
           address == field(message, "address")
           value == Value(message)
           after == _apply_device_message(devices, data, message)
           P == {i \in DOMAIN devices : devices[i].address \in SnapshotAddresses(data)}
           kept == InOrder(P)
<1>1. k = Key(id, m) /\ (OfGateway(k) \/ OfGroup(k) \/ OfDevice(k))
    BY WatchedKinds
<1>2. KeyOf(message) = Key(address, method)
    BY DeviceKey
<1>3. KeyOf(message) = k <=> address = id /\ method = m
    BY <1>1, <1>2 DEF Key
<1>4. after.gateway = data.gateway /\ (after = data \/ Replaced(devices, data, message))
    BY DeviceMessageReplaces
<1>5. CASE OfGateway(k) \/ OfGroup(k)
    <2>1. InData(after, k) = InData(data, k)
        BY <1>4, <1>5 DEF InData, OfGateway, OfGroup, PolledMethods
    <2>2. m # method
        BY <1>5 DEF OfGateway, OfGroup, PolledMethods, GATEWAY_METHODS, DEVICE_VALUE_METHODS,
                    HumidityMethods, SETPOINT_METHODS
    <2> QED  BY <1>3, <2>1, <2>2
<1>6. CASE OfDevice(k)
    <2>1. m \in DEVICE_VALUE_METHODS
        BY <1>6 DEF OfDevice
    <2> HIDE DEF id, m, address, method, value
    <2>2. \A x : x \in InData(data, k) <=>
                \E i \in DOMAIN data.devices :
                    /\ data.devices[i].info.address = id
                    /\ m \in DOMAIN data.devices[i].values
                    /\ x = data.devices[i].values[m]
        BY <1>1, <2>1, InDevices
    <2>3. \A x : x \in InData(after, k) <=>
                \E j \in DOMAIN after.devices :
                    /\ after.devices[j].info.address = id
                    /\ m \in DOMAIN after.devices[j].values
                    /\ x = after.devices[j].values[m]
        BY <1>1, <2>1, InDevices
    <2>4. \A values : /\ method \in DOMAIN Updated(values, message)
                      /\ method \notin SETPOINT_METHODS => Updated(values, message)[method] = value
                      /\ \A other \in DOMAIN Updated(values, message) : other # method =>
                            /\ other \in DOMAIN values
                            /\ Updated(values, message)[other] = values[other]
        BY DEF Updated, Put, method, value, Value
    <2>5. ASSUME KeyOf(message) # k, NEW x \in InData(after, k), Replaced(devices, data, message)
          PROVE  x \in InData(data, k)
        <3>1. PICK j \in DOMAIN after.devices :
                    /\ after.devices[j].info.address = id
                    /\ m \in DOMAIN after.devices[j].values
                    /\ x = after.devices[j].values[m]
            BY <2>3, <2>5
        <3>2. after.devices[j] \in UpdatedSnapshots(data, message)
            BY <2>5 DEF Replaced
        <3> DEFINE s == after.devices[j]
        <3> HIDE DEF after
        <3>3. PICK i \in DOMAIN data.devices :
                    /\ s.info = data.devices[i].info
                    /\ s.values = IF s.info.address = address
                                  THEN Updated(data.devices[i].values, message)
                                  ELSE data.devices[i].values
            BY <3>2, SnapshotUpdated DEF address
        <3>4. s.info.address = address => m # method
            BY <1>3, <2>5, <3>1
        <3>5. m \in DOMAIN data.devices[i].values /\ x = data.devices[i].values[m]
            BY <2>4, <3>1, <3>3, <3>4
        <3>6. data.devices[i].info.address = id
            BY <3>1, <3>3
        <3> QED  BY <2>2, <3>5, <3>6
    <2>6. ASSUME KeyOf(message) # k
          PROVE  InData(after, k) \subseteq InData(data, k)
        BY <1>4, <2>5, <2>6
    <2>7. ASSUME KeyOf(message) = k, id \in Addresses(devices), id \in SnapshotAddresses(data)
          PROVE  InData(after, k) = {value}
        <3>1. address = id /\ method = m /\ method \notin SETPOINT_METHODS
            BY <1>3, <2>1, <2>7 DEF DEVICE_VALUE_METHODS, HumidityMethods, SETPOINT_METHODS
        <3>2. Replaced(devices, data, message)
            BY <2>7, <3>1, DeviceMessageReplaces DEF address, method
        <3>3. PICK n \in Nat : DOMAIN devices = 1 .. n
            BY InventoryIsSequence
        <3>4. PICK i \in P : devices[i].address = id
            BY <2>7 DEF Addresses
        <3>5. P \in SUBSET (1 .. n)
            BY <3>3
        <3> HIDE DEF P, after
        <3>6. PICK j \in DOMAIN kept : kept[j] = i
            BY <3>4, <3>5, InOrderOnto
        <3>7. /\ DOMAIN after.devices = DOMAIN kept
              /\ \A l \in DOMAIN after.devices :
                    after.devices[l] \in UpdatedSnapshots(data, message)
              /\ \A l \in DOMAIN after.devices :
                    after.devices[l].info.address = devices[kept[l]].address
            BY <3>2 DEF Replaced, P, after
        <3> HIDE DEF kept
        <3>8. ASSUME NEW l \in DOMAIN after.devices, after.devices[l].info.address = id
              PROVE  m \in DOMAIN after.devices[l].values /\ after.devices[l].values[m] = value
            <4> DEFINE s == after.devices[l]
            <4>1. PICK h \in DOMAIN data.devices :
                    /\ s.info = data.devices[h].info
                    /\ s.values = IF s.info.address = address
                                  THEN Updated(data.devices[h].values, message)
                                  ELSE data.devices[h].values
                BY <3>7, SnapshotUpdated DEF address
            <4>2. s.values = Updated(data.devices[h].values, message)
                BY <3>1, <3>8, <4>1
            <4> QED  BY <2>4, <3>1, <4>2
        <3>9. j \in DOMAIN after.devices /\ after.devices[j].info.address = id
            BY <3>4, <3>6, <3>7
        <3>10. \A x : x \in InData(after, k) <=> x = value
            BY <2>3, <3>8, <3>9 DEF after
        <3> HIDE DEF after
        <3> QED  BY <3>10
    <2> QED  BY <2>6, <2>7 DEF id, value
<1> QED  BY <1>1, <1>5, <1>6

\* The state has a place for the value: that of a device needs a snapshot, and a
\* device that is known.
Knows(st, k) ==
    OfDevice(k) => k[1] \in Addresses(st.discovery) /\ k[1] \in SnapshotAddresses(st.data)

\* The reducer (state.py:172-301): after a message about a value, a state that has a
\* place for it shows what the message says; without a place, or from another
\* service, the message changes nothing; and it adds nothing to what the state shows
\* of other values, and takes nothing away if it is about the gateway.
THEOREM MessagesAreShown ==
    ASSUME NEW st, NEW message, Form(st), Data(st.data), st.discovery \in Inventories,
           GatewayForm(st.data.gateway)
    PROVE  /\ GatewayForm(Applied(st, message).data.gateway)
           /\ \A k \in Watched :
                /\ KeyOf(message) # k =>
                    InData(Applied(st, message).data, k) \subseteq InData(st.data, k)
                /\ KeyOf(message) # k /\ message.method \in GATEWAY_METHODS =>
                    InData(Applied(st, message).data, k) = InData(st.data, k)
                /\ /\ KeyOf(message) = k /\ message.service \in RUNTIME_SERVICES
                   /\ Value(message) \in Roomy(k[2]) /\ Knows(st, k)
                   => InData(Applied(st, message).data, k) = {Value(message)}
                /\ /\ KeyOf(message) = k
                   /\ message.service \notin RUNTIME_SERVICES \/ ~Knows(st, k)
                   => Applied(st, message) = st
<1> DEFINE devices == st.discovery
           data == st.data
           after == Applied(st, message)
           new == apply_message(devices, data, message)
           device_methods == DEVICE_VALUE_METHODS \cup SETPOINT_METHODS
           address == field(message, "address")
<1>1. after = [discovery |-> devices, data |-> new] /\ st = [discovery |-> devices, data |-> data]
    BY DEF Applied, Form
<1> HIDE DEF after
<1>2. GATEWAY_METHODS \cap device_methods = {}
    BY DEF GATEWAY_METHODS, DEVICE_VALUE_METHODS, HumidityMethods, SETPOINT_METHODS
<1>3. new = IF ~is_runtime_message(message) THEN data
            ELSE IF message.method \in GATEWAY_METHODS THEN _apply_gateway_message(data, message)
            ELSE IF message.method \in device_methods /\ address \in Addresses(devices)
                 THEN _apply_device_message(devices, data, message)
            ELSE data
    <2> DEFINE runtime == is_runtime_message(message)
               gateway == message.method \in GATEWAY_METHODS
               device == message.method \in device_methods /\ address \in Addresses(devices)
               one == _apply_gateway_message(data, message)
               other == _apply_device_message(devices, data, message)
    <2>1. new = CASE runtime /\ gateway -> one [] runtime /\ device -> other [] OTHER -> data
        BY DEF apply_message
    <2>2. ~(gateway /\ device)
        BY <1>2
    <2> HIDE DEF new, runtime, gateway, device, one, other
    <2>3. new = IF ~runtime THEN data ELSE IF gateway THEN one ELSE IF device THEN other ELSE data
        BY <2>1, <2>2
    <2> QED  BY <2>3 DEF runtime, gateway, device, one, other
<1> HIDE DEF new
<1>4. after.data = new /\ (new = data => after = st)
    BY <1>1
<1>5. GatewayForm(new.gateway)
    BY <1>3, GatewayMessageShows, DeviceMessageReplaces
<1>6. ASSUME NEW k \in Watched, KeyOf(message) # k
      PROVE  /\ InData(new, k) \subseteq InData(data, k)
             /\ message.method \in GATEWAY_METHODS => InData(new, k) = InData(data, k)
    <2>1. CASE message.method \in GATEWAY_METHODS
        BY <1>3, <1>6, <2>1, GatewayMessageShows
    <2>2. CASE message.method \notin GATEWAY_METHODS
        BY <1>3, <1>6, <2>2, DeviceMessageShows
    <2> QED  BY <2>1, <2>2
<1>7. ASSUME NEW k \in Watched, KeyOf(message) = k
      PROVE  /\ Known(message.method) /\ message.method = k[2]
             /\ OfDevice(k) => message.method \in device_methods /\ address = k[1]
             /\ ~OfDevice(k) => message.method \in GATEWAY_METHODS
    <2>1. message.method = k[2]
        BY <1>7 DEF KeyOf, Key
    <2>2. Known(message.method)
        BY <2>1, WatchedKeys DEF Known
    <2>3. ASSUME OfDevice(k)
          PROVE  message.method \in device_methods /\ address = k[1]
        <3>1. message.method \in device_methods
            BY <2>1, <2>3 DEF OfDevice
        <3>2. KeyOf(message) = Key(address, message.method)
            BY <3>1, DeviceKey
        <3> QED  BY <1>7, <3>1, <3>2 DEF Key
    <2>4. ASSUME ~OfDevice(k)
          PROVE  message.method \in GATEWAY_METHODS
        BY <2>1, <2>4, WatchedKinds DEF OfGateway, OfGroup, PolledMethods, GATEWAY_METHODS
    <2> QED  BY <2>1, <2>2, <2>3, <2>4
<1>8. ASSUME NEW k \in Watched, KeyOf(message) = k, message.service \in RUNTIME_SERVICES,
             Value(message) \in Roomy(k[2]), Knows(st, k)
      PROVE  InData(new, k) = {Value(message)}
    <2>1. is_runtime_message(message)
        BY <1>7, <1>8 DEF is_runtime_message
    <2>2. CASE OfDevice(k)
        <3>1. address \in Addresses(devices) /\ k[1] \in SnapshotAddresses(data)
            BY <1>7, <1>8, <2>2 DEF Knows
        <3>2. new = _apply_device_message(devices, data, message)
            BY <1>2, <1>3, <1>7, <1>8, <2>1, <2>2, <3>1
        <3>3. k[1] \in Addresses(devices) /\ message.method \in device_methods
            BY <1>7, <1>8, <2>2, <3>1
        <3> QED  BY <1>8, <3>1, <3>2, <3>3, DeviceMessageShows
    <2>3. CASE ~OfDevice(k)
        <3>1. message.method \in GATEWAY_METHODS
            BY <1>7, <1>8, <2>3
        <3>2. new = _apply_gateway_message(data, message)
            BY <1>3, <2>1, <3>1
        <3> QED  BY <1>8, <3>1, <3>2, GatewayMessageShows
    <2> QED  BY <2>2, <2>3
<1>9. ASSUME NEW k \in Watched, KeyOf(message) = k,
             message.service \notin RUNTIME_SERVICES \/ ~Knows(st, k)
      PROVE  new = data
    <2>1. CASE message.service \notin RUNTIME_SERVICES
        BY <1>3, <2>1 DEF is_runtime_message
    <2>2. CASE ~Knows(st, k)
        <3>1. OfDevice(k) /\ message.method \in device_methods /\ address = k[1]
            BY <1>7, <1>9, <2>2 DEF Knows
        <3>2. CASE address \notin Addresses(devices)
            BY <1>2, <1>3, <3>1, <3>2
        <3>3. CASE address \notin SnapshotAddresses(data)
            <4>1. _apply_device_message(devices, data, message) = data
                BY <3>3 DEF _apply_device_message
            <4> QED  BY <1>2, <1>3, <3>1, <4>1
        <3> QED  BY <2>2, <3>1, <3>2, <3>3 DEF Knows
    <2> QED  BY <1>9, <2>1, <2>2
<1> HIDE DEF devices, data
<1> QED  BY <1>4, <1>5, <1>6, <1>8, <1>9 DEF after, data

-----------------------------------------------------------------------------
(* The steps that replace the state *)

\* What the state shows, a step has left fresh, unless there is a reason.
SInv ==
    /\ CauseForm
    /\ state # None => GatewayForm(state.data.gateway)
    /\ \A k \in Watched : Shows(state, k) = {} \/ Fresh(k)

LEMMA SameStateShows ==
    ASSUME SInv, Kept, UNCHANGED state
    PROVE  SInv'
<1>1. ASSUME NEW k \in Watched
      PROVE  Shows(state', k) = {} \/ Fresh(k)'
    <2>1. Shows(state', k) = Shows(state, k)
        OBVIOUS
    <2> QED  BY <2>1 DEF SInv, Kept, Keeps
<1>2. state' # None => GatewayForm(state'.data.gateway)
    BY DEF SInv
<1> QED  BY <1>1, <1>2 DEF SInv, Kept

LEMMA FormIsSomething ==
    ASSUME NoneIsNothing, NEW st, Form(st)
    PROVE  st # None
BY DEF NoneIsNothing, Form

\* There is a state to apply a message to.
LEMMA UsedState ==
    ASSUME NoneIsNothing, SInv, TInv, Used
    PROVE  /\ Form(state) /\ Data(state.data) /\ state.discovery \in Inventories
           /\ GatewayForm(state.data.gateway)
           /\ \A k : Shows(state, k) = InData(state.data, k)
           /\ \A message : Applied(state, message) # None
           /\ \A message, k : Shows(Applied(state, message), k)
                                = InData(Applied(state, message).data, k)
<1>1. Sound(state, raced)
    BY DEF TInv
<1>2. Form(state) /\ Data(state.data) /\ state.discovery \in Inventories
    BY <1>1 DEF Sound
<1>3. state # None /\ \A message : Applied(state, message) # None
    BY <1>2, AppliedForm, FormIsSomething
<1> QED  BY <1>2, <1>3, ShowsInData DEF SInv

\* A value that is not known is one of a device.
LEMMA NotKnown ==
    ASSUME NEW k \in Watched, ~Knows(state, k)
    PROVE  Unknown(k)
<1>1. k[2] \in DEVICE_VALUE_METHODS
    BY DEF Knows, OfDevice
<1>2. k[2] \notin GATEWAY_METHODS
    BY <1>1 DEF DEVICE_VALUE_METHODS, HumidityMethods, GATEWAY_METHODS
<1> QED  BY <1>2 DEF Knows, Unknown, SnapshotAddresses, ToSet

\* Every message that the loop takes is handled: the state shows it, or there is
\* a cause.
LEMMA HandleKeeps ==
    ASSUME NoneIsNothing, NInv, VInv, SInv, TInv, Handle
    PROVE  Kept /\ SInv'
<1> DEFINE message == from_bytes(Head(queue))
           after == Applied(state, message)
<1>1. /\ loop = "reading" /\ queue # <<>> /\ queue' = Tail(queue)
      /\ UNCHANGED <<loop, actual, backlog>>
    BY DEF Handle, network
<1>2. /\ Form(state) /\ Data(state.data) /\ state.discovery \in Inventories
      /\ GatewayForm(state.data.gateway)
      /\ \A k : Shows(state, k) = InData(state.data, k)
      /\ after # None
      /\ \A k : Shows(after, k) = InData(after.data, k)
    BY <1>1, UsedState DEF Used
<1>3. /\ GatewayForm(after.data.gateway)
      /\ \A k \in Watched :
            /\ KeyOf(message) # k => Shows(after, k) \subseteq Shows(state, k)
            /\ /\ KeyOf(message) = k /\ message.service \in RUNTIME_SERVICES
               /\ Value(message) \in Roomy(k[2]) /\ Knows(state, k)
               => Shows(after, k) = {Value(message)}
            /\ KeyOf(message) = k /\ ~Knows(state, k) => after = state
    BY <1>2, MessagesAreShown
<1>4. Head(queue).service = message.service
    BY DEF from_bytes
<1>5. \A k \in Watched : actual[k] \in Roomy(k[2])
    BY DEF VInv, Fitting
<1>6. ASSUME NEW k \in Watched, Told(queue, k, actual[k]), ~Told(Tail(queue), k, actual[k])
      PROVE  KeyOf(message) = k /\ (Shows(after, k) = {actual[k]} \/ (Unknown(k) /\ after = state))
    <2>1. queue \in Seq(Payloads)
        BY DEF NInv
    <2>2. Head(queue).service \in RUNTIME_SERVICES /\ Carries(Head(queue), k, actual[k])
        BY <1>1, <1>6, <2>1, ToldRead
    <2>3. KeyOf(message) = k /\ Value(message) = actual[k]
        BY <2>2 DEF Carries
    <2> HIDE DEF message, after
    <2> QED  BY <1>3, <1>4, <1>5, <2>2, <2>3, NotKnown
<1>7. ASSUME NEW k \in Watched, is_topology_message(message)
      PROVE  KeyOf(message) # k
    <2>1. \E id : KeyOf(message) = <<id, "TAKING_ADDRESS">>
        BY <1>7 DEF KeyOf, Key, is_topology_message
    <2>2. k[2] # "TAKING_ADDRESS"
        BY WatchedKinds DEF OfGateway, OfGroup, OfDevice, PolledMethods, GATEWAY_METHODS,
                            DEVICE_VALUE_METHODS, HumidityMethods
    <2> QED  BY <2>1, <2>2
<1>8. CASE /\ is_topology_message(message) \/ after = state
           /\ UNCHANGED state
           /\ Settle(state, LAMBDA k :
                IF KeyOf(message) = k /\ Unknown(k) THEN {"ignored"} ELSE {})
    <2> DEFINE more(k) == IF KeyOf(message) = k /\ Unknown(k) THEN {"ignored"} ELSE {}
    <2>1. CauseForm' /\ \A k \in Watched : Settles(k, more(k))
        BY <1>8 DEF SInv, Settle, CauseForm, Settles
    <2>2. \A k : Shows(state', k) = Shows(state, k)
        BY <1>8
    <2> HIDE DEF message, after
    <2>3. ASSUME NEW k \in Watched
          PROVE  Keeps(k)
        <3>1. Settles(k, more(k)) /\ actual'[k] = actual[k]
            BY <1>1, <2>1
        <3>2. ASSUME Told(queue, k, actual[k]), ~Told(Tail(queue), k, actual[k])
              PROVE  more(k) # {} \/ Shows(state', k) = {actual[k]}
            <4>1. KeyOf(message) = k /\ (Shows(after, k) = {actual[k]} \/ Unknown(k))
                BY <1>6, <3>2
            <4>2. after = state
                BY <1>7, <1>8, <4>1
            <4> QED  BY <2>2, <4>1, <4>2
        <3>3. Pending = queue /\ Pending' = Tail(queue)
            BY <1>1 DEF Pending
        <3> HIDE DEF more
        <3>4. Fresh(k) => Fresh(k)'
            BY <2>2, <3>1, <3>2, <3>3, SettledIsFresh DEF Fresh
        <3> QED  BY <3>1, <3>4 DEF Keeps
    <2>4. Kept
        BY <2>1, <2>3 DEF Kept
    <2> QED  BY <1>8, <2>4, SameStateShows
<1>9. CASE /\ ~(is_topology_message(message) \/ after = state)
           /\ state' = after
           /\ Settle(after, LAMBDA k :
                    IF KeyOf(message) = k /\ Shows(state, k) \in {{}, {actual[k]}}
                    THEN {"replayed"}
                    ELSE IF Shows(state, k) = {actual[k]} /\ Shows(after, k) = {}
                    THEN {"forgotten"} ELSE {})
    <2> DEFINE more(k) == IF KeyOf(message) = k /\ Shows(state, k) \in {{}, {actual[k]}}
                          THEN {"replayed"}
                          ELSE IF Shows(state, k) = {actual[k]} /\ Shows(after, k) = {}
                          THEN {"forgotten"} ELSE {}
    <2>1. CauseForm' /\ \A k \in Watched : Settles(k, more(k))
        BY <1>9 DEF SInv, Settle, CauseForm, Settles
    <2> HIDE DEF message, after
    <2>2. ASSUME NEW k \in Watched
          PROVE  Keeps(k) /\ (Shows(state', k) = {} \/ Fresh(k)')
        <3>1. Settles(k, more(k)) /\ actual'[k] = actual[k] /\ Shows(state', k) = Shows(after, k)
            BY <1>1, <1>9, <2>1
        <3>2. ASSUME Told(queue, k, actual[k]), ~Told(Tail(queue), k, actual[k])
              PROVE  Shows(state', k) = {actual'[k]}
            BY <1>6, <1>9, <3>1, <3>2
        <3>3. KeyOf(message) = k \/ Shows(after, k) \subseteq Shows(state, k)
            BY <1>3
        <3>4. ASSUME Shows(state, k) = {actual[k]}
              PROVE  more(k) # {} \/ Shows(state', k) = {actual'[k]}
            BY <3>1, <3>3, <3>4
        <3>5. ASSUME Shows(state, k) = {}, Shows(after, k) # {}
              PROVE  more(k) # {}
            BY <3>3, <3>5
        <3>6. Pending = queue /\ Pending' = Tail(queue)
            BY <1>1 DEF Pending
        <3> HIDE DEF more
        <3>7. Fresh(k) => Fresh(k)'
            BY <3>1, <3>2, <3>4, <3>6, SettledIsFresh DEF Fresh
        <3>8. more(k) # {} => Fresh(k)'
            BY <3>1, SettledIsFresh
        <3>9. Shows(state, k) = {} \/ Fresh(k)
            BY DEF SInv
        <3> QED  BY <3>1, <3>5, <3>7, <3>8, <3>9 DEF Keeps
    <2>3. state' # None => GatewayForm(state'.data.gateway)
        BY <1>3, <1>9
    <2> QED  BY <2>1, <2>2, <2>3 DEF Kept, SInv
<1> QED  BY <1>8, <1>9 DEF Handle

-----------------------------------------------------------------------------
(* start() and stop() *)

StartsOrEnds(t) == op[t] \in {"start", "stop"}

\* The loop begins only once start() returns, and one task at a time calls start()
\* or stop().
StartsInv ==
    /\ \A t \in Apps : op[t] = "start" => loop = "none"
    /\ \A t, u \in Apps : StartsOrEnds(t) /\ StartsOrEnds(u) => t = u

\* No task begins to start or to stop, and the loop is left alone or ends.
LEMMA NobodyStarts ==
    ASSUME StartsInv, loop = "none" => loop' = "none",
           \A u \in Apps : op'[u] = op[u] \/ op'[u] \notin {"start", "stop"}
    PROVE  StartsInv'
<1>1. \A u \in Apps : op'[u] \in {"start", "stop"} => op'[u] = op[u]
    OBVIOUS
<1>2. \A u \in Apps : op'[u] = "start" => loop' = "none"
    BY <1>1 DEF StartsInv
<1>3. \A t, u \in Apps : op'[t] \in {"start", "stop"} /\ op'[u] \in {"start", "stop"} => t = u
    BY <1>1 DEF StartsInv, StartsOrEnds
<1> QED  BY <1>2, <1>3 DEF StartsInv, StartsOrEnds

\* A task is called to start or to stop, while no other is.
LEMMA OneStarts ==
    ASSUME TasksInv, NEW t \in Apps, NEW operation \in {"start", "stop"}, Calls(t, operation),
           ~StartsOrStops, operation = "start" => loop' = "none"
    PROVE  StartsInv'
<1>1. op' = [op EXCEPT ![t] = operation] /\ op = [u \in Apps |-> op[u]]
    BY DEF Calls, TasksInv
<1>2. op'[t] = operation /\ \A u \in Apps \ {t} : op'[u] = op[u] /\ op[u] \notin {"start", "stop"}
    BY <1>1 DEF StartsOrStops
<1> QED  BY <1>2 DEF StartsInv, StartsOrEnds

LEMMA StepStarts ==
    ASSUME TasksInv, Connected, StartsInv, [Next]_vars
    PROVE  StartsInv'
<1>1. CASE Environment \/ Loop
    <2>1. UNCHANGED op
        BY <1>1 DEF Environment, Loop, Serve, LinkFails, Change, Topology, Handle, Reconnect,
                    Resubscribe, tasks
    <2>2. loop = "none" => loop' = "none"
        <3>1. CASE Environment
            BY <3>1 DEF Environment, Serve, LinkFails, Change, Topology, controller
        <3>2. CASE Loop
            BY <3>2 DEF Loop, Handle, Reconnect, Resubscribe
        <3> QED  BY <1>1, <3>1, <3>2
    <2> QED  BY <2>1, <2>2, NobodyStarts
<1>2. ASSUME NEW t \in Apps, App(t)
      PROVE  StartsInv'
    <2>1. CASE Start(t) \/ Stop(t)
        <3>1. loop' = "none" /\ ~StartsOrStops
            BY <2>1 DEF Start, Stop, Connected
        <3>2. Calls(t, "start") \/ Calls(t, "stop")
            BY <2>1 DEF Start, Stop
        <3> QED  BY <3>1, <3>2, OneStarts
    <2>2. CASE RefreshRuntime(t) \/ \E pause \in BOOLEAN : Rediscover(t, pause)
        <3>1. op' = [op EXCEPT ![t] = "refresh"] \/ op' = [op EXCEPT ![t] = "rediscover"]
            BY <2>2 DEF RefreshRuntime, Rediscover, Calls
        <3>2. \A u \in Apps : op'[u] = op[u] \/ op'[u] \notin {"start", "stop"}
            BY <3>1 DEF TasksInv
        <3>3. UNCHANGED loop
            BY <2>2 DEF RefreshRuntime, Rediscover, controller
        <3> QED  BY <3>2, <3>3, NobodyStarts
    <2>3. CASE Enable(t)
        <3>1. op' = [op EXCEPT ![t] = None] /\ op = [u \in Apps |-> op[u]]
            BY <2>3 DEF Enable, Return, TasksInv
        <3>2. op'[t] = None /\ \A u \in Apps \ {t} : op'[u] = op[u]
            BY <3>1
        <3>3. None \notin {"start", "stop"}
            BY OperationAssumption DEF Operations
        <3>4. CASE op[t] = "start"
            <4>1. \A u \in Apps : op'[u] \notin {"start", "stop"}
                BY <3>2, <3>3, <3>4 DEF StartsInv, StartsOrEnds
            <4> QED  BY <4>1 DEF StartsInv, StartsOrEnds
        <3>5. CASE op[t] # "start"
            <4>1. UNCHANGED loop
                BY <2>3, <3>5 DEF Enable
            <4> QED  BY <3>2, <3>3, <4>1, NobodyStarts
        <3> QED  BY <3>4, <3>5
    <2>4. CASE Polls(t) \/ Discover(t) \/ Install(t) \/ Ends(t)
        <3>1. UNCHANGED loop
            BY <2>4 DEF Polls, Pause, poll_gateway, _dump_device_snapshot, Discover, Install,
                        Ends, Fails, Restore, Close, controller
        <3>2. UNCHANGED op \/ Return(t)
            BY <2>4 DEF Polls, Pause, poll_gateway, _dump_device_snapshot, Discover, Install,
                        Ends, Fails, Restore, Close
        <3>3. None \notin {"start", "stop"}
            BY OperationAssumption DEF Operations
        <3>4. \A u \in Apps : op'[u] = op[u] \/ op'[u] \notin {"start", "stop"}
            BY <3>2, <3>3 DEF Return, TasksInv
        <3> QED  BY <3>1, <3>4, NobodyStarts
    <2>5. CASE \E method, address, value : SetLatest(t, method, address, value)
        <3>1. UNCHANGED <<op, loop>>
            BY <2>5, SetterLeaves DEF tasks, controller
        <3> QED  BY <3>1, NobodyStarts
    <2> QED  BY <1>2, <2>1, <2>2, <2>3, <2>4, <2>5 DEF App, Polls, Ends
<1>3. CASE UNCHANGED vars
    <2>1. UNCHANGED <<op, loop>>
        BY <1>3 DEF vars, tasks, controller
    <2> QED  BY <2>1, NobodyStarts
<1> QED  BY <1>1, <1>2, <1>3 DEF Next

-----------------------------------------------------------------------------
(* What a poll brings *)

\* A poll has not got to the value, or what it has got of it is the present one or
\* nothing.
Got(point, data, k, value) ==
    \/ point = "gateway" /\ k[2] \in GATEWAY_METHODS
    \/ InData(data, k) \subseteq {None, value}

\* What a poll has got is still so, or there is a reason for the state to be told.
Brings(t) ==
    pc[t] \in PollPoints =>
        /\ pc[t] # "gateway" => GatewayForm(polled[t].gateway)
        /\ \A k \in Watched : Fresh(k) \/ Got(pc[t], polled[t], k, actual[k])

LEMMA StillBrings ==
    ASSUME Kept, NEW u \in Apps, Brings(u), pc'[u] = pc[u], polled'[u] = polled[u]
    PROVE  Brings(u)'
<1>1. ASSUME NEW k \in Watched, Fresh(k) \/ Got(pc[u], polled[u], k, actual[k])
      PROVE  Fresh(k)' \/ Got(pc'[u], polled'[u], k, actual'[k])
    <2>1. Fresh(k)' \/ (~Fresh(k) /\ actual'[k] = actual[k])
        BY DEF Kept, Keeps
    <2>2. CASE ~Fresh(k) /\ actual'[k] = actual[k]
        <3>1. Got(pc'[u], polled'[u], k, actual'[k])
            BY <1>1, <2>2
        <3> QED  BY <3>1
    <2> QED  BY <2>1, <2>2
<1>2. pc'[u] \in PollPoints /\ pc'[u] # "gateway" => GatewayForm(polled'[u].gateway)
    BY DEF Brings
<1> QED  BY <1>1, <1>2 DEF Brings

\* A task goes on with what it has got.
LEMMA TaskBrings ==
    ASSUME TInv, Kept, \A u \in Apps : Brings(u), NEW t \in Apps, NEW point, NEW data,
           Goto(t, point), polled' = [polled EXCEPT ![t] = data],
           point \in PollPoints =>
                /\ point # "gateway" => GatewayForm(data.gateway)
                /\ \A k \in Watched : Fresh(k) \/ Got(point, data, k, actual[k])
    PROVE  \A u \in Apps : Brings(u)'
<1>1. pc'[t] = point /\ polled'[t] = data
    BY DEF Goto, TInv
<1>2. ASSUME point \in PollPoints
      PROVE  Brings(t)'
    <2>1. ASSUME NEW k \in Watched
          PROVE  Fresh(k)' \/ Got(pc'[t], polled'[t], k, actual'[k])
        <3>1. Fresh(k)' \/ (~Fresh(k) /\ actual'[k] = actual[k])
            BY DEF Kept, Keeps
        <3>2. CASE ~Fresh(k) /\ actual'[k] = actual[k]
            <4>1. Got(point, data, k, actual'[k])
                BY <1>2, <3>2
            <4> QED  BY <1>1, <4>1
        <3> QED  BY <3>1, <3>2
    <2>2. pc'[t] # "gateway" => GatewayForm(polled'[t].gateway)
        BY <1>1, <1>2
    <2> QED  BY <2>1, <2>2 DEF Brings
<1>3. point \notin PollPoints => Brings(t)'
    BY <1>1 DEF Brings
<1>4. ASSUME NEW u \in Apps, u # t
      PROVE  Brings(u)'
    <2>1. pc'[u] = pc[u] /\ polled'[u] = polled[u]
        BY <1>4 DEF Goto, TInv
    <2> QED  BY <2>1, StillBrings
<1>5. ASSUME NEW u \in Apps
      PROVE  Brings(u)'
    BY <1>2, <1>3, <1>4
<1> QED  BY <1>5

LEMMA TaskLeaves ==
    ASSUME TInv, Kept, \A u \in Apps : Brings(u), NEW t \in Apps, NEW point,
           point \notin PollPoints, Goto(t, point),
           UNCHANGED polled \/ \E data : polled' = [polled EXCEPT ![t] = data]
    PROVE  \A u \in Apps : Brings(u)'
<1>1. polled = [polled EXCEPT ![t] = polled[t]]
    BY DEF TInv
<1>2. PICK data : polled' = [polled EXCEPT ![t] = data]
    BY <1>1
<1> QED  BY <1>2, TaskBrings

LEMMA PollBrings ==
    ASSUME TInv, Kept, \A u \in Apps : Brings(u), NEW t \in Apps, NEW devices, Poll(t, devices)
    PROVE  \A u \in Apps : Brings(u)'
<1> DEFINE data == [gateway |-> None, devices |-> <<>>]
<1>1. Goto(t, "gateway") /\ polled' = [polled EXCEPT ![t] = data]
    BY DEF Poll
<1>2. ASSUME NEW k \in Watched
      PROVE  Got("gateway", data, k, actual[k])
    <2>1. k[2] \in GATEWAY_METHODS \/ (k = Key(k[1], k[2]) /\ k[2] \in DEVICE_VALUE_METHODS)
        BY WatchedKinds DEF OfGateway, OfGroup, OfDevice, PolledMethods, GATEWAY_METHODS
    <2>2. \A x : k = Key(k[1], k[2]) /\ k[2] \in DEVICE_VALUE_METHODS => x \notin InData(data, k)
        <3>1. DOMAIN data.devices = {}
            OBVIOUS
        <3> HIDE DEF data
        <3> QED  BY <3>1, InDevices
    <2> HIDE DEF data
    <2> QED  BY <2>1, <2>2 DEF Got
<1> HIDE DEF data
<1> QED  BY <1>1, <1>2, TaskBrings

\* The gateway's values are polled: those of the devices are still to be.
LEMMA GatewayBrings ==
    ASSUME NInv, VInv, TInv, Kept, \A u \in Apps : Brings(u), NEW t \in Apps, poll_gateway(t)
    PROVE  \A u \in Apps : Brings(u)'
<1>1. pc[t] = "gateway" /\ PollOf("gateway", target[t], polled[t]) /\ Brings(t)
    BY DEF poll_gateway, TInv
<1>2. PICK got : /\ Values(GatewayKeys, got)
                 /\ polled' = [polled EXCEPT ![t].gateway = GatewaySnapshot(got)]
    BY DEF poll_gateway
<1> DEFINE point == IF target[t] = <<>> THEN "refreshed" ELSE "device"
           gateway == GatewaySnapshot(got)
           data == [gateway |-> gateway, devices |-> polled[t].devices]
<1>3. polled' = [polled EXCEPT ![t] = data]
    <2>1. Data(polled[t])
        BY <1>1 DEF PollOf, PollPoints
    <2>2. [polled[t] EXCEPT !.gateway = gateway] = data
        BY <2>1 DEF Data
    <2>3. polled' = [polled EXCEPT ![t] = [polled[t] EXCEPT !.gateway = gateway]]
        BY <1>2 DEF TInv
    <2> QED  BY <2>2, <2>3
<1>4. /\ DOMAIN gateway = GATEWAY_METHODS
      /\ \A method \in PolledMethods : gateway[method] = got[Key(0, method)]
      /\ gateway["SETPOINT_GROUP_ENABLE"]
            = [id \in Groups |-> got[Key(id, "SETPOINT_GROUP_ENABLE")]]
    <2>1. DOMAIN gateway = GATEWAY_METHODS
        BY DEF GatewaySnapshot
    <2>2. ASSUME NEW method \in PolledMethods
          PROVE  gateway[method] = got[Key(0, method)]
        BY <2>2 DEF GatewaySnapshot, PolledMethods
    <2>3. gateway["SETPOINT_GROUP_ENABLE"]
              = [id \in Groups |-> got[Key(id, "SETPOINT_GROUP_ENABLE")]]
        <3>1. "SETPOINT_GROUP_ENABLE" \notin PolledMethods
            BY DEF PolledMethods
        <3>2. "SETPOINT_GROUP_ENABLE" \in GATEWAY_METHODS
            BY DEF GATEWAY_METHODS
        <3> QED  BY <3>1, <3>2 DEF GatewaySnapshot
    <2> QED  BY <2>1, <2>2, <2>3
<1>5. GatewayForm(gateway)
    BY <1>4 DEF GatewayForm, GATEWAY_METHODS, PolledMethods
<1>6. \A k \in GatewayKeys \cap Watched : got[k] \in {None, actual[k]}
    BY <1>2, PolledValues
<1> HIDE DEF gateway
<1>7. ASSUME NEW k \in Watched
      PROVE  Fresh(k) \/ InData(data, k) \subseteq {None, actual[k]}
    <2>1. k = Key(k[1], k[2]) /\ (OfGateway(k) \/ OfGroup(k) \/ OfDevice(k))
        BY WatchedKinds
    <2>2. CASE OfGateway(k)
        <3>1. k = Key(0, k[2]) /\ k[2] \in PolledMethods /\ k \in GatewayKeys
            BY <2>1, <2>2 DEF OfGateway, GatewayKeys
        <3>2. InData(data, k) = {got[k]}
            BY <1>4, <3>1, InGateway
        <3> QED  BY <1>6, <3>1, <3>2
    <2>3. CASE OfGroup(k)
        <3>1. /\ k = Key(k[1], "SETPOINT_GROUP_ENABLE") /\ k[1] \in Groups
              /\ k \in GatewayKeys
            BY <2>1, <2>3 DEF OfGroup, GatewayKeys
        <3>2. InData(data, k) = {got[k]}
            BY <1>4, <3>1, InGroup
        <3> QED  BY <1>6, <3>1, <3>2
    <2>4. CASE OfDevice(k)
        <3>1. k[2] \notin GATEWAY_METHODS /\ k[2] # "SETPOINT_GROUP_ENABLE"
            BY <2>4 DEF OfDevice, DEVICE_VALUE_METHODS, HumidityMethods, GATEWAY_METHODS
        <3>2. InData(data, k) = InData(polled[t], k)
            BY <3>1 DEF InData
        <3>3. Fresh(k) \/ Got("gateway", polled[t], k, actual[k])
            BY <1>1 DEF Brings, PollPoints
        <3> QED  BY <3>1, <3>2, <3>3 DEF Got
    <2> QED  BY <2>1, <2>2, <2>3, <2>4
<1>8. Goto(t, point)
    BY DEF poll_gateway
<1>9. data.gateway = gateway
    OBVIOUS
<1> HIDE DEF data, point
<1> QED  BY <1>3, <1>5, <1>7, <1>8, <1>9, TaskBrings DEF Got

\* One more device is polled: each of its values is there, or None is.
LEMMA DeviceBrings ==
    ASSUME NInv, VInv, TInv, Kept, \A u \in Apps : Brings(u), NEW t \in Apps,
           _dump_device_snapshot(t)
    PROVE  \A u \in Apps : Brings(u)'
<1> DEFINE n == Len(polled[t].devices)
           d == target[t][n + 1]
           methods == Polled(d, protocol_version)
           keys == {Key(d.address, method) : method \in methods \ SETPOINT_METHODS}
           point == IF n + 1 = Len(target[t]) THEN "refreshed" ELSE "device"
<1>1. pc[t] = "device" /\ PollOf("device", target[t], polled[t]) /\ Brings(t)
    BY DEF _dump_device_snapshot, TInv
<1>2. PICK got : /\ Values(keys, got)
                 /\ polled' = [polled EXCEPT ![t].devices = Append(@, DeviceSnapshot(d, methods, got))]
    BY DEF _dump_device_snapshot
<1> DEFINE new == DeviceSnapshot(d, methods, got)
           devices == Append(polled[t].devices, new)
           data == [gateway |-> polled[t].gateway, devices |-> devices]
<1>3. Data(polled[t])
    BY <1>1 DEF PollOf, PollPoints
<1>4. /\ polled[t].devices \in Seq(ToSet(polled[t].devices))
      /\ n \in Nat /\ DOMAIN polled[t].devices = 1 .. n
    <2>1. PICK m \in Nat : /\ DOMAIN polled[t].devices = 1 .. m
                           /\ polled[t].devices \in Seq(ToSet(polled[t].devices))
        BY <1>1 DEF PollOf, PollPoints
    <2> QED  BY <2>1
<1>5. \A k \in keys \cap Watched : got[k] \in {None, actual[k]}
    BY <1>2, PolledValues
<1>6. new.info = d /\ DOMAIN new.values = methods
      /\ \A method \in methods \ SETPOINT_METHODS :
            new.values[method] \in {None, got[Key(d.address, method)]}
    BY DEF DeviceSnapshot
<1>7. Goto(t, point)
    BY DEF _dump_device_snapshot
<1> HIDE DEF new, point, methods, d
<1>8. polled' = [polled EXCEPT ![t] = data]
    <2>1. [polled[t] EXCEPT !.devices = devices] = data
        BY <1>3, DevicesReplaced
    <2>2. polled' = [polled EXCEPT ![t] = [polled[t] EXCEPT !.devices = devices]]
        BY <1>2 DEF TInv, new
    <2> QED  BY <2>1, <2>2
<1>9. /\ DOMAIN devices = 1 .. n + 1 /\ devices[n + 1] = new
      /\ \A i \in 1 .. n : devices[i] = polled[t].devices[i]
    <2>1. DOMAIN devices = 1 .. n + 1 /\ devices[n + 1] = new
        BY <1>4
    <2>2. \A i \in 1 .. n : devices[i] = polled[t].devices[i]
        BY <1>4
    <2> QED  BY <2>1, <2>2
<1> HIDE DEF devices, n
<1>10. GatewayForm(polled[t].gateway)
       /\ \A k \in Watched : Fresh(k) \/ InData(polled[t], k) \subseteq {None, actual[k]}
    BY <1>1 DEF Brings, PollPoints, Got
<1>11. ASSUME NEW k \in Watched, ~Fresh(k)
       PROVE  InData(data, k) \subseteq {None, actual[k]}
    <2>1. k = Key(k[1], k[2]) /\ (OfGateway(k) \/ OfGroup(k) \/ OfDevice(k))
        BY WatchedKinds
    <2>2. CASE OfGateway(k) \/ OfGroup(k)
        <3>1. k[2] \in GATEWAY_METHODS \/ k[2] = "SETPOINT_GROUP_ENABLE"
            BY <2>2 DEF OfGateway, OfGroup, PolledMethods
        <3>2. InData(data, k) = InData(polled[t], k)
            BY <3>1 DEF InData
        <3> QED  BY <1>10, <1>11, <3>2
    <2>3. CASE OfDevice(k)
        <3> DEFINE id == k[1]
                   method == k[2]
        <3>1. k = Key(id, method) /\ method \in DEVICE_VALUE_METHODS
            BY <2>1, <2>3 DEF OfDevice
        <3>2. data.devices = devices
            OBVIOUS
        <3> HIDE DEF data, id, method
        <3>3. ASSUME NEW x \in InData(data, k)
              PROVE  x \in {None, actual[k]}
            <4>1. PICK i \in 1 .. n + 1 : /\ devices[i].info.address = id
                                          /\ method \in DOMAIN devices[i].values
                                          /\ x = devices[i].values[method]
                <5>1. x \in InData(data, Key(id, method))
                    BY <3>1, <3>3
                <5>2. PICK i \in DOMAIN data.devices :
                            /\ data.devices[i].info.address = id
                            /\ method \in DOMAIN data.devices[i].values
                            /\ x = data.devices[i].values[method]
                    BY <3>1, <5>1, InDevices
                <5> QED  BY <1>9, <3>2, <5>2
            <4>2. CASE i = n + 1
                <5>1. d.address = id /\ method \in methods /\ x = new.values[method]
                    BY <1>6, <1>9, <4>1, <4>2
                <5>2. method \notin SETPOINT_METHODS
                    BY <3>1 DEF DEVICE_VALUE_METHODS, HumidityMethods, SETPOINT_METHODS
                <5>3. k \in keys /\ x \in {None, got[k]}
                    BY <1>6, <3>1, <5>1, <5>2
                <5> QED  BY <1>5, <5>3
            <4>3. CASE i # n + 1
                <5>1. i \in 1 .. n
                    BY <1>4, <4>3 DEF n
                <5>2. x \in InData(polled[t], k)
                    BY <1>4, <1>9, <3>1, <4>1, <5>1, InDevices DEF n
                <5> QED  BY <1>10, <1>11, <5>2
            <4> QED  BY <4>2, <4>3
        <3> QED  BY <3>3
    <2> QED  BY <2>1, <2>2, <2>3
<1>12. data.gateway = polled[t].gateway
    OBVIOUS
<1> HIDE DEF data
<1> QED  BY <1>7, <1>8, <1>10, <1>11, <1>12, TaskBrings DEF Got

-----------------------------------------------------------------------------
(* The steps that install a state and enable reporting *)

\* What is polled takes the place of what the state showed, which is a cause.
LEMMA InstallKeeps ==
    ASSUME NoneIsNothing, SInv, NEW t \in Apps, Brings(t), Install(t)
    PROVE  Kept /\ SInv'
<1> DEFINE more(k) == IF None \in Shows(state', k) THEN {"unpolled"}
                      ELSE IF Shows(state, k) = {actual[k]} THEN {"overwritten"} ELSE {}
<1>1. /\ pc[t] = "refreshed" /\ state' = [discovery |-> discovery, data |-> polled[t]]
      /\ UNCHANGED <<actual, queue, backlog, loop>>
    BY DEF Install, Installed, session
<1>2. Pending' = Pending
    BY <1>1 DEF Pending
<1>3. CauseForm' /\ \A k \in Watched : Settles(k, more(k))
    BY <1>1 DEF Install, SInv, Settle, CauseForm, Settles
<1>4. state' # None /\ state'.data = polled[t]
    BY <1>1 DEF NoneIsNothing
<1>5. \A k : Shows(state', k) = InData(polled[t], k)
    BY <1>4 DEF Shows, InData
<1>6. GatewayForm(state'.data.gateway)
      /\ \A k \in Watched : Fresh(k) \/ InData(polled[t], k) \subseteq {None, actual[k]}
    BY <1>1, <1>4 DEF Brings, PollPoints, Got
<1>7. \A k \in Watched : /\ Shows(state, k) = {actual[k]} => more(k) # {}
                         /\ None \in Shows(state', k) => more(k) # {}
    OBVIOUS
<1> HIDE DEF more
<1>8. ASSUME NEW k \in Watched
      PROVE  Keeps(k) /\ (Shows(state', k) = {} \/ Fresh(k)')
    <2>1. Fresh(k) => Fresh(k)'
        BY <1>1, <1>2, <1>3, <1>7, SettledIsFresh DEF Fresh
    <2>2. CASE Fresh(k)
        BY <2>1, <2>2 DEF Keeps
    <2>3. CASE ~Fresh(k)
        <3>1. Shows(state', k) \subseteq {None, actual[k]}
            BY <1>5, <1>6, <2>3
        <3>2. \/ Shows(state', k) = {} \/ None \in Shows(state', k)
              \/ Shows(state', k) = {actual'[k]}
            BY <1>1, <3>1
        <3>3. Shows(state', k) = {} \/ Fresh(k)'
            BY <1>3, <1>7, <3>2, SettledIsFresh
        <3> QED  BY <1>1, <2>3, <3>3 DEF Keeps
    <2> QED  BY <2>2, <2>3
<1> QED  BY <1>3, <1>6, <1>8 DEF Kept, SInv

\* Reporting is enabled, and the state told that it is.
LEMMA EnableKeeps ==
    ASSUME NoneIsNothing, NInv, VInv, SInv, TInv, StartsInv, NEW t \in Apps, Enable(t)
    PROVE  Kept /\ SInv'
<1> DEFINE more(k, response) == IF k = REPORTING /\ response = None THEN {"unanswered"} ELSE {}
<1>1. PICK response \in Responses(TRUE) :
            /\ set_reporting_state(TRUE, response)
            /\ state' = IF response = None THEN state ELSE Applied(state, from_bytes(response))
            /\ IF op[t] = "start"
               THEN running' = TRUE /\ loop' = "reading" /\ queue' = backlog
               ELSE Published(response) /\ UNCHANGED <<running, loop>>
            /\ Settle(state', LAMBDA k :
                    IF k = REPORTING /\ response = None THEN {"unanswered"} ELSE {})
    BY DEF Enable
<1>2. CauseForm' /\ \A k \in Watched : Settles(k, more(k, response))
    BY <1>1 DEF SInv, Settle, CauseForm, Settles
<1>3. UNCHANGED backlog
    BY DEF Enable
<1>4. Pending' = Pending \/ (response # None /\ Pending' = Append(Pending, response))
    <2>1. CASE op[t] = "start"
        BY <1>1, <1>3, <2>1 DEF Pending, StartsInv
    <2>2. CASE op[t] # "start"
        BY <1>1, <1>3, <2>2, PublishedPending DEF Published, Pending
    <2> QED  BY <2>1, <2>2
<1>5. /\ \/ /\ response = Answer(ReportingCommand(TRUE)) /\ response # None
            /\ response \in Payloads /\ Tells(response, actual')
         \/ response = None /\ actual' = actual
      /\ \A k \in Watched \ {REPORTING} : actual'[k] = actual[k]
    BY <1>1, ReportingOutcome
<1>6. CASE response = None
    <2>1. UNCHANGED state /\ Pending' = Pending
        BY <1>1, <1>4, <1>6
    <2>2. \A k \in Watched : Settles(k, IF k = REPORTING THEN {"unanswered"} ELSE {})
        BY <1>2, <1>6
    <2> HIDE DEF more
    <2>3. Kept
        BY <1>2, <1>5, <2>1, <2>2, UnansweredKeeps
    <2> QED  BY <2>1, <2>3, SameStateShows
<1>7. CASE response # None
    <2> DEFINE message == from_bytes(response)
               after == Applied(state, message)
    <2>1. /\ KeyOf(message) = REPORTING /\ Value(message) = 1
          /\ message.service \in RUNTIME_SERVICES /\ message.method = "REPORTING_STATE"
        <3>1. KeyOf(message) = REPORTING /\ Value(message) = 1
            BY <1>5, <1>7, ReportingAnswer DEF Carries
        <3>2. message.service = response.service
            BY DEF from_bytes
        <3>3. \E id : KeyOf(message) = Key(id, message.method)
            BY DEF KeyOf
        <3>4. message.method = "REPORTING_STATE"
            BY <3>1, <3>3 DEF Key, REPORTING
        <3> QED  BY <1>5, <1>7, <3>1, <3>2, <3>4 DEF Tells
    <2>2. REPORTING \in Watched /\ actual'[REPORTING] = 1
        <3>1. REPORTING \in Watched
            BY WatchedAssumption
        <3> QED  BY <1>5, <1>7, <2>1, <3>1 DEF Tells, Carries
    <2>3. state' = after
        BY <1>1, <1>7
    <2>4. /\ Form(state) /\ Data(state.data) /\ state.discovery \in Inventories
          /\ GatewayForm(state.data.gateway)
          /\ \A k : Shows(state, k) = InData(state.data, k)
          /\ \A k : Shows(after, k) = InData(after.data, k)
        <3>1. Used
            BY DEF Enable, Used
        <3> QED  BY <3>1, UsedState
    <2>5. Knows(state, REPORTING) /\ Value(message) \in Roomy(REPORTING[2])
        <3>1. REPORTING[2] = "REPORTING_STATE"
            BY DEF REPORTING, Key
        <3>2. "REPORTING_STATE" \notin DEVICE_VALUE_METHODS
            BY DEF DEVICE_VALUE_METHODS, HumidityMethods
        <3> QED  BY <2>1, <3>1, <3>2, RoomsHold DEF Knows, OfDevice
    <2>6. message.method \in GATEWAY_METHODS
        BY <2>1 DEF GATEWAY_METHODS
    <2> HIDE DEF message, after, more
    <2>7. /\ GatewayForm(after.data.gateway)
          /\ \A k \in Watched : KeyOf(message) # k => InData(after.data, k) = InData(state.data, k)
          /\ InData(after.data, REPORTING) = {Value(message)}
        BY <2>1, <2>2, <2>4, <2>5, <2>6, MessagesAreShown DEF after
    <2>8. Shows(state', REPORTING) = {actual'[REPORTING]}
        BY <2>1, <2>2, <2>3, <2>4, <2>7
    <2>9. \A k \in Watched \ {REPORTING} : Shows(state', k) = Shows(state, k)
        BY <2>1, <2>3, <2>4, <2>7
    <2>10. ASSUME NEW k \in Watched
           PROVE  Keeps(k) /\ (Shows(state', k) = {} \/ Fresh(k)')
        <3>1. CASE k = REPORTING
            <4>1. Fresh(k)'
                BY <1>2, <2>8, <3>1, SettledIsFresh
            <4> QED  BY <4>1 DEF Keeps
        <3>2. CASE k # REPORTING
            <4>1. Told(Pending, k, actual[k]) => Told(Pending', k, actual[k])
                BY <1>4, <1>5, <1>7, <2>1, <3>2, PendingType, ToldAppended DEF message
            <4>2. Shows(state', k) = Shows(state, k) /\ actual'[k] = actual[k]
                BY <1>5, <2>9, <3>2
            <4>3. Keeps(k)
                BY <1>2, <4>1, <4>2, QuietKeeps
            <4>4. Shows(state, k) = {} \/ Fresh(k)
                BY DEF SInv
            <4> QED  BY <4>2, <4>3, <4>4 DEF Keeps
        <3> QED  BY <3>1, <3>2
    <2>11. state' # None => GatewayForm(state'.data.gateway)
        BY <2>3, <2>7
    <2> QED  BY <1>2, <2>10, <2>11 DEF Kept, SInv
<1> QED  BY <1>6, <1>7

-----------------------------------------------------------------------------
(* The state shows the present *)

CurrentInv ==
    /\ NInv /\ Connected /\ TasksInv /\ TInv
    /\ VInv /\ SInv /\ StartsInv /\ \A t \in Apps : Brings(t)

LEMMA EnvironmentCurrent ==
    ASSUME NoneIsNothing, CurrentInv, Environment \/ Loop
    PROVE  Kept /\ SInv'
<1>1. CauseForm
    BY DEF CurrentInv, SInv
<1>2. CASE Environment
    <2>1. UNCHANGED state
        BY <1>2 DEF Environment, Serve, LinkFails, Change, Topology, controller
    <2>2. LinkFails => Kept
        BY <1>1, SteadyKeeps DEF LinkFails, controller
    <2>3. Kept
        BY <1>1, <1>2, <2>2, ServeKeeps, ChangeKeeps, TopologyKeeps DEF CurrentInv, Environment
    <2> QED  BY <2>1, <2>3, SameStateShows DEF CurrentInv
<1>3. CASE Reconnect \/ Resubscribe
    <2>1. UNCHANGED state
        BY <1>3 DEF Reconnect, Resubscribe
    <2>2. Kept
        BY <1>1, <1>3, ReconnectKeeps, ResubscribeKeeps DEF CurrentInv
    <2> QED  BY <2>1, <2>2, SameStateShows DEF CurrentInv
<1> QED  BY <1>2, <1>3, HandleKeeps DEF CurrentInv, Loop

LEMMA AppCurrent ==
    ASSUME NoneIsNothing, CurrentInv, NEW t \in Apps, App(t)
    PROVE  Kept /\ SInv'
<1>1. CauseForm
    BY DEF CurrentInv, SInv
<1>2. CASE Install(t) \/ Enable(t)
    BY <1>2, InstallKeeps, EnableKeeps DEF CurrentInv
<1>3. CASE \/ Restarts(t) \/ Discover(t) \/ poll_gateway(t) \/ _dump_device_snapshot(t) \/ Fails(t)
    <2>1. UNCHANGED <<cause, state, queue, backlog, loop>>
        BY <1>3 DEF Restarts, Start, Rediscover, RefreshRuntime, Calls, Discover, poll_gateway,
                    _dump_device_snapshot, Fails, controller, session
    <2>2. UNCHANGED actual
        <3>1. CASE Restarts(t) \/ Discover(t) \/ Fails(t)
            BY <3>1 DEF Restarts, Start, Rediscover, RefreshRuntime, Calls, Discover, Fails, network
        <3>2. CASE poll_gateway(t) \/ _dump_device_snapshot(t)
            <4>1. \E keys, got : Values(keys, got)
                BY <3>2 DEF poll_gateway, _dump_device_snapshot
            <4> QED  BY <4>1, PolledValues DEF CurrentInv
        <3> QED  BY <1>3, <3>1, <3>2
    <2>3. Kept
        BY <1>1, <2>1, <2>2, SteadyKeeps
    <2> QED  BY <2>1, <2>3, SameStateShows DEF CurrentInv
<1>4. CASE Stop(t) \/ Close(t) \/ Pause(t) \/ Restore(t)
    <2>1. UNCHANGED state
        BY <1>4 DEF Stop, Close, Pause, Restore, controller
    <2>2. Kept
        BY <1>1, <1>4, StopKeeps, CloseKeeps, PauseKeeps, RestoreKeeps DEF CurrentInv
    <2> QED  BY <2>1, <2>2, SameStateShows DEF CurrentInv
<1>5. ASSUME NEW address \in UNION {Addresses(devices) : devices \in Inventories},
             NEW setting \in Settings, SetLatest(t, setting[1], address, setting[2])
      PROVE  Kept /\ SInv'
    <2>1. UNCHANGED state
        BY <1>5, SetterLeaves DEF controller
    <2>2. Kept
        BY <1>1, <1>5, AskedTypes, SetKeeps DEF CurrentInv
    <2> QED  BY <2>1, <2>2, SameStateShows DEF CurrentInv
<1> QED  BY <1>2, <1>3, <1>4, <1>5 DEF App, Restarts

LEMMA StepBrings ==
    ASSUME CurrentInv, Kept, [Next]_vars
    PROVE  \A u \in Apps : Brings(u)'
<1>1. \A u \in Apps : Brings(u)
    BY DEF CurrentInv
<1>2. CASE UNCHANGED <<pc, polled>>
    BY <1>1, <1>2, StillBrings
<1>3. CASE Environment \/ Loop
    <2>1. UNCHANGED <<pc, polled>>
        BY <1>3 DEF Environment, Loop, Serve, LinkFails, Change, Topology, Handle, Reconnect,
                    Resubscribe, tasks
    <2> QED  BY <1>2, <2>1
<1>4. ASSUME NEW t \in Apps, App(t)
      PROVE  \A u \in Apps : Brings(u)'
    <2>1. CASE poll_gateway(t) \/ _dump_device_snapshot(t)
        BY <1>1, <2>1, GatewayBrings, DeviceBrings DEF CurrentInv
    <2>2. CASE \E devices : Poll(t, devices)
        BY <1>1, <2>2, PollBrings DEF CurrentInv
    <2>3. CASE \E method, address, value : SetLatest(t, method, address, value)
        <3>1. UNCHANGED <<pc, polled>>
            BY <2>3, SetterLeaves DEF tasks
        <3> QED  BY <1>2, <3>1
    <2>4. CASE /\ \E point \in {"pause", "discover", "enable", "restore", "close", "idle"} :
                    Goto(t, point)
               /\ UNCHANGED polled \/ \E data : polled' = [polled EXCEPT ![t] = data]
        BY <1>1, <2>4, TaskLeaves DEF CurrentInv, PollPoints
    <2>5. \/ poll_gateway(t) \/ _dump_device_snapshot(t)
          \/ \E devices : Poll(t, devices)
          \/ \E method, address, value : SetLatest(t, method, address, value)
          \/ /\ \E point \in {"pause", "discover", "enable", "restore", "close", "idle"} :
                    Goto(t, point)
             /\ UNCHANGED polled \/ \E data : polled' = [polled EXCEPT ![t] = data]
        <3>1. CASE Restarts(t) \/ Stop(t)
            BY <3>1 DEF Restarts, Start, Rediscover, RefreshRuntime, Stop
        <3>2. CASE Discover(t) \/ Pause(t)
            BY <3>2 DEF Discover, Pause
        <3>3. CASE Install(t) \/ Enable(t) \/ Ends(t)
            BY <3>3 DEF Install, Enable, Ends, Fails, Restore, Close, Return
        <3> QED  BY <1>4, <3>1, <3>2, <3>3 DEF App, Restarts, Ends
    <2> QED  BY <2>1, <2>2, <2>3, <2>4, <2>5
<1>5. CASE UNCHANGED vars
    <2>1. UNCHANGED <<pc, polled>>
        BY <1>5 DEF vars, tasks
    <2> QED  BY <1>2, <2>1
<1> QED  BY <1>3, <1>4, <1>5 DEF Next

LEMMA StepCurrent ==
    ASSUME NoneIsNothing, CurrentInv, [Next]_vars
    PROVE  CurrentInv'
<1>1. Kept /\ SInv'
    <2>1. CASE UNCHANGED vars
        <3>1. UNCHANGED <<cause, state, actual, queue, backlog, loop>>
            BY <2>1 DEF vars, network, session, controller
        <3>2. Kept
            BY <3>1, SteadyKeeps DEF CurrentInv, SInv
        <3> QED  BY <3>1, <3>2, SameStateShows DEF CurrentInv
    <2> QED  BY <2>1, EnvironmentCurrent, AppCurrent DEF Next
<1>2. \A t \in Apps : Brings(t)'
    BY <1>1, StepBrings
<1>3. NInv' /\ Connected' /\ TasksInv' /\ TInv'
    BY StepNetwork, StepConnected, StepTasks, StepTopology DEF CurrentInv
<1>4. VInv' /\ StartsInv'
    BY StepValues, StepStarts DEF CurrentInv
<1> QED  BY <1>1, <1>2, <1>3, <1>4 DEF CurrentInv

LEMMA InitCurrent == Init => CurrentInv
<1> SUFFICES ASSUME Init PROVE CurrentInv
    OBVIOUS
<1>1. Connected /\ TasksInv
    BY DEF Init, Connected, TasksInv, Holds, Points
<1>2. cause = [k \in Watched |-> {}] /\ state = None /\ pc = [t \in Apps |-> "idle"]
      /\ op = [t \in Apps |-> None] /\ loop = "none"
    BY DEF Init
<1>3. SInv
    BY <1>2 DEF SInv, CauseForm, Shows
<1>4. StartsInv
    BY <1>2, OperationAssumption DEF StartsInv, StartsOrEnds, Operations
<1>5. \A t \in Apps : Brings(t)
    BY <1>2 DEF Brings, PollPoints
<1> QED  BY <1>1, <1>3, <1>4, <1>5, InitNetwork, InitTopology, InitValues DEF CurrentInv

LEMMA CurrentStates ==
    ASSUME CurrentInv
    PROVE  StateIsCurrent
<1>1. ASSUME Settled, NEW k \in Watched
      PROVE  Shows(state, k) \in {{}, {actual[k]}} \/ cause[k] # {}
    <2>1. Pending = <<>>
        BY <1>1 DEF Settled, Pending
    <2>2. ~Told(Pending, k, actual[k])
        BY <2>1, ToldOfNothing
    <2> QED  BY <2>2 DEF CurrentInv, SInv, Fresh
<1> QED  BY <1>1 DEF StateIsCurrent

\* Whatever the tasks, the network and the connection have done, in any order, what
\* a running controller shows once everything on its way has been handled is the
\* present value, or there is one of the causes that the code is known to have
\* since it showed it last (controller.py:130-141, 174-181, 193, 219-226;
\* state.py:172-301; session.py:386-409).  (None is neither a state nor a message.)
THEOREM StateShowsThePresent ==
    ASSUME NoneIsNothing
    PROVE  Spec => []StateIsCurrent
<1>1. CurrentInv /\ [Next]_vars => CurrentInv'
    BY StepCurrent
<1>2. CurrentInv => StateIsCurrent
    BY CurrentStates
<1> QED  BY <1>1, <1>2, InitCurrent, PTL DEF Spec

-----------------------------------------------------------------------------
(* Units *)

\* round(n / 2) is at most half a step away.
LEMMA RoundsToNearest ==
    ASSUME NEW n \in Int
    PROVE  RoundedHalf(n) \in Int /\ 2 * RoundedHalf(n) - n \in -1 .. 1
<1>1. PICK down \in Int, rest \in {0, 1} : down = n \div 2 /\ rest = n % 2
                                          /\ n = 2 * down + rest
    <2>1. n \div 2 \in Int /\ n % 2 \in {0, 1} /\ n = 2 * (n \div 2) + (n % 2)
        BY SMT
    <2> QED  BY <2>1
<1>2. RoundedHalf(n) = IF rest = 0 \/ down % 2 = 0 THEN down ELSE down + 1
    BY <1>1 DEF RoundedHalf
<1>3. RoundedHalf(n) = down \/ (rest = 1 /\ RoundedHalf(n) = down + 1)
    BY <1>1, <1>2
<1> QED  BY <1>1, <1>3

\* A temperature in degE shows half a degE from the one that was meant at most.
THEOREM DegEIsAccurate ==
    ASSUME NEW quarters \in Int, celsius_to_dege(quarters) # NA_8
    PROVE  /\ dege_to_celsius(celsius_to_dege(quarters)) # None
           /\ dege_to_celsius(celsius_to_dege(quarters)) - quarters \in -1 .. 1
<1>1. celsius_to_dege(quarters) \in Int
      /\ 2 * celsius_to_dege(quarters) - quarters \in -1 .. 1
    BY RoundsToNearest DEF celsius_to_dege
<1>2. dege_to_celsius(celsius_to_dege(quarters)) = 2 * celsius_to_dege(quarters)
    BY DEF dege_to_celsius
<1> QED  BY <1>1, <1>2, NoneAssumption

\* So does one in degH, within half a degH (in thirty-sixths of a degree).
THEOREM DegHIsAccurate ==
    ASSUME NEW quarters \in Int, celsius_to_degh(quarters) # NA_16
    PROVE  /\ degh_to_celsius(celsius_to_degh(quarters)) # None
           /\ degh_to_celsius(celsius_to_degh(quarters)) - 9 * quarters \in -1 .. 1
<1>1. 9 * quarters \in Int
    OBVIOUS
<1>2. RoundedHalf(9 * quarters) \in Int
      /\ 2 * RoundedHalf(9 * quarters) - 9 * quarters \in -1 .. 1
    BY <1>1, RoundsToNearest
<1>3. celsius_to_degh(quarters) = RoundedHalf(9 * quarters) + 1170
    BY DEF celsius_to_degh
<1>4. degh_to_celsius(celsius_to_degh(quarters)) = 2 * RoundedHalf(9 * quarters)
    BY <1>2, <1>3 DEF degh_to_celsius
<1> QED  BY <1>2, <1>4, NoneAssumption

-----------------------------------------------------------------------------
(* Commands and their echoes *)

\* The payload of a message, as to_bytes() makes it.
IsWire(p) == p = [service |-> p.service, method |-> p.method, body |-> p.body]

LEMMA ToBytesIsWire ==
    ASSUME NEW message
    PROVE  IsWire(to_bytes(message)) /\ to_bytes(message).service = message.service
BY DEF IsWire, to_bytes

\* A message that answers an update has been made from the update, and its body
\* says what the update says.
LEMMA EchoRepeats ==
    ASSUME NEW p, IsWire(p), from_bytes(Answer(p)).service = "RESPONSE_UPDATE"
    PROVE  /\ p.service = "UPDATE"
           /\ from_bytes(Answer(p)).method = from_bytes(p).method
           /\ from_bytes(Answer(p)).body = from_bytes(p).body
<1>1. p.service = "UPDATE"
    <2> SUFFICES ASSUME p.service # "UPDATE" PROVE FALSE
        OBVIOUS
    <2>1. PICK k, value : Answer(p) = Message("RESPONSE_REQUEST", k, value)
        BY DEF Answer
    <2>2. PICK fields : Answer(p) = to_bytes(create("RESPONSE_REQUEST", k[2], fields))
        BY <2>1 DEF Message
    <2>3. Answer(p).service = "RESPONSE_REQUEST"
        BY <2>2 DEF to_bytes, create
    <2> QED  BY <2>3 DEF from_bytes
<1>2. Answer(p) = [p EXCEPT !.service = "RESPONSE_UPDATE"]
    BY <1>1 DEF Answer
<1>3. Answer(p).method = p.method /\ Answer(p).body = p.body
    BY <1>2 DEF IsWire
<1> QED  BY <1>1, <1>3 DEF from_bytes

\* The field that carries the value of each setter.
LEMMA ValueFields ==
    /\ \A method \in DegEMethods : ValueField(method) = "setpoint"
    /\ ValueField("SETPOINT_DEVICE") = "temp"
    /\ ValueField("FAN_PERCENT") = "percent"
    /\ ValueField("MODE_SETTING") = "mode"
<1>1. \A name, size : Last(SetbackBody(name, size)).name = name
    BY DEF Last, SetbackBody, Field
<1>2. \A name, size : Last(DeviceBody(name, size)).name = name
    BY DEF Last, DeviceBody, Field
<1>3. /\ METHOD_SPECS["HEAT_SETPOINT"] = SetbackBody("setpoint", 1)
      /\ METHOD_SPECS["COOL_SETPOINT"] = SetbackBody("setpoint", 1)
      /\ METHOD_SPECS["SLAB_SETPOINT"] = SetbackBody("setpoint", 1)
      /\ METHOD_SPECS["SETPOINT_DEVICE"] = SetbackBody("temp", 2)
      /\ METHOD_SPECS["FAN_PERCENT"] = SetbackBody("percent", 1)
      /\ METHOD_SPECS["MODE_SETTING"] = DeviceBody("mode", 1)
    BY DEF METHOD_SPECS
<1> QED  BY <1>1, <1>2, <1>3 DEF ValueField, DegEMethods

\* A message that confirms a setter answers an update with the value asked for.
LEMMA ConfirmedIsTaken ==
    ASSUME NEW p, IsWire(p), NEW setting \in Settings, NEW address,
           NEW fields, fields = Payload(setting[1], address, setting[2]),
           matches(for_command(create("UPDATE", setting[1], fields), address, fields),
                   from_bytes(Answer(p)))
    PROVE  \E given \in Taken(p) :
              /\ given[1] = setting[1] /\ given[2] = address
              /\ Accurate(setting[1], given[3], setting[2])
<1> DEFINE method == setting[1]
           message == from_bytes(Answer(p))
           match == for_command(create("UPDATE", method, fields), address, fields)
           value == field(from_bytes(p), ValueField(method))
<1>1. match = [service |-> "RESPONSE_UPDATE", method |-> method, address |-> address,
               fields |-> fields]
    BY DEF for_command, create, response_service_for
<1>2. message.service = "RESPONSE_UPDATE" /\ message.method = method
      /\ \A name \in DOMAIN fields : field(message, name) = fields[name]
    <2>1. matches(match, message)
        OBVIOUS
    <2>2. None # "RESPONSE_UPDATE"
        BY NoneAssumption DEF TrpcService
    <2> HIDE DEF match, message
    <2>3. /\ match.service \in {None, message.service} /\ message.method = match.method
          /\ \A name \in DOMAIN match.fields : field(message, name) = match.fields[name]
        BY <2>1 DEF matches
    <2> QED  BY <1>1, <2>2, <2>3
<1>3. /\ p.service = "UPDATE" /\ from_bytes(p).method = method
      /\ \A name \in DOMAIN fields : field(from_bytes(p), name) = fields[name]
    BY <1>2, EchoRepeats DEF field
<1>4. /\ "address" \in DOMAIN fields /\ fields["address"] = address
      /\ ValueField(method) \in DOMAIN fields
      /\ Accurate(method, fields[ValueField(method)], setting[2])
    <2>1. method \in SetterMethods /\ setting[2] \in Int
        BY SettingAssumption
    <2>2. CASE method \in DegEMethods
        <3>1. fields = SetpointPayload(address, setting[2])
            BY <2>2 DEF Payload, DegEMethods
        <3>2. fields = [address |-> address, setback |-> ThaSetback_CURRENT,
                        setpoint |-> celsius_to_dege(setting[2])]
            BY <3>1 DEF SetpointPayload, SetbackSetpointFields
        <3>3. ValueField(method) = "setpoint"
            BY <2>2, ValueFields
        <3>4. celsius_to_dege(setting[2]) # NA_8
            BY <2>2, SettingAssumption
        <3>5. Accurate(method, celsius_to_dege(setting[2]), setting[2])
            <4>1. /\ dege_to_celsius(celsius_to_dege(setting[2])) # None
                  /\ dege_to_celsius(celsius_to_dege(setting[2])) - setting[2] \in -1 .. 1
                BY <2>1, <3>4, DegEIsAccurate
            <4> QED  BY <2>2, <4>1 DEF Accurate, DegEMethods
        <3> QED  BY <3>2, <3>3, <3>5
    <2>3. CASE method = "SETPOINT_DEVICE"
        <3>1. fields = TargetPayload(address, setting[2])
            BY <2>3 DEF Payload, DegEMethods
        <3>2. fields = [address |-> address, setback |-> ThaSetback_CURRENT,
                        temp |-> celsius_to_degh(setting[2])]
            BY <3>1 DEF TargetPayload, SetbackTemperatureFields
        <3>3. ValueField(method) = "temp"
            BY <2>3, ValueFields
        <3>4. celsius_to_degh(setting[2]) # NA_16
            BY <2>3, SettingAssumption
        <3>5. Accurate(method, celsius_to_degh(setting[2]), setting[2])
            <4>1. /\ degh_to_celsius(celsius_to_degh(setting[2])) # None
                  /\ degh_to_celsius(celsius_to_degh(setting[2])) - 9 * setting[2] \in -1 .. 1
                BY <2>1, <3>4, DegHIsAccurate
            <4> QED  BY <2>3, <4>1 DEF Accurate, DegEMethods
        <3> QED  BY <3>2, <3>3, <3>5
    <2>4. CASE method = "FAN_PERCENT"
        <3>1. fields = FanPayload(address, setting[2])
            BY <2>4 DEF Payload, DegEMethods
        <3>2. fields = [address |-> address, setback |-> ThaSetback_CURRENT,
                        percent |-> setting[2]]
            BY <3>1 DEF FanPayload, SetbackPercentFields
        <3>3. ValueField(method) = "percent"
            BY <2>4, ValueFields
        <3>4. Accurate(method, setting[2], setting[2])
            BY <2>4 DEF Accurate, DegEMethods
        <3> QED  BY <3>2, <3>3, <3>4
    <2>5. CASE method = "MODE_SETTING"
        <3>1. fields = ModeSettingFields(address, setting[2])
            BY <2>5 DEF Payload, DegEMethods
        <3>2. fields = [address |-> address, mode |-> setting[2]]
            BY <3>1 DEF ModeSettingFields
        <3>3. ValueField(method) = "mode"
            BY <2>5, ValueFields
        <3>4. Accurate(method, setting[2], setting[2])
            BY <2>5 DEF Accurate, DegEMethods
        <3> QED  BY <3>2, <3>3, <3>4
    <2> QED  BY <2>1, <2>2, <2>3, <2>4, <2>5 DEF SetterMethods, DegEMethods
<1>5. <<method, address, value>> \in Taken(p)
    <2>1. from_bytes(p).service = "UPDATE" /\ from_bytes(p).method = method
        BY <1>3 DEF from_bytes
    <2>2. method \in SetterMethods
        BY SettingAssumption
    <2>3. field(from_bytes(p), "address") = address
        BY <1>3, <1>4
    <2> QED  BY <2>1, <2>2, <2>3 DEF Taken
<1>6. value = fields[ValueField(method)]
    BY <1>3, <1>4
<1> WITNESS <<method, address, value>> \in Taken(p)
<1> QED  BY <1>4, <1>6

-----------------------------------------------------------------------------
(* What is confirmed has been set *)

LEMMA SentIsWire ==
    ASSUME NEW p \in Sent
    PROVE  IsWire(p)
<1>1. p \in Payloads => IsWire(p)
    BY DEF Payloads, IsWire
<1>2. \A k : IsWire(Message("REQUEST", k, 0))
    BY ToBytesIsWire DEF Message
<1>3. \A enabled : IsWire(ReportingCommand(enabled))
    BY ToBytesIsWire DEF ReportingCommand
<1> QED  BY <1>1, <1>2, <1>3 DEF Sent

\* A step that confirms nothing takes nothing back.
LEMMA TookMore ==
    ASSUME ConfirmedAsAsked, confirmed' = confirmed, took \subseteq took'
    PROVE  ConfirmedAsAsked'
BY DEF ConfirmedAsAsked

LEMMA TakenMore == ASSUME NEW p PROVE took \subseteq Taken(p)
BY DEF Taken

\* The answer that confirms a setter is an echo of a command that gives the value.
LEMMA SetConfirms ==
    ASSUME VInv, ConfirmedAsAsked, NEW t \in Apps, NEW setting \in Settings,
           NEW address \in UNION {Addresses(devices) : devices \in Inventories},
           SetLatest(t, setting[1], address, setting[2])
    PROVE  ConfirmedAsAsked'
<1> DEFINE fields == Payload(setting[1], address, setting[2])
           command == create("UPDATE", setting[1], fields)
           match == for_command(command, address, fields)
           p == Head(Append(commands, to_bytes(command)))
<1>1. IsWire(p)
    <2>1. to_bytes(command) \in Sent /\ commands \in Seq(Sent)
        BY AskedTypes, SetterSent DEF VInv
    <2>2. p \in Sent
        BY <2>1, QueueTypes
    <2> QED  BY <2>2, SentIsWire
<1>2. CASE /\ matches(match, from_bytes(Answer(p)))
           /\ took' = Taken(p)
           /\ confirmed' = confirmed \cup {<<setting[1], address, setting[2]>>}
    <2>1. \E given \in Taken(p) :
              /\ given[1] = setting[1] /\ given[2] = address
              /\ Accurate(setting[1], given[3], setting[2])
        BY <1>1, <1>2, ConfirmedIsTaken
    <2>2. took \subseteq took'
        BY <1>2, TakenMore
    <2> HIDE DEF p
    <2> QED  BY <1>2, <2>1, <2>2 DEF ConfirmedAsAsked
<1>3. CASE UNCHANGED <<took, confirmed>>
    BY <1>3, TookMore
<1> QED  BY <1>2, <1>3 DEF SetLatest

\* Nothing else confirms anything.
LEMMA StepConfirms ==
    ASSUME VInv, ConfirmedAsAsked, [Next]_vars
    PROVE  ConfirmedAsAsked'
<1>1. CASE Environment \/ Loop
    <2>1. UNCHANGED sets \/ (confirmed' = confirmed /\ \E p : took' = Taken(p))
        BY <1>1 DEF Environment, Loop, Serve, LinkFails, Change, Topology, Handle, Reconnect,
                    Resubscribe
    <2> QED  BY <2>1, TookMore, TakenMore DEF sets
<1>2. ASSUME NEW t \in Apps, App(t)
      PROVE  ConfirmedAsAsked'
    <2>1. CASE Restarts(t) \/ Stop(t) \/ Polls(t) \/ Discover(t) \/ Install(t) \/ Enable(t)
               \/ Ends(t)
        <3>1. UNCHANGED sets
            BY <2>1 DEF Restarts, Start, Rediscover, RefreshRuntime, Stop, Calls, Polls, Pause,
                        poll_gateway, _dump_device_snapshot, Discover, Install, Enable, Ends,
                        Fails, Restore, Close
        <3> QED  BY <3>1, TookMore DEF sets
    <2> QED  BY <1>2, <2>1, SetConfirms DEF App, Restarts, Polls, Ends
<1>3. CASE UNCHANGED vars
    BY <1>3, TookMore DEF vars, sets
<1> QED  BY <1>1, <1>2, <1>3 DEF Next

\* However many callers set values and give up, and whatever values they ask for
\* (but those that stand for "not available"): a call that returns a response has
\* set what it was asked for, up to rounding (client.py:1266-1287; trpc.py:649-657).
THEOREM ConfirmationsAreTrue == Spec => []ConfirmedAsAsked
<1>1. Init => VInv /\ ConfirmedAsAsked
    BY InitValues DEF Init, ConfirmedAsAsked
<1>2. VInv /\ ConfirmedAsAsked /\ [Next]_vars => VInv' /\ ConfirmedAsAsked'
    BY StepValues, StepConfirms
<1> QED  BY <1>1, <1>2, PTL DEF Spec

==============================================================================

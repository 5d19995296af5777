-------------------------------- MODULE Codec --------------------------------
(***************************************************************************)
(* The tRPC messages of trpc.py: the layout of each method's body, packing *)
(* and unpacking, and the match between a command and its response; and    *)
(* the temperature units of units.py.                                      *)
(*                                                                         *)
(* Services, methods and fields go by their names, the header of a payload *)
(* is the pair of names it encodes, and a body is a sequence of bytes.     *)
(* The accepted aliases of names are left out.                             *)
(***************************************************************************)
EXTENDS Integers, Sequences, SequencesExt, FiniteSets

CONSTANT None   \* Python's None

TrpcService == {"UPDATE", "REQUEST", "REPORT", "RESPONSE_UPDATE", "RESPONSE_REQUEST"}

ASSUME NoneAssumption == None \notin Int /\ None \notin TrpcService

Byte == 0 .. 255

-----------------------------------------------------------------------------
(* METHOD_SPECS: the fields of a body and their sizes in bytes *)

Field(name, size) == [name |-> name, size |-> size]

\* The bodies of most methods: a value of the gateway, a value of a device,
\* and a value of a device for a setback.
GatewayBody(name, size) == <<Field(name, size)>>
DeviceBody(name, size) == <<Field("address", 2), Field(name, size)>>
SetbackBody(name, size) ==
    <<Field("address", 2), Field("setback", 1), Field(name, size)>>

METHOD_SPECS ==
    [NULL_METHOD |-> <<>>,
     NETWORK_ERROR |-> GatewayBody("error", 2),
     REPORTING_STATE |-> GatewayBody("state", 1),
     OUTDOOR_TEMP |-> GatewayBody("temp", 2),
     DEVICE_ATTRIBUTES |-> DeviceBody("attributes", 2),
     MODE_SETTING |-> DeviceBody("mode", 1),
     ACTIVE_DEMAND |-> DeviceBody("demand", 1),
     CURRENT_TEMPERATURE |-> DeviceBody("temp", 2),
     CURRENT_FLOOR_TEMPERATURE |-> DeviceBody("temp", 2),
     SETPOINT_GROUP_ENABLE |-> <<Field("group_id", 1), Field("enable", 1)>>,
     SETPOINT_DEVICE |-> SetbackBody("temp", 2),
     HEAT_SETPOINT |-> SetbackBody("setpoint", 1),
     COOL_SETPOINT |-> SetbackBody("setpoint", 1),
     SLAB_SETPOINT |-> SetbackBody("setpoint", 1),
     RELATIVE_HUMIDITY |-> DeviceBody("percent", 1),
     HUMIDITY_SET_MAX |-> DeviceBody("percent", 1),
     HUMIDITY_SET_MIN |-> DeviceBody("percent", 1),
     FAN_PERCENT |-> SetbackBody("percent", 1),
     TAKING_ADDRESS |-> <<Field("old_address", 2), Field("new_address", 2)>>,
     DEVICE_INVENTORY |-> <<Field("address", 2)>>,
     SETBACK_ENABLE |-> GatewayBody("enable", 1),
     SETBACK_STATE |-> DeviceBody("setback", 1),
     SETBACK_EVENTS |-> DeviceBody("events", 1),
     FIRMWARE_REVISION |-> GatewayBody("revision", 2),
     PROTOCOL_VERSION |-> GatewayBody("version", 2),
     DEVICE_TYPE |-> DeviceBody("type", 4),
     DEVICE_VERSION |-> DeviceBody("j_number", 4),
     DATE_TIME |-> <<Field("year", 2), Field("month", 1), Field("day", 1),
                     Field("weekday", 1), Field("hour", 1), Field("minute", 1)>>]

Known(method) == method \in DOMAIN METHOD_SPECS

\* The offset in the body of the i-th field, and the size of the body.
Offset(spec, i) ==
    LET sum[n \in 0 .. i - 1] == IF n = 0 THEN 0 ELSE sum[n - 1] + spec[n].size
    IN  sum[i - 1]
Size(spec) == Offset(spec, Len(spec) + 1)

-----------------------------------------------------------------------------
(* Packing *)

\* What the bytes of a field, of which there are four at most, count for.
Place == <<1, 256, 65536, 16777216>>

\* "value & mask" as an unsigned little-endian integer: what does not fit, and
\* the sign, is lost.
_pack_int(value, size) == [i \in 1 .. size |-> (value \div Place[i]) % 256]

_unpack_int(data) ==
    LET sum[n \in 0 .. Len(data)] ==
            IF n = 0 THEN 0 ELSE sum[n - 1] + data[n] * Place[n]
    IN  sum[Len(data)]

\* A field that is not given is zero; an unknown method has no body.
PackedBody(method, body) ==
    IF ~Known(method) THEN <<>>
    ELSE FlattenSeq([i \in DOMAIN METHOD_SPECS[method] |->
            LET item == METHOD_SPECS[method][i]
            IN  _pack_int(IF item.name \in DOMAIN body THEN body[item.name] ELSE 0,
                          item.size)])

to_bytes(message) ==
    [service |-> message.service, method |-> message.method,
     body |-> PackedBody(message.method, message.body) \o message.extra]

\* The byte at position i of a body that may be too short.
ByteAt(data, i) == IF i \in DOMAIN data THEN data[i] ELSE 0

\* A short body is padded with zeros, what is left over is kept as extra; all
\* of the body of an unknown method is.
UnpackedBody(method, data) ==
    LET spec == METHOD_SPECS[method]
        unpacked(name) ==
            LET i == CHOOSE j \in DOMAIN spec : spec[j].name = name
            IN  _unpack_int([j \in 1 .. spec[i].size |-> ByteAt(data, Offset(spec, i) + j)])
    IN  IF Known(method)
        THEN [name \in {spec[i].name : i \in DOMAIN spec} |-> unpacked(name)]
        ELSE <<>>
Extra(method, data) ==
    IF Known(method) THEN SubSeq(data, Size(METHOD_SPECS[method]) + 1, Len(data)) ELSE data

from_bytes(payload) ==
    [service |-> payload.service, method |-> payload.method,
     body |-> UnpackedBody(payload.method, payload.body),
     extra |-> Extra(payload.method, payload.body)]

create(service, method, fields) ==
    [service |-> service, method |-> method, body |-> fields, extra |-> <<>>]

\* TrpcPacket.get(): None unless the body has the field.
field(message, name) ==
    IF name \in DOMAIN message.body THEN message.body[name] ELSE None

-----------------------------------------------------------------------------
(* Commands and responses *)

response_service_for(service) ==
    CASE service = "REQUEST" -> "RESPONSE_REQUEST"
      [] service = "UPDATE" -> "RESPONSE_UPDATE"
      [] OTHER -> None

\* ResponseMatch.for_command() and create(): any service if the command has no
\* normal response, any device if no address is given.
for_command(command, address, fields) ==
    [service |-> response_service_for(command.service), method |-> command.method,
     address |-> address, fields |-> fields]

\* Mutant: the fields of the predicate are not compared.
matches_device(match, message) ==
    /\ match.service \in {None, message.service}
    /\ message.method = match.method
    /\ match.address \in {None, field(message, "address")}

matches(match, message) ==
    /\ match.service \in {None, message.service}
    /\ message.method = match.method
    /\ match.address \in {None, field(message, "address")}
    /\ \A name \in DOMAIN match.fields : field(message, name) = match.fields[name]

-----------------------------------------------------------------------------
(* The payloads of the commands that change something *)

ReportingStateFields(enabled) == [state |-> IF enabled THEN 1 ELSE 0]
SetbackSetpointFields(address, setpoint, setback) ==
    [address |-> address, setback |-> setback, setpoint |-> setpoint]
SetbackPercentFields(address, percent, setback) ==
    [address |-> address, setback |-> setback, percent |-> percent]
SetbackTemperatureFields(address, temp, setback) ==
    [address |-> address, setback |-> setback, temp |-> temp]
ModeSettingFields(address, mode) == [address |-> address, mode |-> mode]

-----------------------------------------------------------------------------
(* Units.  A temperature is given in quarters of a degree Celsius. *)

NA_8 == 255
NA_16 == 65535

\* round(n / 2): to the even one of the two that are as near.
RoundedHalf(n) ==
    LET down == n \div 2
    IN  IF n % 2 = 0 \/ down % 2 = 0 THEN down ELSE down + 1

\* degE are half degrees Celsius.
celsius_to_dege(quarters) == RoundedHalf(quarters)

\* None for the value "not available".
dege_to_celsius(value) == IF value = NA_8 THEN None ELSE 2 * value

\* degH are tenths of a degree Fahrenheit, and 850 is 0 degrees.  Floating point
\* rounds as exactly as this above -39 degrees Celsius.
celsius_to_degh(quarters) == RoundedHalf(9 * quarters) + 1170

\* In thirty-sixths of a degree Celsius.
degh_to_celsius(value) == IF value = NA_16 THEN None ELSE 2 * (value - 1170)

=============================================================================

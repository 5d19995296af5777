------------------------------- MODULE Devices -------------------------------
(***************************************************************************)
(* The devices behind a gateway: what their type code (DEVICE_FEATURES,    *)
(* constants.py) and their attributes say they support (DiscoveredDevice,  *)
(* models.py; device_supports_method, state.py), and which values are      *)
(* polled from each of them (_dump_device_snapshot, client.py).            *)
(*                                                                         *)
(* A device is a record of its address, its type code or None, and the set *)
(* of its DeviceAttributes bits, by their names.                           *)
(***************************************************************************)
EXTENDS Codec

-----------------------------------------------------------------------------
(* DEVICE_FEATURES *)

SetpointTypes == {101101, 101102}
SnowmeltTypes == {105801, 108401, 108402}
HeatingTypes ==
    {102301, 102302, 102303, 100102, 100103, 99301, 10599181, 99302, 99401,
     107201, 105103}
HumidityTypes == {105102, 104401}
CoolingTypes == {102304, 100101, 99203, 99202, 99201, 105101} \cup HumidityTypes
ThermostatTypes == HeatingTypes \cup CoolingTypes

Types == SetpointTypes \cup SnowmeltTypes \cup ThermostatTypes

\* What the feature of a type code supports; nothing if the code is unknown.
TypeSupports(code) ==
    (IF code \in SetpointTypes \cup ThermostatTypes THEN {"heat"} ELSE {})
    \cup (IF code \in CoolingTypes \cup {101102} THEN {"cool"} ELSE {})
    \cup (IF code \in CoolingTypes THEN {"fan"} ELSE {})
    \cup (IF code \in HumidityTypes THEN {"humidity"} ELSE {})

-----------------------------------------------------------------------------
(* DiscoveredDevice *)

supports_heat_setpoint(d) ==
    "HEAT_SETPOINT" \in d.attributes \/ "heat" \in TypeSupports(d.type_code)
supports_cool_setpoint(d) ==
    "COOL_SETPOINT" \in d.attributes \/ "cool" \in TypeSupports(d.type_code)
supports_slab_setpoint(d) ==
    d.attributes \cap {"SLAB_SETPOINT", "SLAB_SETPOINT_ALT"} # {}
supports_fan_percent(d) ==
    "FAN_PERCENT" \in d.attributes \/ "fan" \in TypeSupports(d.type_code)
supports_humidity(d) ==
    \/ d.attributes \cap {"HUMIDITY_SET_MIN", "HUMIDITY_SET_MAX"} # {}
    \/ "humidity" \in TypeSupports(d.type_code)
supports_setpoint_device(d) ==
    "SETPOINT_DEVICE" \in d.attributes \/ d.type_code \in SetpointTypes

\* The kind that the type code names, or else the attributes.
kind(d) ==
    CASE d.type_code \in SetpointTypes -> "setpoint"
      [] d.type_code \in SnowmeltTypes -> "snowmelt"
      [] d.type_code \in ThermostatTypes -> "thermostat"
      [] d.type_code \notin Types /\ "SETPOINT_DEVICE" \in d.attributes -> "setpoint"
      [] d.type_code \notin Types /\ "SETPOINT_DEVICE" \notin d.attributes
            /\ (\/ supports_heat_setpoint(d) \/ supports_cool_setpoint(d)
                \/ supports_slab_setpoint(d) \/ supports_fan_percent(d)
                \/ supports_humidity(d)) -> "thermostat"
      [] OTHER -> None

supports_mode_setting(d) == kind(d) = "thermostat" /\ ~supports_setpoint_device(d)

-----------------------------------------------------------------------------
(* The methods a device supports *)

HumidityMethods == {"RELATIVE_HUMIDITY", "HUMIDITY_SET_MIN", "HUMIDITY_SET_MAX"}

device_supports_method(d, method) ==
    \/ method = "HEAT_SETPOINT" /\ supports_heat_setpoint(d)
    \/ method = "COOL_SETPOINT" /\ supports_cool_setpoint(d)
    \/ method = "SLAB_SETPOINT" /\ supports_slab_setpoint(d)
    \/ method = "FAN_PERCENT" /\ supports_fan_percent(d)
    \/ method \in HumidityMethods /\ supports_humidity(d)
    \/ method = "SETPOINT_DEVICE" /\ supports_setpoint_device(d)
    \/ method = "MODE_SETTING" /\ supports_mode_setting(d)
    \/ method \in {"ACTIVE_DEMAND", "CURRENT_FLOOR_TEMPERATURE", "CURRENT_TEMPERATURE",
                    "SETBACK_STATE"}

\* The methods of the setters of Tekmar482DeviceHandle.
SetterMethods ==
    {"HEAT_SETPOINT", "COOL_SETPOINT", "SLAB_SETPOINT", "SETPOINT_DEVICE",
     "FAN_PERCENT", "MODE_SETTING"}

_PROTOCOL_VERSION_RUNTIME_EXTENSIONS == 3

\* The values polled from a device, which are its available_values.
Polled(d, protocol_version) ==
    {"CURRENT_TEMPERATURE", "ACTIVE_DEMAND", "SETBACK_STATE"}
    \cup (IF protocol_version = _PROTOCOL_VERSION_RUNTIME_EXTENSIONS
          THEN {"CURRENT_FLOOR_TEMPERATURE"} ELSE {})
    \cup (IF supports_mode_setting(d) THEN {"MODE_SETTING"} ELSE {})
    \cup (IF supports_heat_setpoint(d) THEN {"HEAT_SETPOINT"} ELSE {})
    \cup (IF supports_cool_setpoint(d) THEN {"COOL_SETPOINT"} ELSE {})
    \cup (IF supports_slab_setpoint(d) THEN {"SLAB_SETPOINT"} ELSE {})
    \cup (IF supports_fan_percent(d) THEN {"FAN_PERCENT"} ELSE {})
    \cup (IF supports_humidity(d) /\ protocol_version \in {2, 3}
          THEN HumidityMethods ELSE {})
    \cup (IF supports_setpoint_device(d) THEN {"SETPOINT_DEVICE"} ELSE {})

=============================================================================

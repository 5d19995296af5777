------------------------------ MODULE MCRuntime ------------------------------
(***************************************************************************)
(* An instance of Runtime: two networks that share a gateway and differ in *)
(* their devices, a value of the gateway and one of a device that comes    *)
(* and goes, and a temperature that a byte cannot hold next to one that is *)
(* rounded.                                                                *)
(***************************************************************************)
EXTENDS Runtime

Symmetry == Permutations(Apps)

\* A thermostat by its type, and a setpoint control by its attributes only, which
\* comes and goes.
Thermostat == [address |-> 1201, type_code |-> 105103, attributes |-> {}]
SetpointControl == [address |-> 1202, type_code |-> None, attributes |-> {"SETPOINT_DEVICE"}]

Networks == {<<Thermostat>>, <<Thermostat, SetpointControl>>}

OneGroup == {3}
GatewayAndDevice == {REPORTING, Key(1202, "CURRENT_TEMPERATURE")}

\* -1 degree and 21.25 degrees.
Asked ==
    {<<"HEAT_SETPOINT", -4>>, <<"HEAT_SETPOINT", 85>>, <<"SETPOINT_DEVICE", 85>>}

==============================================================================

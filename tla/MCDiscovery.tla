---------------------------- MODULE MCDiscovery ----------------------------
(* The values that the configuration gives to the constants of Discovery. *)
EXTENDS Discovery

FirmwareOnly == <<"FIRMWARE_REVISION">>
TypeOnly == <<"DEVICE_TYPE">>

=============================================================================

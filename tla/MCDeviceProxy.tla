---------------------------- MODULE MCDeviceProxy ----------------------------
(* Two keys, packets that move one or both of them.                        *)
EXTENDS DeviceProxy, TLC

CONSTANTS k1, k2

MCPackets == {<<k1>>, <<k2>>, <<k1, k2>>}

=============================================================================

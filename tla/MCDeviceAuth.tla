--------------------------- MODULE MCDeviceAuth ---------------------------
(* TLC instances of DeviceAuth: d1 exists with key k1 and the channel c1, *)
(* the other devices are still to be provisioned.                         *)
EXTENDS DeviceAuth

CONSTANTS d1, k1, c1

MCInitialKey == [d \in Devices |-> IF d = d1 THEN k1 ELSE None]
MCInitialOwner == [c \in Channels |-> IF c = c1 THEN d1 ELSE None]

=============================================================================

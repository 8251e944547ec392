------------------------------ MODULE MCBroker ------------------------------
(***************************************************************************)
(* Small instances of Broker for TLC.                                      *)
(***************************************************************************)
EXTENDS Broker

MCPorts == 1..2
MCCodes == {30}

=============================================================================

---------------------------- MODULE MCBleClient ----------------------------
(* Bounds for checking BleClient. *)
EXTENDS BleClient

AllFaults == Fault

=============================================================================

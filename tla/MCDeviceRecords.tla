-------------------------- MODULE MCDeviceRecords --------------------------
(* Small instances of DeviceRecords for TLC. *)
EXTENDS DeviceRecords, TLC
CONSTANTS o1, o2, i1, i2, f1, f2
=============================================================================

-------------------------- MODULE MC_DeviceSession ----------------------------
(* Instances of DeviceSession for TLC.                                       *)
EXTENDS DeviceSession

OneChart == {<<"t1", 1>>}
=============================================================================

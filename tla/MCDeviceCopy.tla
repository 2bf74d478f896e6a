---------------------------- MODULE MCDeviceCopy ----------------------------
(* Instances of DeviceCopy for TLC.                                        *)
EXTENDS DeviceCopy, TLC

CONSTANTS d1, d2, d3, h

Symmetry == Permutations(DeviceBuffers)

NoAwaitBeforeAsync == AllRules \ {"await before async"}
=============================================================================

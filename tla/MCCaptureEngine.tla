-------------------------- MODULE MCCaptureEngine --------------------------
(* An instance of CaptureEngine for TLC: three entries of the device list, *)
(* two of them the same device.                                            *)
EXTENDS CaptureEngine, TLC

CONSTANTS r1, r2, config, tech

MCVisits == 1..3
ListedTwice == <<r1, r1, r2>>
TechFirst == <<tech, config>>
=============================================================================

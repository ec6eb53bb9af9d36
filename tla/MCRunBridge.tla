---------------------------- MODULE MCRunBridge ----------------------------
(* Instances of RunBridge for TLC. *)
EXTENDS RunBridge

MCSizes == {3}
MCKinds == {"device-failed", "capture-start", "stored", "capture-failed"}
=============================================================================

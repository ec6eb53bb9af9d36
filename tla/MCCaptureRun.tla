---------------------------- MODULE MCCaptureRun ----------------------------
(* Instances of CaptureRun for TLC. *)
EXTENDS CaptureRun, TLC

MCSizes == {3}
MCAllKinds == Kinds

Interchangeable == Permutations(Identities) \cup Permutations(Types)
=============================================================================

---------------------------- MODULE MCFileStore ----------------------------
(* Instances of FileStore for TLC. *)
EXTENDS FileStore, TLC

CONSTANTS w1, w2

MCWriters == {w1, w2}
OneProcess == [w \in MCWriters |-> 1]
MCKeeps == {0, 1, 2}
=============================================================================

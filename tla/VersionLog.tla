----------------------------- MODULE VersionLog -----------------------------
(***************************************************************************)
(* What the capture store promises for one device and one capture type: a  *)
(* list of versions, oldest first, to which a capture adds its content     *)
(* only when it differs from the newest, and of which a retention keeps    *)
(* the newest few.  FileStore implements it.                               *)
(***************************************************************************)
EXTENDS Integers, Sequences

CONSTANTS Contents, Keeps

VARIABLE versions

LogInit == versions = <<>>

Record(d) ==
  /\ versions # <<>> => versions[Len(versions)] # d
  /\ versions' = Append(versions, d)

Retain(keep) ==
  /\ Len(versions) > keep
  /\ versions' = SubSeq(versions, Len(versions) - keep + 1, Len(versions))

LogNext ==
  \/ \E d \in Contents : Record(d)
  \/ \E keep \in Keeps \ {0} : Retain(keep)

LogSpec == LogInit /\ [][LogNext]_versions
=============================================================================

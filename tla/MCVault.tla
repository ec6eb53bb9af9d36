------------------------------- MODULE MCVault -------------------------------
(* Instances of Vault for TLC. *)
EXTENDS Vault, TLC

CONSTANTS ssh, snmp, nameA, nameB

Login(n) == [name |-> n, secret |-> CHOOSE s \in Secrets : TRUE, default |-> TRUE, disabled |-> FALSE, snmp |-> FALSE]
Community(n) == [Login(n) EXCEPT !.default = FALSE, !.snmp = TRUE]

\* A vault that omegamaps shares.
MCFound == {[Empty EXCEPT ![ssh] = Login(nameA), ![snmp] = Community(nameB)]}
=============================================================================

--------------------------- MODULE MCCredResolver ---------------------------
(* An instance of CredResolver for TLC: three devices, one of them listed  *)
(* by its address, by a name claimed under that address and by a name of   *)
(* its own, and three credentials of which at most two are tried at a      *)
(* device.                                                                 *)
EXTENDS CredResolver, TLC

CONSTANTS v1, v2, v3, v4, v5, r1, r2, r3, r4, alice, bob, key

MCVisits == {v1, v2, v3, v4, v5}
MCIdentities == {r1, r2, r3, r4}
MCCreds == {alice, bob, key}
MCIdentityOf == (v1 :> r1) @@ (v2 :> r2) @@ (v3 :> r3) @@ (v4 :> r1) @@ (v5 :> r4)
MCBindingIDs == [v \in MCVisits |-> IF v = v4 THEN {r1, r4} ELSE {MCIdentityOf[v]}]
\* v3's name starts with the label of v2's.
MCNamesakes == [v \in MCVisits |-> IF v = v3 THEN {r2} ELSE {}]
\* r4 is the name of the device at r1.
MCAnswered == [v \in MCVisits |-> IF v = v5 THEN r1 ELSE MCIdentityOf[v]]
MCStore(records, pins) ==
  [index |-> [i \in MCIdentities |-> IF i \in DOMAIN records THEN records[i] ELSE NoRecord],
   bound |-> [i \in MCIdentities |-> IF i \in DOMAIN pins THEN pins[i] ELSE NoCred]]
\* Nothing known; the device known by address and name; the two kept apart, and
\* then without a pin for the name.
MCStores ==
  {MCStore(<<>>, <<>>),
   MCStore((r1 :> r4) @@ (r4 :> r4) @@ (r2 :> r2), (r4 :> alice) @@ (r2 :> alice)),
   MCStore((r1 :> r1) @@ (r4 :> r4), (r1 :> alice) @@ (r4 :> bob)),
   MCStore((r1 :> r1) @@ (r4 :> r4) @@ (r2 :> r2), (r1 :> bob) @@ (r2 :> bob))}
MCPin == (v1 :> NoCred) @@ (v2 :> bob) @@ (v3 :> NoCred) @@ (v4 :> NoCred) @@ (v5 :> NoCred)
\* The address of v1 is inside both prefixes.
MCSite ==
  [v \in MCVisits |->
     [domains  |-> {<<"lab">>},
      networks |-> CASE v = v1 -> {"net", "rack"} [] v = v2 -> {"net"} [] OTHER -> {}]]
MCScope(networks) == [domain |-> <<>>, platforms |-> {}, networks |-> networks]
MCCredential(name, isKey, networks) ==
  [disabled |-> FALSE, snmp |-> FALSE, tags |-> {"prod"}, priority |-> 0, isKey |-> isKey,
   isDefault |-> FALSE, name |-> name, scope |-> MCScope(networks)]
MCEntry ==
  (alice :> MCCredential(1, FALSE, {})) @@ (bob :> MCCredential(2, FALSE, {"net"}))
    @@ (key :> MCCredential(3, TRUE, {"rack"}))
MCTags == {"prod"}
\* An agent that cannot be reached carries two marks, as does a key file that
\* is not there; the first verdict counts.
MCErrors ==
  {{}, {"unable to authenticate"}, {"private key", "no such file"},
   {"ssh agent:", "net error"}, {"host key"}, {"anything else"}}
=============================================================================

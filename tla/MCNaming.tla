------------------------------ MODULE MCNaming ------------------------------
(* Instances of Naming for TLC. *)
EXTENDS Naming, TLC

CONSTANTS addrA, addrB, nameA, nameB, leaf, box, rack

\* Two devices whose qualified names share a label.
MCAddresses == {addrA, addrB}
MCQualified == {nameA, nameB}
MCLabels == {leaf, box, rack}
MCLabelOf == (nameA :> leaf) @@ (nameB :> leaf)
MCBefore == (addrA :> 1) @@ (addrB :> 2) @@ (box :> 3) @@ (leaf :> 4) @@ (rack :> 5) @@ (nameB :> 6) @@ (nameA :> 7)
MCCalls == {{addrA, nameA}, {addrB, nameB}}

Of(device, id, target, aliases, answered, prompt) ==
  [device |-> device, id |-> id, target |-> target, ids |-> <<id, target>> \o aliases,
   login |-> {id, target}, answered |-> answered, prompt |-> prompt]

A == {addrA, nameA}
B == {addrB, nameB}
\* The first device by its address and by its name; the second as a session of
\* its own name, with the shared label for an alias, and by its address; the first
\* once more, as a session called the name of its prompt, which it may be refused.
MCEntry == <<Of(A, addrA, addrA, <<>>, addrA, box),
             Of(A, nameA, nameA, <<>>, addrA, box),
             Of(B, rack, nameB, <<leaf>>, addrB, rack),
             Of(B, addrB, addrB, <<>>, None, None),
             Of(A, box, nameA, <<>>, None, nameA)>>

\* The second is a session that was given the first label of the other's name.
OneLabel == <<Of(A, nameA, nameA, <<>>, addrA, box), Of(B, leaf, addrB, <<>>, addrB, rack)>>
MCOldFiles == {{}, {leaf, nameA}}

AnyRecord == Permutations(Rids)
=============================================================================

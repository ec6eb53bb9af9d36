---------------------------- MODULE MCTemplateLab ----------------------------
(* An instance of TemplateLab for TLC: a template and a rival for one      *)
(* command, and one of the same vendor; a body that wins, one that loses.  *)
EXTENDS TemplateLab, TLC

CONSTANTS arp, mac, good, loose

MCScore == (good :> 3) @@ (loose :> 1)
MCNamed == ("command" :> {arp}) @@ ("vendor" :> {arp, mac})
MCShipped == <<[name |-> mac, body |-> good], None, None>>

AnyThread == Permutations(Threads)
=============================================================================

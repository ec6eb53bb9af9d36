---------------------------- MODULE MCNetSession ----------------------------
(* Instances of NetSession for TLC, and what its documentation says of it. *)
EXTENDS NetSession, TLC

CONSTANTS page1, page2, version, config, tech

MCProbes == << [paging |-> page1, version |-> version, names |-> {"ios"}],
               [paging |-> page2, version |-> version, names |-> {"exos"}] >>
MCCaptures == <<config, tech>>
MCWedged == {tech}
MCNamed == {0, 2}

\* A device of each family and one that is neither, though it says so; a config with a line that looks
\* like a prompt, behind a pager's gate; a tech-support longer than its bound.
Answers(p1, p2, v, greet, conf) ==
  (Login :> greet) @@ (page1 :> p1) @@ (page2 :> p2) @@ (version :> v)
    @@ (config :> conf) @@ (tech :> <<"text", "text", "text">>)

No == <<"reject">>
Calm == <<"text", "blank">>
MCDevices ==
  {Answers(<<>>, No, <<"ios">>, <<"gate">>, <<"text", "lookalike", "text">>),
   Answers(No, <<"blank">>, <<"exos">>, <<>>, <<"gate", "text", "gate", "text">>),
   Answers(No, Calm, <<"ios">>, <<"lookalike", "text">>, Calm)}

MCLimitOf == [c \in {Login, page1, page2, version, config, tech} |-> IF c = tech THEN 3 ELSE 9]

=============================================================================

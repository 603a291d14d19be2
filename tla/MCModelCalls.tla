---------------------------- MODULE MCModelCalls ----------------------------
(* Two runs on one cache, with the same or different clients and models.      *)
EXTENDS ModelCalls

CONSTANTS r1, r2, p1, m1, m2

\* Up to an exchange of the runs or of the models, all there are.
Set(c1, c2, m) == [r \in Runs |-> IF r = r1 THEN [client |-> c1, model |-> m1]
                                            ELSE [client |-> c2, model |-> m]]
MCSettings == {Set(c[1], c[2], m) : m \in Models,
               c \in {<<"openai", "openai">>, <<"openai", "anthropic">>,
                      <<"anthropic", "anthropic">>}}
=============================================================================

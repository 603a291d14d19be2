--------------------------- MODULE MCSharedFacts ----------------------------
(* A small instance of SharedFacts for TLC: two tables, and two columns    *)
(* the same value is looked for in.                                        *)
EXTENDS SharedFacts, TLC

CONSTANTS n1, n2, t1, t2

MCNodes == {n1, n2}
MCPool == <<t1, t2>>
MCFilters == {"tier", "segment"}
MCValueOf == [f \in MCFilters |-> "vip"]
MCStatements == {<<"tier">>, <<"segment", "tier">>}
MCRelations == {[table |-> t, values |-> {"vip"}] : t \in {t1, t2}}

(* The nodes are alike.                                                    *)
NodeSymmetry == Permutations(MCNodes)
=============================================================================

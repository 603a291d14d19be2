--------------------------- MODULE MCContextTables ---------------------------
(* Small instances of ContextTables for TLC.                                 *)
EXTENDS ContextTables, TLC

(* Statements that may fail do all that others do, and a cache whose entries  *)
(* expire at once is none: answers are checked with both, where something is  *)
(* said of them. Which tables are left does not depend on the cache.          *)
MostSettings ==
    {s \in Setting :
        /\ s.kind = "databricks" => s.overlapping
        /\ s.caching <=>
               s.faulty /\ (s.overlapping => s.kind \in {"spark", "databricks"})}

Symmetric == Permutations(Tables)
=============================================================================

--------------------------- MODULE MCAttemptScope ---------------------------
(* Three tables, one parent whose context may or may not have been written, a *)
(* context of no parent, and a name that is no table.                         *)
EXTENDS AttemptScope

CONSTANTS a, b, d, parent, missing, invented

\* Up to three hints of two tables and an invented name, a demand that may be
\* out of reach, d reached by a shared column and a parent's source, or neither.
MCSettings ==
    {[hints |-> h, demands |-> r, scored |-> p, sharing |-> {{a, o} \cap Tables},
      sources |-> {o}, materialized |-> m] :
        h \in SUBSET {a, b, invented}, r \in {{}, {d}}, p \in {{}, {a}},
        o \in {d, invented}, m \in {{}, {parent}}}

\* Anchored on a table or a context, joining at most one name; the last one
\* hides the table it is anchored on behind a common table expression.
Say(from, join, ctes) == [from |-> {from}, join |-> join, ctes |-> ctes]
MCStatements ==
    {Say(n, j, {}) : n \in {a, d, parent}, j \in {{}, {d}, {invented}}}
    \cup {Say(b, {d}, {}), Say(missing, {d}, {}), Say(b, {d}, {b})}
=============================================================================

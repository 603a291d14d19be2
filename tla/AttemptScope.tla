---------------------------- MODULE AttemptScope ----------------------------
(* What the statements tried for one task may read: the scope of a candidate  *)
(* (RLMAgent._build_attempt_schemas), the checks of a statement against it    *)
(* (_validate_schema, _validate_scope_positions), and how a structural replan *)
(* changes it between the two executions of the task (Planner.replan).        *)
(*                                                                            *)
(* A statement is the names it has in FROM and in JOIN, and the names of its  *)
(* common table expressions; columns, filters and the retry loop are left to  *)
(* NodeSolve, so one statement stands for the attempt of a candidate.         *)
EXTENDS FiniteSets, Naturals

CONSTANTS
    Tables,       \* the physical tables; the retriever scores all of them, so the pool
    Contexts,     \* the _task_context_ names a statement may mention
    Strangers,    \* names that are neither
    Settings,     \* the tasks considered, see Setting
    Statements,   \* the statements the model may write, see Statement
    HintLimit,    \* hint tables a replan leaves at most: 8
    FreshLimit,   \* tables a replan proposes at most: 3
    Budget        \* candidates tried in an execution at most

Names == Tables \cup Contexts \cup Strangers

\* A task: the planner's hints and demanded supporting relations, the tables of
\* positive score, the pairs of tables sharing a column, and of its parents the
\* tables their results came from and the context tables that were written.
Setting == [hints: SUBSET Names, demands: SUBSET Names, scored: SUBSET Tables,
            sharing: SUBSET SUBSET Tables, sources: SUBSET Names,
            materialized: SUBSET Contexts]

Statement == [from: SUBSET Names, join: SUBSET Names, ctes: SUBSET Names]

ASSUME SettingsAssumption == Settings \subseteq Setting
ASSUME StatementsAssumption == Statements \subseteq Statement
ASSUME NamesAssumption ==
    /\ Tables \cap Contexts = {}
    /\ Strangers \cap (Tables \cup Contexts) = {}
    /\ IsFiniteSet(Names)
ASSUME LimitsAssumption == {HintLimit, FreshLimit, Budget} \subseteq Nat

NoStatement == [from |-> {}, join |-> {}, ctes |-> Names]

VARIABLES
    task,     \* the task as the planner, or its replan, left it
    said,     \* the statement written for each candidate of this execution
    phase     \* "solving", "replanned" (second execution) or "done"

vars == <<task, said, phase>>

-----------------------------------------------------------------------------
Attempted == {c \in Tables : said[c] # NoStatement}

\* The candidates: the hinted tables of the pool, then the scored ones; all
\* tables when there is neither.
Candidates(t) ==
    LET ranked == (t.hints \cap Tables) \cup t.scored
    IN  IF ranked = {} THEN Tables ELSE ranked

\* Hinted tables come first, whatever their score.
Upcoming(t) ==
    LET untried == Candidates(t) \ Attempted
        hinted == untried \cap t.hints
    IN  IF hinted = {} THEN untried ELSE hinted

\* Tables a statement for candidate c may join: hinted, demanded, behind a
\* parent's result, or sharing a column with c; never outside the pool.
JoinAvailable(t, c) ==
    ((t.hints \cup t.demands \cup t.sources
        \cup {d \in Tables : {c, d} \in t.sharing}) \cap Tables) \ {c}

Allowed(t, c) == {c} \cup JoinAvailable(t, c)

\* The names a check looks at: what a common table expression names is skipped.
FromNames(s) == s.from \ s.ctes
JoinNames(s) == s.join \ s.ctes

\* _validate_schema: no known table outside the scope.
NoDrift(t, c, s) == (FromNames(s) \cup JoinNames(s)) \cap Tables \subseteq Allowed(t, c)

\* _validate_scope_positions: contexts must have been written, and FROM anchors
\* on the candidate or on a context.
OnlyWrittenContexts(t, s) ==
    (FromNames(s) \cup JoinNames(s)) \cap Contexts \subseteq t.materialized

AnchoredOn(t, c, s) == FromNames(s) \cap Tables \subseteq {c}

JoinsInScope(t, c, s) == JoinNames(s) \cap Tables \subseteq Allowed(t, c)

Admissible(t, c, s) ==
    /\ NoDrift(t, c, s)
    /\ OnlyWrittenContexts(t, s)
    /\ AnchoredOn(t, c, s)
    /\ JoinsInScope(t, c, s)

\* Validator.validate: a demanded relation must be mentioned somewhere.
MeetsDemands(t, s) == t.demands \subseteq s.from \cup s.join \cup s.ctes

Accepted(t, c, s) == s # NoStatement /\ Admissible(t, c, s) /\ MeetsDemands(t, s)

-----------------------------------------------------------------------------
Init ==
    /\ task \in Settings
    /\ said = [c \in Tables |-> NoStatement]
    /\ phase = "solving"

\* One candidate: its scope is built, and the model writes a statement.
Attempt ==
    /\ phase # "done"
    /\ Cardinality(Attempted) < Budget
    /\ \E c \in Upcoming(task), s \in Statements : said' = [said EXCEPT ![c] = s]
    /\ UNCHANGED <<task, phase>>

\* Planner._collect_tried_tables: hints and every table named in a statement,
\* the rejected ones included.
Tried == task.hints \cup UNION {said[c].from \cup said[c].join : c \in Attempted}

\* The alternatives: up to FreshLimit of the untried tables.
Proposals ==
    LET fresh == Tables \ Tried
    IN  {a \in SUBSET fresh :
            Cardinality(a) = IF Cardinality(fresh) < FreshLimit
                             THEN Cardinality(fresh) ELSE FreshLimit}

\* Mutant: the alternatives replace the hints.
Replaced(hints, fresh) == {fresh}

\* The hints kept and the alternatives after them, cut at HintLimit.
Merged(hints, fresh) ==
    {m \in SUBSET (hints \cup fresh) :
        /\ Cardinality(m) <= HintLimit
        /\ hints \subseteq m \/ m \subseteq hints
        /\ m # hints \cup fresh => Cardinality(m) = HintLimit}

\* The task was FAILED or AMBIGUOUS, asks for a structural replan and is granted
\* one; demands the probe refuted are dropped even when nothing is proposed.
Replan ==
    /\ phase = "solving"
    /\ \E refuted \in SUBSET task.demands, fresh \in Proposals :
          \E hints \in IF fresh = {} THEN {task.hints} ELSE Merged(task.hints, fresh) :
             task' = [task EXCEPT !.hints = hints, !.demands = @ \ refuted]
    /\ said' = [c \in Tables |-> NoStatement]
    /\ phase' = "replanned"

\* The solve ends (budget, early stop or no candidate left) and is final.
Conclude ==
    /\ phase # "done"
    /\ phase' = "done"
    /\ UNCHANGED <<task, said>>

\* A concluded task stays as it is.
Rest == phase = "done" /\ UNCHANGED vars

Next == Attempt \/ Replan \/ Conclude \/ Rest

Spec == Init /\ [][Next]_vars

-----------------------------------------------------------------------------
\* The types of the variables: a task keeps the shape the planner gave it.
TypeOK ==
    /\ task \in Setting
    /\ said \in [Tables -> Statements \cup {NoStatement}]
    /\ phase \in {"solving", "replanned", "done"}

\* A replan only widens the search: hinted tables stay hinted, and what would have
\* been accepted for a candidate in the first execution is accepted in the second
\* ("replacing the hint would drop the correct table from scope", planner.py:653),
\* unless it reads a relation the probe refuted, which leaves the scope with the
\* demand. It may shrink when the planner gave more hints than a replan keeps.
Widens(t, u) ==
    /\ t.hints \subseteq u.hints
    /\ \A c \in Tables, s \in Statements :
          Accepted(t, c, s) /\ (s.from \cup s.join) \cap (t.demands \ u.demands) = {}
          => Accepted(u, c, s)

ReplanOnlyWidens ==
    [][Cardinality(task.hints) <= HintLimit => Widens(task, task')]_vars

=============================================================================

# TLA+ verification of the symbolic search runtime (syrch)

syrch answers a natural-language question over a database. An LLM planner splits
the question into a DAG of tasks; a scheduler executes the DAG layer by layer in a
thread pool; for each task an agent tries candidate tables one after the other,
generating, validating and executing SQL; solved tasks are materialised as context
tables that later tasks can join; an aggregator composes the answer. This directory
holds TLA+ models of that runtime, TLC configurations that check them on small
instances, and TLAPS proofs for every value of the constants.

Paths below are relative to `src/src/syrch/`.

## Inventory

| Component | State it keeps | Operations | Talks to | Hard behaviour | What makes it correct |
|---|---|---|---|---|---|
| Scheduler (`search/scheduler.py`) | results, consumed and replanned nodes, token total, names of materialised tables, futures | `run`, `_build_context`, `_drop_materialized`, `_any_dep_blocked` | solve calls in worker threads, executor, replan callback | completions in any order against replans, timeout of a layer, budget between layers, failing database writes | each node executed a bounded number of times and only on sound dependencies, tables match results and are dropped, nothing lost, termination |
| Search policy and `RLMAgent.solve` (`search/search_policy.py`, `search/rlm_engine.py` 240-476) | index into the candidates, evaluations, expansions | `has_next`, `next`, `update`, `expand`, ranking | attempt loop, evaluator, scheduler | early stop on one order, selection on another; ambiguity widens the search | budget kept, no early dominance, selection strict, ties genuine, termination |
| Attempt loop and validators (`search/rlm_engine.py` 537-1215) | attempt counter, feedback, alias corrections, reasoning paths; the scope of a candidate | `_attempt`, `_build_attempt_schemas`, `_validate_schema`, `_validate_scope_positions`, probe feedback | LLM, executor, probe | retries with lost feedback, `ok` results after failed execution; statements that leave their candidate | bounded attempts, every rejection reaches the next prompt, a candidate's statements stay on its tables |
| Planner (`search/planner.py`) | the DAG under construction | `decompose`, recursive expansion, merge, fold, `_validate`, `replan`, `_drop_infeasible` | LLM, retriever, probe facts | id rewriting in merged sub-DAGs, ids that coincide, expansion limits, leftovers, hints merged by a replan | no task and no input lost unless ids coincide, every edge names a node, a replan only widens |
| DataProbe / ProbeRegistry (`search/data_probe.py`) | facts keyed by database, table, column, value | `probe`, `put`, `get`, `all` | solve threads, planner, solve gate | check-then-act without a lock, errors recorded as "not found" | facts true of the database, gate and skip justified |
| Executors and context tables (`executors/*.py`) | database tables or session views `_task_context_<id>` | `execute`, `materialize_context`, `drop_context`, `close` | scheduler, solve threads, grid | non-atomic drop and rewrite, statements that fail, drops never committed, several runs on one database, runs that are stopped | an answer has the rows of its own run, a run that ends leaves no table but those its failed statements left |
| SQL cache (`executors/cached_executor.py`) | disk cache by statement, 24 h | `execute` | executors of all runs | check-then-act; key ignores the database's state | an answer is a complete table |
| LLM clients and cache (`llm/*.py`) | disk cache by prompt and model | `generate`, `generate_json` | planner, solve threads, aggregator, harness | rate limits, mangled replies, runs with different models on one cache, empty values taken for no entry | a run gets its own model's answers, asks once, and is never caught in a call |
| Aggregator (`search/aggregator.py`) | none between calls | `merge`, primary choice, join merge, heuristics, confidence | pipeline | runs with few or no usable results, ties, tasks that raised | presents a solved leaf if there is one, full confidence only if nothing failed |
| Pipeline (`search/pipeline.py`) | the question, its evidence, the clarifications | `run_pipeline` | all of the above, the user | the question changes at two points | plan, run and answer are of one question |
| Candidate grid (`search/grid.py`) | worker processes | grid run | pipeline | several runs over one database | runs do not disturb each other |
| PathEvaluator, Validator, Calibrator | none | scoring | solve | – | scores in [0, 1] |
| Retriever, semantic index, question_norm | embeddings | scoring, `normalize_question` | planner, solve | a normalisation that fails | falls back to the question itself |
| Clarify | none | prompts, one score | pipeline | – | – |
| API, CLI, configuration, logging, evaluation harness and benchmark | output | arguments, reports, metrics | pipeline | a run that fails in the harness | the failure is recorded |

How they interact: `run_pipeline` scores the tables, may ask the user, calls the
planner, then `Scheduler.run`, then the aggregator. The scheduler submits
`RLMAgent.solve(node, context)` to a thread pool; a `NodeResult` (or an exception)
comes back, with a status and possibly a STRUCTURAL replan request, which the scheduler
answers by calling the planner's `replan` and releasing the node. Solve threads share the
probe registry, the database and the two disk caches; the caches and, with SQLite and
JDBC, the context tables are shared with every other run on the machine, and with Spark
those of the runs of one process.

## Modules

| Module | Models |
|---|---|
| `NodeContract` | statuses of a node, the ways `solve` can end, the result recorded for each (`core/models.py`, `rlm_engine.py`) |
| `Scheduler` | `Scheduler.run` (`search/scheduler.py`), `compute_layers` |
| `TaskRun` | abstract specification: what executing a task graph promises |
| `CandidateSearch` | `RLMAgent.solve` under `BeamSearchPolicy` and `ExhaustivePolicy` |
| `NodeSolve` | `RLMAgent.solve` with the REPL loop `_attempt` of every candidate; extends and refines `CandidateSearch` |
| `AttemptScope` | which tables the statements of a task may read, and how a replan changes that |
| `SharedFacts` | the probe registry between solve threads, the gate, the skip rule and `replan`'s dropping of relations |
| `Planner` | `Planner.decompose`: recursive expansion, merging and folding |
| `ContextTables` | context tables and the SQL cache, between runs |
| `ModelCalls` | calls of the language model and their cache, between runs |
| `Answer` | `run_pipeline` and `Aggregator.merge` |
| `SchedulerProofs`, `SearchProofs`, `PlannerProofs`, `SharedFactsProofs`, `ContextTablesProofs`, `AttemptScopeProofs`, `AnswerProofs`, `ModelCallsProofs` | the theorems about them |
| `MC...` | one per checked module: instances for TLC |

`NodeContract` is what the others meet at: `Scheduler` and `Answer` take the ending of a
solve call as an input, `CandidateSearch` produces it. `NodeSolve` composes the candidate
loop with the attempt loop. Where two components only meet through a value (the plan
between `Planner` and `Scheduler`, the results between `Scheduler` and `Answer`), the
receiving module takes every value of the right shape.

### NodeContract

What the parts meeting at a task node agree on. `Endings` are the five ways out of
`solve`; `StatusOf`, `HasRows` and `AsksReplan` give the recorded status, whether rows
come with it, and whether a replan is requested. An exception is recorded by the
scheduler as a `NodeResult` without a status, whose default is `SOLVED`
(`core/models.py:429`), so `StatusOf("raised") = "SOLVED"`.

### Scheduler

| Variable | Code |
|---|---|
| `dag` | the `TaskDAG`: `depends_on` as sets, the atomic nodes, the nodes with a malformed `depends_on` (`skewed`) |
| `phase` | where the main thread is: `pass` (top of `while True`), `layer` (the `for` over layers), `wait` (inside `as_completed`), `unwind` (leaving the `with` block by an exception), `cleanup`, `returned`, `raised` |
| `layer`, `progressed` | `layer_idx`, `progressed` |
| `results` | `results`: status, whether it has rows, and which execution of the node it came from |
| `consumed`, `replanned`, `tokens`, `materialized` | the variables of these names (`replanned_nodes`, `total_tokens`) |
| `taken` | how often a node was taken; kept for the properties and to tell executions apart |
| `future`, `ending`, `context` | the futures of the current pool, how each call ended, the context each call was given |
| `tables` | the `_task_context_` tables in the database |

Actions follow the code block by block: `BeginPass` (99-105), `SkipLayer` and
`DispatchLayer` (105-144), `EndPass` (212-213), `StartSolve` and `FinishSolve` (a worker
of the pool), `CompleteFuture` (one iteration of the `as_completed` loop, 146-204, with
`MaterializeResult` and `GrantReplan` as parts), `NextLayer` and `StopOverBudget`
(206-210), `WaitTimesOut` and `Unwind` (the exception of `as_completed` through the
`with` block), `DropMaterialized` (215-223).

Abstractions: row contents are the number of the execution that produced them; the
`future.result(timeout)` branch is not reachable on a completed future; the replan
callback rewrites hint tables only (`planner.py:628-664`), makes no LLM or database call
and cannot change ids or edges, so the graph is kept; a timeout may happen at any time
(durations are not modelled); logging, `had_context` and `context_used` are left out.
A layer of compute_layers is an unordered set in the code; submission order does not
matter because all contexts are built before any result of the layer is looked at.

### TaskRun

Tasks are attempted in batches whose members depend on concluded tasks only; a task
with a failed dependency is blocked instead of attempted; SOLVED and BLOCKED are final;
any other outcome may be tried once more; nothing happens after the run is closed. It
knows no layers, pool, budget or tables. `Scheduler!Promise` is its instance under the
refinement mapping: the futures in flight are the tasks being attempted, the recorded
statuses the outcomes, and the run is open until `run` returns or raises.

### CandidateSearch

`tried` is the list of evaluations so far (its length is the policy's `_index`), each the
vector of the five ranking signals of a viable candidate or `Unviable`; `pool` is the
number of candidates, `expansions` the widenings. `MayGoOn` and `MayStop` are the two
answers of `has_next`; exactly at the stop margin both are possible, because the code
compares rounded floating-point means where the model compares integers. `RejectInfeasible` is the gate
on probed facts, `Try` one candidate, `AttemptRaises` an exception out of an attempt,
`Expand` the ambiguity expansion, and `ConcludeFailed`, `ConcludeTied` and
`ConcludeSolved` the three results after the loop. The attempt itself is abstracted to
its evaluation; `NodeSolve` opens it.

### NodeSolve

The module extends `CandidateSearch`, whose variables and actions it uses under their
names (the refinement mapping is the identity), and adds the loop of the current
candidate: `repl` says whether a model call (`ask`) or the checks of its answer
(`judge`) come next, `attempt` is the loop counter, `feedback` is `attempt_feedback`,
`paths` the reasoning paths of the candidate, `cost` the two `total_cost` counters (of
`solve` and of `_attempt`), `allPaths` what each evaluated candidate left behind. An
answer is one of eight verdicts, named for the first check it fails in the order of the
code: no SQL found, syntax, schema and scope, alias, execution, requirements, no rows;
or good.

`Ask` is the model call and the checks (612-664, then the check that decides), `Retry`
each `continue`, `SkipCandidate` the early exit when probes show the candidate cannot
hold the rows (683-692, 764-773), `GiveUp` each way to `best_result is None`,
`KeepFailedRun` the last attempt whose execution failed and whose result is returned
with `ok=True` (726-740), `Accept` the good one, `Raise` an exception of the model or of
the alias and schema look-ups through `solve`. `Conclude(r)` is the return of `_attempt`
with the evaluation and the bookkeeping in `solve` (322-330), in one step: both are
local to one thread. `Around` is everything of `solve` outside the candidates.

A call costs one token, so that cost and number of calls can be compared. The only state
that is not in the code is `calls`, the number of model calls.

### SharedFacts

| Variable | Code |
|---|---|
| `holds` | the database: for which (table, column = value) it has rows; a column a table does not have holds nothing |
| `registry` | `ProbeRegistry._facts` |
| `requires` | the supporting relations of each node: table and the values its purpose mentions |
| `pc`, `primary`, `untried`, `probes` | where a solve call is: gate, attempt, probing, query in flight; its current candidate; the ones left; failing statements probed so far |
| `work`, `found` | the keys still to be probed for the current failing statement, and the facts already read for it |
| `replanned` | the scheduler's set of this name |
| `rejected`, `skipped` | the gate's rejections of a node and the candidates given up, kept for the properties |

`PassGate`/`RejectAtGate` are `_requirement_infeasible`; `FailStatement` an answer that
fails the schema check or returns nothing before the last attempt; `ReadFact`,
`MissFact` and `QueryFact` one `DataProbe.probe` (look-up, miss, query and `put`: other
threads run between any two); `SkipCandidate`/`RetryCandidate` the skip rule;
`TakeCandidate`/`EndSearch` abstract the rest of the search. `Replan` and `SecondWalk`
are the scheduler's thread. The registry is keyed by database too; a run has one.
`DatabaseErrors` says whether a query may fail for another reason than a missing column;
the code records both as "not found" (`data_probe.py:90-92`).
A table has one name here. The gate, the skip rule and `replan` compare base names
(`rlm_engine.py:427`, `1158-1164`, `planner.py:686-691`), so a pool with one base name in
two schemas is not covered.

### AttemptScope

`task` is what the planner (or its replan) left of a task: hints, demanded relations,
tables of positive score, pairs sharing a column, the parents' tables and contexts; `said`
the statement written for each candidate of this execution, as the names it has in FROM,
in JOIN and in its common table expressions; `phase` tells the first execution from the
one after a replan.

`Attempt` builds the scope of the next candidate (`Upcoming`, `Allowed`:
`_candidate_tables`, `_build_attempt_schemas`) and lets the model write any statement.
`Admissible` is `_validate_schema` and `_validate_scope_positions`, `MeetsDemands` the part
of `Validator.validate` about relations. `Replan` is what `Planner.replan` does to one
node: tables tried are collected, some of the others proposed, merged into the hints and
cut, refuted demands dropped. `Conclude` ends the solve call.

Names are compared as a whole: qualified names, aliases, columns and filters are left
out, and a demand is met by a mention anywhere. A statement that passed the checks has by
their definition selected from its candidate or from a parent's context (`AnchoredOn`), so
no property restates it. The retriever scores every table of the
database, so the pool is all of them. One statement stands for the attempts of a candidate.

### Planner

| Variable | Code |
|---|---|
| `phase` | where `decompose` is; `refused` is the `ValueError` of a level whose answer is no valid graph, `broken` that of the finished plan, or the `IndexError` of an empty one |
| `simple` | `_is_simple_question`, which lowers the depth limit of the outermost call |
| `stack` | the calls of `_recursive_expand` under way: the task each decomposes, its graph, the graph as it was listed, the non-atomic tasks still to be decomposed |
| `wanted` | what the answers of the model asked for, under full ids; kept for the properties |
| `folded` | the lookup tasks folded so far |

`DecomposeQuestion` and `DecomposeTask` are `_decompose_level` on the question and on a
task; `MergeSubDag` the return of a nested call through `_merge_sub_dag` and the node
limit; `ExpansionDone` the return of the outermost; `FoldLookup` one round of
`_fold_supporting_relation_tasks`; `Deliver` the final `_resolve_root` and `_validate`.

`dag.nodes` is a dict, and its insertion order matters: edges are renamed while nodes are
added, and expansion follows it until the limit. A graph is therefore a function from ids
to tasks, each with the place (`at`) it was inserted at. An id is a string the model
chooses and `_merge_sub_dag` prefixes: the sequence of its parts between dots, so that
`parent + "." + id` is `\o` and the task the model named `A.B` has the id that the
sub-task `B` of `A` is given. `Replaced` is `del` and `nodes.update`, which overwrites a
task of that id in its place; `Rewired` the loop after it, where `remove` takes one
occurrence of an id listed twice (`twice`). Each task also carries its lineage (`of`), the
names given to it and to the tasks above it, by which the properties know a task from
another of the same id; no action reads it but to pass it on and to name a table.

The words of a task are data, except whether it is a lookup
(`_is_supporting_relation_task`) and whether its table can be joined (`Roles`).
`Answers` gives what the model may answer at each depth.

What the properties promise, and what not, follows the code:

- `TasksKept`: a sub-task of an answer is in the delivered plan, whole or in parts, or was
  folded. Not promised where two tasks come to one id (`Alone`): the later overwrites the
  other at `planner.py:478`. The table of a folded lookup is joined by a task of the plan,
  or was by a lookup folded after it, whose joins are then forgotten
  (`planner.py:407-415`).
- `InputsKept`: a task that is in the plan as the model named it waits for all parts of
  each input it was given, or joins its table. Not promised where ids coincide; of a
  sub-task that was listed before its inputs, or whose inputs were expanded, since their
  parts are appended behind it (`Orderly`): `planner.py:468` misses such edges, which then
  dangle or find a task of the same name in the outer graph; and for what only a folded
  lookup waited for.

### ContextTables

| Variable | Code |
|---|---|
| `setting` | the deployment: the `kind` of executor; `overlapping` for a grid with several processes; `caching` for `CachedExecutor`; `faulty` if statements may fail for other reasons than the tables of other runs |
| `stage` | how far each run is; `lost` is a run that was stopped, or left `Scheduler.run` without its cleanup |
| `db` | per database or session, the runs whose rows each `_task_context_` table holds |
| `writing` | the table SQLite's `materialize_context` is at, and whether it has been created |
| `written`, `recorded` | the contexts dependents are told of, and `materialized`, the tables to drop |
| `spoilt`, `left` | tables a run failed to write, and tables it made and failed to drop; kept for the properties |
| `reading`, `cache`, `answer` | the statement a worker is executing, the SQL cache, the last answer with its origin |

How a table is written depends on the executor. SQLite commits each statement alone:
`DropOld`, `CreateTable`, `InsertRows` (`sqlite_executor.py:59-68`). JDBC replaces the
table in one transaction, Databricks the view in one statement, Spark drops the view and
creates it while nothing reads it: `Replace`. Any of these may fail, because a neighbour
holds the lock, a connection is lost or two columns have one name: `NothingWritten` is a failure before anything but a drop was done, `WriteFails` one of
SQLite's CREATE or INSERT, after which the table is absent, or empty and not recorded. In
every case the error is only logged (`scheduler.py:185`) and dependents are told of the
table (`Announce`).

`Hit`, `Miss`, `Query`, `Fill` are `CachedExecutor.execute` over a context table; `Expire`
its time to live. `StartCleanup`, `DropContext`, `Close` are the end of a run;
`DropHasNoEffect` a drop that failed, which is logged or swallowed, or one over JDBC,
which is not committed (`jdbc_executor.py:70-75`; both outcomes are kept, since some
databases commit such statements by themselves). `CloseSession` ends a Databricks session;
`SparkExecutor.close` does nothing, and `getOrCreate` gives the runs of a process one
session, which is therefore shared like a database unless the runs are those of several
processes (`Shared`). `RenewSession` is an expired Spark session renewed without its
views, `Abandon` a stopped process or a layer timeout.

A statement is named for the table it reads, so that two runs asking the same of a
context share a cache entry. Empty contexts, which the scheduler does not write, and reads
of base tables, which do not change, are left out. Any set of runs may exist, each used
once. Of JDBC databases that commit CREATE and
DROP by themselves only the effect of a drop is covered, not a replacement that stops
half-way.

### ModelCalls

| Variable | Code |
|---|---|
| `settings` | client and model of each run |
| `cache` | `CachedLLM`'s entries by purpose, prompt and model |
| `call` | per run: the call it is at (keywords, plan, attempts, answer), the round of `generate_json`, the requests sent in it, whether the answer is still to be stored |
| `told`, `ended` | the last return value; whether the run goes on, is done or ended in an error |
| `known` | keys answered since their entry expired; kept for the properties |

`AnswerFromCache` and `AskProvider` are the look-up and its miss; `Reply` is a message of
the provider and its reading (`Content`, `Parsed`, which differ between the clients);
`RateLimited`, `AskAgain`, `Refused` the bounded retries of the OpenAI client and its
second round in plain text; `Store` the write of the cache after the answer; `Expire` the
time to live. `Return` is what a value or an exception does to the run: no keywords means
the question itself, a failed attempt is recorded by the scheduler, a failed or unusable
plan or answer ends the run.

The attempts of a run are sequential here: calls meet in the cache only, and the second
run supplies the concurrency. Runs without a cache are the runs in which every entry has
expired. Plans of sub-tasks are like the plan, clarifications like the answer.

### Answer

| Variable | Code |
|---|---|
| `interactive` | `config.interactive` and a callback |
| `stage` | where `run_pipeline` is; `declined` is the answer "too ambiguous" |
| `question`, `asked` | the number of clarifications appended, and of those recorded in `qa_pairs` |
| `evidence`, `vague` | the question the tables were scored for, `_terminal_ambiguity` of the scores |
| `plan`, `planned` | the plan and the question it was made from |
| `results` | the outcome of each task that has one |
| `solution` | the `FinalSolution`: whose rows, which confidence |

`ScoreTables`, `GiveUp`, `ClarifyTerms`, `PassGate` are stage 1; `Decompose`,
`ClarifyPlan`, `PassReview` planning and its review; `RunTasks` the return of the
scheduler, with any results a graph allows; `Merge` the aggregator (`PrimaryLeaf`,
`BestSolved`, `JoinedTasks`, `Penalty`, `Adjusted`); `Fail` an exception anywhere. Evidence is
an order (`merit`), confidences are percentages; which columns join and what is said to
the user are data. The sum of penalties of a run is compared before rounding.

## What the runs check

| Run | Instance | Distinct states | Shows |
|---|---|---|---|
| `core` | every acyclic graph of three tasks, also with one that is not atomic or malformed, beside a fourth that is never run; three graphs of four tasks (diamond, two chains, a skewed chain); two workers; budget 3, each call costing 1; replans on; sound database | 157,221 | types; a node is taken at most twice and solved only on sound dependencies; the tables a call is told of exist and hold what it is told; only SOLVED results are in tables, dropped on return; exactly the runnable nodes get results; replans are honoured; nothing is dispatched over budget; final results stand; `Scheduler` implements `TaskRun`; `run` ends |
| `search` | up to six candidates, both policies, beam width 2, budget 4, margin 0.15, one expansion, four signal vectors | 55,359 | budget, lone successes, selection, ties, termination |
| `repl` | up to three candidates, three attempts each, all verdicts, beam width 1, budget 2, one expansion | 146,566 | `solve` with its retries implements `CandidateSearch`; only candidates whose last answer was good are ranked; every call is in paths and cost; feedback is complete, failed constraint checks apart; `solve` ends |
| `facts` | two nodes, two tables, one value looked for in two columns, all 16 contents, all requirements; no database errors | 3,274,456 | facts are true; candidates are given up on true facts; a node is not rejected twice for one relation |
| `plan` | answers of two or three tasks at the top, with edges in any order, lookups with inputs, an id that a sub-task's will be, a repeated id, a dependency listed twice, and none; the same names in the answers for sub-tasks and their sub-tasks; depth 3, 3 tasks per level, 5 in all | 383,780 | which sub-tasks and inputs are kept; a task stays open only at a limit; planning ends |
| `tables` | two runs, two tables; each kind of executor, overlapping or not, with statements that fail or not, and a cache where answers are promised something | 6,413,880 | a fresh answer has the rows of its own run, whatever failed before; no answer has half of them until a write fails, both where runs do not overlap on a database; every table left is accounted for |
| `answer` | plans of up to three tasks, eight outcomes per task, with and without a user | 520,172 | a solved leaf is presented if there is one; full confidence is only given if all recorded tasks were solved; plan and answer are of the clarified question |
| `scope` | three tables, a parent's context, a missing one, an invented name; two candidates; hints limited to 2, proposals to 2 | 62,096 | a replan only widens |
| `calls` | two runs, one prompt, two models, all clients; two requests per round, one attempt | 165,926 | a run gets its own model's answers; the provider is asked once; every run ends |
| `v_solved` | violation; as `core`, three tasks | | a task whose call raised is SOLVED without a table (README.md:75-76) |
| `v_feedback` | violation; as `repl` | | after a failed constraint check the next prompt does not mention it (tests/test_rlm_engine.py:1193) |
| `v_depth` | violation; three levels of answers, each a valid plan, under the limits of the code for tasks per level and in all | | the finished graph names a task it does not have (planner.py:29) |

Bounds. Three tasks give every relation a pair of tasks can be in together with a third
(common dependency, common dependent, chain, independent), and the scheduler treats
tasks of a layer alike; the replan hazards need a replanned task, a task that depends on
it and a neighbour in its layer. Four tasks add the diamond and two tasks replanned in
different layers. Two workers make a queue in front of the pool possible. A budget of 3
lets a run end over budget in a first or a second walk, or not at all. With six
candidates, a budget of four and one expansion, a search can stop on the pool, the
budget, the expanded budget or the margin. The four signal vectors make the posterior
and the lexicographic order disagree in both directions and put a pair exactly on the
margin. Three attempts let two different errors precede the last attempt, whose exits
differ. In `SharedFacts` two nodes suffice for the races, which are between two threads
on one key; two columns separate what a fact says from what the gate concludes from it;
two tables give the skip rule a "here" and an "elsewhere". One probed statement per
candidate (`MaxProbes` 1) is enough because a statement may have two filters.

In `Planner` three levels are the least at which a graph that was itself expanded is
merged, which is where edges are lost even if every answer lists a task after its inputs
(`v_depth`), and where a missed edge can find tasks of two outer graphs; all levels use the names `A` and `B`, as the same prompt makes the
model do, and `A.B` is also a name, so that ids coincide. The limit of five tasks in all
can be met before, in or after nested expansions, and the one of three per level in a
single answer; lookups occur at the first two levels, alone, in chains and waiting for
others. In `ContextTables` two runs can follow each other (what one left, the other
finds) or overlap, and a run with two contexts can fail in the second with the first one
written. Settings whose behaviour another one includes are left out (`MostSettings`): a
database whose statements may fail also does all that a sound one does, and Databricks
runs after each other are two of its overlapping ones. In `Answer` three tasks give
a leaf beside an inner task, two leaves that compete, and a leaf without a result. In
`AttemptScope` both limits are below the number of tables, so that both cut; the code has
8 and 3. In `ModelCalls` two requests make one retry (the code makes up to five), and one
attempt is what a task with a failed call has used up; two runs on one prompt are the
least that can meet in the cache, two models the least that can be confused.

No run needs a state constraint: the state spaces are finite as they are. `facts` and
`tables` use symmetry, of nodes and of tables, and state no liveness.

Fairness. `Scheduler` assumes weak fairness of the main thread and of each worker:
threads keep running, and every solve call ends, since LLM calls carry a timeout and a
bounded retry (`llm/openai_llm.py:52-64`, which `ModelCalls` checks) and a node makes a
bounded number of attempts. `CandidateSearch` and `NodeSolve` assume weak fairness of
their one thread for the same reason. In `NodeSolve` exceptions are left out of the fair
part, so that no loop is ended by one. `Planner` is sequential code that answers every
call, so it assumes weak fairness of its next step. `ModelCalls` assumes it of each run:
a provider that does not answer is cut off by the client (120 s). A timeout of the
scheduler is never forced: termination does not rely on it. `SharedFacts`,
`ContextTables`, `AttemptScope` and `Answer` state no liveness, and assume no fairness.

## What is proved

Eight modules hold proofs; each theorem holds for every value of the constants that the
assumptions named in its module allow.

`SchedulerProofs` proves, for every finite set of nodes, every set of graphs, every
concurrency, budget and cost: `TypeCorrect`; `TakenAtMostTwice`;
`SolvesOnSoundDependencies`; `UncertainNeverMaterialized`; `FinalResults`;
`NothingOverBudget`; `ReplansAreHonoured`; `ReturnsComplete`; and, if database statements
do not fail (`~FaultyDatabase`), `ClaimedTablesStay` and `TablesDropped`. The invariant
behind the first group (`IInv`) relates `taken` to `consumed` and `replanned` (a node is
taken once for being consumed and once more only if it was replanned), the futures to the
phase and to the layer (a batch is a subset of one layer, so no dependency of a call in
flight is itself in flight), results to executions, and tables to results.

The completeness theorems rest on a second invariant (`WalkInv`): a node that was taken
is runnable and in a layer that every walk reaches, since no layer before it is empty; and
a walk without progress so far has found nothing left to take in the layers behind it. A
walk that makes none has therefore passed every runnable node with a result, and every
released node. That a walk may stop at the first empty layer is `EmptyLayerIsTheEnd`.
Layers and runnable nodes are defined by recursion over the naturals. The library's
induction theorems take an operator, so induction is done by hand, through the least
element of a set of naturals that would contradict the claim (`LeastNatural`,
`InductionOnSet`, `Iteration`, `PlacedSteps`).

The same module proves the refinement, `Spec => ImplementsTaskRun`: initial states map to
initial states; a dispatching or blocking step maps to `Begin`, a completion to
`Conclude`, leaving `run` to `Close`, every other step to a stutter. `IInv` supplies the
guards of the abstract actions.

`SearchProofs` is about `solve`, first without, then with its retries. Without them it
proves the four safety properties of `CandidateSearch` for every configuration and every
set of signals, from an invariant that ties the number of tried candidates to the budget
and to the expansions, and from `BeatsIsTotal`: of two different signal vectors one
beats the other.

`Implementation` says that `NodeSolve` implements `CandidateSearch` for every number of
attempts: each `Conclude` is a `Try`, each `Raise` an `AttemptRaises`, `Around` the
steps of the same names, the rest a stutter. The step that needs an invariant is
`Conclude`, which must find the policy still willing to go on although attempts have
passed since it was asked (`LoopAllowed`). The four properties are thereby inherited
(`SolveKeepsPromises`). `LoopIInv` adds what the loop owes: `RankedMeansGood`;
`CallsAreAccounted`, from `Accounted`, which splits the calls into those of concluded
candidates and those of the current one; and `FeedbackIsKept`, from `Told`: the feedback
retells the answers of this candidate up to the one being judged. That a list is retold
in full and in order is said by an increasing map of positions (`Retells`), not by a
fold, so that one more answer extends the map (`RetellsMore`, `RetellsSame`).

`PlannerProofs` proves the three safety properties of `Planner` for every depth, every
limit, all names and all answers; nothing is assumed of the ids, which may coincide in any
way. What the code does not keep is excepted in the properties themselves, task by task.
Each has an invariant of its own over the stack of nested calls. `Shape`
(`CallsAreNested`) types the stack and says that each call expands a task its caller
listed and still has to decompose, whose lineage all its own tasks extend; that each task
of a graph was asked for under the id it has there; and that no graph holds a task
together with a part of it. The lineages are what makes this provable: ids may name two
tasks, lineages do not. `OpenTasksMeanLimit` follows from `Counted`: an open task is listed
to be decomposed, or its call gave up on a full graph, and each fold takes one task out of
the graph and counts it. `TasksAreKept` follows from `Kept`: as long as no other task was
asked for under the id of one of its parts, every task of an answer is carried on in some
graph of the stack or among the folded. A task that is overwritten, by a merge or
while it is waiting to be expanded, contradicts that. `InputsAreKept` follows from
`Connected`: in every graph of the stack, for a task the property speaks of, an input is a
dependency that was inserted before it, and each part of an expanded input is a dependency
of the task, or of another part of that input (`Wired`); what has still to be decomposed
has no parts yet (`NotYet`). Merging keeps both because the edges it renames go to tasks
inserted earlier, and folding because the joins it adds are the dependencies it removes
(`JoinsKept`). In a valid plan that is enough: parts that are not waited for would each
have a dependent among themselves, and an acyclic graph has no such set
(`NoEndlessDescent`).

`SharedFactsProofs` proves `FactsAreTrue`, `SkipsAreJustified` and `SecondReasonsAreNew`
for any number of nodes, tables and filters, assuming `~DatabaseErrors`. `FactsInv` adds
to the truth of the registry the truth of what each thread has already read for its
statement, since a decision is taken on facts gathered one by one. `RejectionInv` adds
that a relation a node was rejected for is infeasible by the facts still recorded: facts
are only added, and under the assumption never contradict each other, so that the replan,
however late, drops what the gate rejected.

`ContextTablesProofs` proves, for every kind of executor and whether or not statements
fail, `TypeCorrect` and `TablesAreAccountedFor`; where runs have sessions of their own or
do not overlap (`Isolated`), `FreshAnswersAreOwn`, of tables the run did not fail to write;
and, there and until a write fails (`NothingSpoilt`), `AnswersAreWhole`. The two
assumptions are part of the properties. `Accounted` says of every table which run answers
for it: one that still has to drop it, one that was stopped, or one whose statement failed.
`OwnRows` says that a table a run has written is, until it is dropped, absent (a renewed
session), spoilt, or holds exactly its run's rows, and that no cached or pending answer was
read from half a table before a write failed.

`AttemptScopeProofs` proves `ReplansOnlyWiden` from the order in which hints, proposals and
evidence are merged and cut, and from what the scope and position checks ask of a
statement.

`AnswerProofs` proves `AnswersTheQuestion` from an invariant on the stages between the
two clarifications, and `PrimaryIsTrusted` (where no tables can be
joined) and `FullConfidenceMeansSolved` for plans of any size: a run's results have a
maximal element (`MaximalExists`, from finiteness), and what the choice of the aggregator says of it is carried to the end of the run.

`ModelCallsProofs` proves `TypeCorrect`, `AnswersAreOwn` and `ProviderAskedOnce` for any
runs, prompts, models and limits. `CallInv` ties each entry and each answer still to be
stored to its key, also while another run fills the same entry; `Bounded` keeps the
counters of a call within their limits.

Only model-checked: liveness (`Termination` of `Scheduler`, `CandidateSearch`,
`NodeSolve` and `Planner`, and `EveryRunEnds`), which is out of the prover's reach. Every
other property of the passing runs is stated by a theorem.

## Where code, documentation and expectations part

The three violation runs show disagreements of the code with its own documentation,
tests or comments. The following are consequences of the code as modelled, or were read
in it while modelling; none is contradicted by a line of the repository.

Scheduler. With failing database writes a dependent is told of a table that does not
exist (`FaultyDatabase = TRUE`): the claim is derived from the status. A timeout of a
layer leaves its run's tables behind. A dependent stays BLOCKED beside a dependency that
its replan solved, because only the replanned node is released. A plan of which no task
can be run reaches a `max()` of nothing in the aggregator (`aggregator.py:148`), `Fail` in
`Answer`.

Facts. The gate ignores the column of a fact (`rlm_engine.py:427`): a relation is
rejected for a value its table holds in another column.

Context tables. A failed INSERT leaves an empty table that is never dropped, and dependents
are told of it and read it: `FreshAnswersOwn` excepts the tables whose write failed, and
`EveryAnswerWhole` ends with the first such failure. The SQL cache answers with rows of an
earlier run on the same question's contexts; `FreshAnswersOwn` is therefore about answers
of the database. Overlapping grid cells on one database share their tables. Over JDBC, dropping a context is not committed,
an empty context does not drop its predecessor, and the database id in the key is the
path as it was written. A Spark session renewed after expiry has lost the views that
dependents were told of.

Model calls. Temperature and timeout of the configuration never reach the provider
(calls use 0.7 and 120 s), though the temperature is in the key; provider and base URL
are not. A JSON list, an empty object or an invalid plan is stored for 24 hours, and every
run of that question fails on it until it expires. A JSON null never counts as an entry,
and can replace a good answer in a race. Concurrent misses may be given different
answers. One `generate_json` may take ten requests with their pauses, while
`node_timeout` is computed from single calls. With a retry whose prompt has not changed
(`v_feedback`), the cache returns the answer that was just refused. `run_single` leaves
its executor open on an error, and the CLI's search leaves it open always.

Planner. Beside the forward references of `v_depth`: an edge missed in the same way can
find a task of an outer level with the same name and then goes unnoticed (`B.B`, made to
depend on `B.A`, waits for `A`), which the same prompt at every level invites. Ids that
coincide after prefixing overwrite each other without a warning, and what waited for one
task then waits for the other. The sub-tasks of a task lose its dependencies on merging,
unless they name them. Of two lookups folded in a chain the first one's table is lost, and so is what
only a folded lookup waited for. A missed edge can make a lookup wait for itself; folding
it removes it without a trace, and if it was the last task the plan has no root.

Attempts. A common table expression named like a table hides it. Relations the planner
demands outside the scope's tables can never be met. A task with more than eight hints
has them cut by a replan. Tables of rejected statements count as tried. A qualified name
never matches a table, and a demand is met by any mention of its name. Unknown tables
reach the database. Tables of refuted demands leave the join scope. When nothing could be
ranked, a replan narrows the candidates to its proposals. Signals of execution are
created anew in each attempt, so the result quality of a viable candidate is always 1.0.

Answer. The alias map of the retriever is never passed to the scheduler: the problem is
built again without evidence (`pipeline.py:200-205`) before line 230 asks for it. The
first clarification is not in `qa_pairs`, and evidence is not scored again after the
second. The AMBIGUOUS surcharge is applied after the penalties are capped
at 0.40. Tasks that never ran because of the budget are no penalty. `token_cost` counts
leaves only. A join merge presents the rows of an AMBIGUOUS anchor with the confidence of
the solved ones.

## What is not modelled, and the plan

Not modelled: the lexical scores of the retriever and the semantic index, the evaluator
and the calibrator, and the analysis of SQL text in the validators (syntax, columns,
aliases), which are stateless text matching and enter as inputs; the loop in `clarify.py`,
which has no caller; the reading of database schemas, argument handling, reports, logging,
metrics and benchmark data, which are I/O around the runtime.

Left of the plan:

1. `Planner` composed with `Scheduler!Runnable`: which tasks of a delivered plan are
   never run because one stayed open or an edge dangles.
2. Concurrent attempts of one run in `ModelCalls`, with the scheduler's timeout.
3. `Answer` on the results `Scheduler` can leave, instead of all of the right shape.

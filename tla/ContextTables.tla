---------------------------- MODULE ContextTables ----------------------------
(* Context tables of several runs (executors/*.py, CachedExecutor): the       *)
(* table of a task is named after the task alone, so runs over one database   *)
(* write, read and drop tables of the same names, and the disk cache of       *)
(* statements outlives them all.                                              *)
(*                                                                            *)
(* Within a run the main thread writes tables while a solve worker reads      *)
(* them. Each executor writes in its own way: SQLite commits DROP, CREATE and *)
(* the rows one by one; JDBC replaces the table in one transaction, on        *)
(* databases whose transactions hold such statements, and never commits its   *)
(* drops; Spark and Databricks keep views in a session, which Spark shares    *)
(* between the runs of a process. Any statement may fail.                     *)
(* The grid's pool overlaps its runs, each in a process of its own.           *)
(* Left out: a node solved a second time writes its table again (Scheduler).  *)
EXTENDS FiniteSets

CONSTANTS
    Runs,      \* scheduler runs, each of which begins at most once
    Tables,    \* the _task_context_ names, and the statement that reads each
    Settings,  \* the deployments to consider
    None       \* nothing

(* faulty: statements may also fail for reasons that are not other runs'      *)
(* tables, as a locked database, a lost connection, duplicate columns.        *)
Setting == [kind: {"sqlite", "jdbc", "spark", "databricks"},
            overlapping: BOOLEAN, caching: BOOLEAN, faulty: BOOLEAN]

ASSUME SettingsAssumption == Settings \subseteq Setting

VARIABLES
    setting,   \* the deployment
    stage,     \* run -> how far it is
    db,        \* home -> table -> the runs whose rows it holds (None: no table)
    writing,   \* run -> the table the main thread is writing
    written,   \* run -> tables whose write has ended: dependents are told of them
    recorded,  \* run -> tables to drop at the end (materialized)
    spoilt,    \* run -> tables it failed to write (not kept by the code)
    left,      \* run -> tables it made and failed to drop (not kept by the code)
    reading,   \* run -> the statement a worker is executing
    cache,     \* table -> the cached answer to the statement that reads it
    answer     \* run -> the last answer a worker got
vars == <<setting, stage, db, writing, written, recorded, spoilt, left, reading, cache, answer>>

Content == {None} \cup SUBSET Runs
Write == [table: Tables, made: BOOLEAN]
Read == [table: Tables, rows: Content]
Answer == [table: Tables, rows: SUBSET Runs, cached: BOOLEAN]

ASSUME NoneAssumption == \A x \in (SUBSET Runs) \cup Write \cup Read \cup Answer : x # None

(* Where a run's tables are: in one database, in the session of the process   *)
(* that the runs take turns in, or in a session of the run's own.             *)
Shared ==
    \/ setting.kind \in {"sqlite", "jdbc"}
    \/ setting.kind = "spark" /\ ~setting.overlapping

Home(r) == IF Shared THEN CHOOSE h \in Runs : TRUE ELSE r
Stored(r, t) == db[Home(r)][t]
Store(r, t, c) == db' = [db EXCEPT ![Home(r)][t] = c]

Active(r) == stage[r] \in {"running", "ending"}

Init ==
    /\ setting \in Settings
    /\ stage = [r \in Runs |-> "idle"]
    /\ db = [r \in Runs |-> [t \in Tables |-> None]]
    /\ writing = [r \in Runs |-> None]
    /\ written = [r \in Runs |-> {}]
    /\ recorded = [r \in Runs |-> {}]
    /\ spoilt = [r \in Runs |-> {}]
    /\ left = [r \in Runs |-> {}]
    /\ reading = [r \in Runs |-> None]
    /\ cache = [t \in Tables |-> None]
    /\ answer = [r \in Runs |-> None]

Begin(r) ==
    /\ stage[r] = "idle"
    /\ setting.overlapping \/ \A q \in Runs : ~Active(q)
    /\ stage' = [stage EXCEPT ![r] = "running"]
    /\ UNCHANGED <<setting, db, writing, written, recorded, spoilt, left, reading, cache, answer>>
-----------------------------------------------------------------------------
(* materialize_context, called by the main thread for one table at a time.    *)

MayWrite(r, t) == stage[r] = "running" /\ writing[r] = None /\ t \notin written[r]

(* However the call ends, dependents are told of the table.                   *)
Announce(r, t) == written' = [written EXCEPT ![r] = @ \cup {t}]

(* SQLite: DROP TABLE IF EXISTS, CREATE TABLE and the rows, committed one by  *)
(* one.                                                                       *)

(* Mutant: a table of that name is kept, as CREATE TABLE IF NOT EXISTS would. *)
DropOldIfMissing(r, t) ==
    /\ MayWrite(r, t) /\ setting.kind = "sqlite"
    /\ IF Stored(r, t) = None
       THEN /\ writing' = [writing EXCEPT ![r] = [table |-> t, made |-> FALSE]]
            /\ UNCHANGED <<written, recorded>>
       ELSE /\ Announce(r, t)
            /\ recorded' = [recorded EXCEPT ![r] = @ \cup {t}]
            /\ UNCHANGED writing
    /\ UNCHANGED <<setting, stage, db, spoilt, left, reading, cache, answer>>

DropOld(r, t) ==
    /\ MayWrite(r, t)
    /\ setting.kind = "sqlite"
    /\ Store(r, t, None)
    /\ writing' = [writing EXCEPT ![r] = [table |-> t, made |-> FALSE]]
    /\ UNCHANGED <<setting, stage, written, recorded, spoilt, left, reading, cache, answer>>

(* Mutant: dependents are told of the table once it exists.                   *)
CreateTableAnnounced(r) ==
    /\ stage[r] = "running" /\ writing[r] # None
    /\ ~writing[r].made /\ Stored(r, writing[r].table) = None
    /\ Store(r, writing[r].table, {})
    /\ writing' = [writing EXCEPT ![r].made = TRUE]
    /\ Announce(r, writing[r].table)
    /\ UNCHANGED <<setting, stage, recorded, spoilt, left, reading, cache, answer>>

CreateTable(r) ==
    /\ stage[r] = "running" /\ writing[r] # None
    /\ ~writing[r].made
    /\ Stored(r, writing[r].table) = None
    /\ Store(r, writing[r].table, {})
    /\ writing' = [writing EXCEPT ![r].made = TRUE]
    /\ UNCHANGED <<setting, stage, written, recorded, spoilt, left, reading, cache, answer>>

EndWrite(r) ==
    /\ writing' = [writing EXCEPT ![r] = None]
    /\ Announce(r, writing[r].table)
    /\ UNCHANGED <<setting, stage, reading, cache, answer>>

(* The rows are appended to whatever table of that name is there by now.      *)
InsertRows(r) ==
    /\ stage[r] = "running" /\ writing[r] # None
    /\ writing[r].made
    /\ Stored(r, writing[r].table) # None
    /\ Store(r, writing[r].table, Stored(r, writing[r].table) \cup {r})
    /\ recorded' = [recorded EXCEPT ![r] = @ \cup {writing[r].table}]
    /\ EndWrite(r)
    /\ UNCHANGED <<spoilt, left>>

(* CREATE meets a table, INSERT misses it, or either fails by itself: the     *)
(* error is only logged, and the table not recorded. One that was created     *)
(* stays as it is.                                                            *)
WriteFails(r) ==
    /\ stage[r] = "running" /\ writing[r] # None
    /\ setting.faulty \/ (writing[r].made <=> Stored(r, writing[r].table) = None)
    /\ spoilt' = [spoilt EXCEPT ![r] = @ \cup {writing[r].table}]
    /\ left' = IF writing[r].made /\ Stored(r, writing[r].table) # None
               THEN [left EXCEPT ![r] = @ \cup {writing[r].table}] ELSE left
    /\ EndWrite(r)
    /\ UNCHANGED <<db, recorded>>

(* The other executors replace the old table or view in one step, with its    *)
(* rows: to_sql in one transaction, CREATE OR REPLACE TEMP VIEW. Spark drops  *)
(* the view before, where nothing reads it in between.                        *)
Replace(r, t) ==
    /\ MayWrite(r, t)
    /\ setting.kind # "sqlite"
    /\ Store(r, t, {r})
    /\ Announce(r, t)
    /\ recorded' = [recorded EXCEPT ![r] = @ \cup {t}]
    /\ UNCHANGED <<setting, stage, writing, spoilt, left, reading, cache, answer>>

(* SQLite's DROP, or the one step of another executor, fails: the old table   *)
(* stays, unless Spark has dropped it.                                        *)
NothingWritten(r, t) ==
    /\ MayWrite(r, t)
    /\ setting.faulty
    /\ UNCHANGED db \/ (setting.kind = "spark" /\ Store(r, t, None))
    /\ Announce(r, t)
    /\ spoilt' = [spoilt EXCEPT ![r] = @ \cup {t}]
    /\ UNCHANGED <<setting, stage, writing, recorded, left, reading, cache, answer>>

(* A session that ends takes its views along.                                 *)
EndSession(r) == db' = [db EXCEPT ![Home(r)] = [t \in Tables |-> None]]

(* A statement of the run finds its Spark session expired. It is repeated in  *)
(* a new one, which has none of the views dependents have been told of.       *)
RenewSession(r) ==
    /\ stage[r] = "running"
    /\ setting.kind = "spark"
    /\ EndSession(r)
    /\ UNCHANGED <<setting, stage, writing, written, recorded, spoilt, left, reading, cache,
                   answer>>
-----------------------------------------------------------------------------
(* CachedExecutor.execute, without any lock between look-up and record.       *)

AnswerWith(r, t, rows, cached) ==
    answer' = [answer EXCEPT ![r] = [table |-> t, rows |-> rows, cached |-> cached]]

(* A worker of the run may execute the statement over a table it knows of.    *)
MayAsk(r, t) == stage[r] = "running" /\ reading[r] = None /\ t \in written[r]

Hit(r, t) ==
    /\ MayAsk(r, t)
    /\ setting.caching /\ cache[t] # None
    /\ AnswerWith(r, t, cache[t], TRUE)
    /\ UNCHANGED <<setting, stage, db, writing, written, recorded, spoilt, left, reading, cache>>

Miss(r, t) ==
    /\ MayAsk(r, t)
    /\ ~setting.caching \/ cache[t] = None
    /\ reading' = [reading EXCEPT ![r] = [table |-> t, rows |-> None]]
    /\ UNCHANGED <<setting, stage, db, writing, written, recorded, spoilt, left, cache, answer>>

(* The statement reads the table, or fails.                                   *)
Query(r) ==
    /\ stage[r] = "running" /\ reading[r] # None
    /\ reading[r].rows = None
    /\ \/ /\ Stored(r, reading[r].table) # None
          /\ reading' = [reading EXCEPT ![r].rows = Stored(r, reading[r].table)]
       \/ /\ setting.faulty \/ Stored(r, reading[r].table) = None
          /\ reading' = [reading EXCEPT ![r] = None]
    /\ UNCHANGED <<setting, stage, db, writing, written, recorded, spoilt, left, cache, answer>>

Fill(r) ==
    /\ stage[r] = "running" /\ reading[r] # None
    /\ reading[r].rows # None
    /\ cache' = IF setting.caching
                THEN [cache EXCEPT ![reading[r].table] = reading[r].rows] ELSE cache
    /\ AnswerWith(r, reading[r].table, reading[r].rows, FALSE)
    /\ reading' = [reading EXCEPT ![r] = None]
    /\ UNCHANGED <<setting, stage, db, writing, written, recorded, spoilt, left>>

(* An entry reaches its time to live, which is arbitrary in steps.            *)
Expire(t) ==
    /\ cache[t] # None
    /\ cache' = [cache EXCEPT ![t] = None]
    /\ UNCHANGED <<setting, stage, db, writing, written, recorded, spoilt, left, reading, answer>>
-----------------------------------------------------------------------------
(* The end of a run. *)

StartCleanup(r) ==
    /\ stage[r] = "running"
    /\ writing[r] = None /\ reading[r] = None
    /\ stage' = [stage EXCEPT ![r] = "ending"]
    /\ UNCHANGED <<setting, db, writing, written, recorded, spoilt, left, reading, cache, answer>>

DropContext(r, t) ==
    /\ stage[r] = "ending"
    /\ t \in recorded[r]
    /\ Store(r, t, None)
    /\ recorded' = [recorded EXCEPT ![r] = @ \ {t}]
    /\ UNCHANGED <<setting, stage, writing, written, spoilt, left, reading, cache, answer>>

(* A drop that fails is logged, or swallowed; one of JDBC is never committed, *)
(* and rolled back unless the database commits such statements by itself.     *)
DropHasNoEffect(r, t) ==
    /\ stage[r] = "ending"
    /\ t \in recorded[r]
    /\ setting.faulty \/ setting.kind = "jdbc"
    /\ recorded' = [recorded EXCEPT ![r] = @ \ {t}]
    /\ left' = [left EXCEPT ![r] = @ \cup {t}]
    /\ UNCHANGED <<setting, stage, db, writing, written, spoilt, reading, cache, answer>>

(* The executor is closed, which ends a Databricks session.                   *)
CloseSession(r) == IF setting.kind = "databricks" THEN EndSession(r) ELSE UNCHANGED db

(* Mutant: one table is dropped at the end.                                   *)
CloseEarly(r) ==
    /\ stage[r] = "ending" /\ recorded[r] # written[r]
    /\ stage' = [stage EXCEPT ![r] = "over"]
    /\ CloseSession(r)
    /\ UNCHANGED <<setting, writing, written, recorded, spoilt, left, reading, cache, answer>>

Close(r) ==
    /\ stage[r] = "ending"
    /\ recorded[r] = {}
    /\ stage' = [stage EXCEPT ![r] = "over"]
    /\ CloseSession(r)
    /\ UNCHANGED <<setting, writing, written, recorded, spoilt, left, reading, cache, answer>>

(* The process dies, with its session, or a timeout leaves run() without the  *)
(* cleanup while the process and its session go on.                           *)
Abandon(r) ==
    /\ Active(r)
    /\ stage' = [stage EXCEPT ![r] = "lost"]
    /\ \/ UNCHANGED db
       \/ setting.kind \in {"spark", "databricks"} /\ EndSession(r)
    /\ UNCHANGED <<setting, writing, written, recorded, spoilt, left, reading, cache, answer>>

Ended == \A r \in Runs : stage[r] \in {"over", "lost"}
Rest == Ended /\ UNCHANGED vars

Step(r) ==
    \/ Begin(r)
    \/ \E t \in Tables : DropOld(r, t)
    \/ CreateTable(r)
    \/ InsertRows(r)
    \/ WriteFails(r)
    \/ \E t \in Tables : Replace(r, t) \/ NothingWritten(r, t)
    \/ RenewSession(r)
    \/ \E t \in Tables : Hit(r, t) \/ Miss(r, t)
    \/ Query(r)
    \/ Fill(r)
    \/ StartCleanup(r)
    \/ \E t \in Tables : DropContext(r, t) \/ DropHasNoEffect(r, t)
    \/ Close(r)
    \/ Abandon(r)

Next == (\E r \in Runs : Step(r)) \/ (\E t \in Tables : Expire(t)) \/ Rest

Spec == Init /\ [][Next]_vars
-----------------------------------------------------------------------------
(* The variables keep their types.                                            *)
TypeOK ==
    /\ setting \in Settings
    /\ stage \in [Runs -> {"idle", "running", "ending", "over", "lost"}]
    /\ db \in [Runs -> [Tables -> Content]]
    /\ writing \in [Runs -> {None} \cup Write]
    /\ written \in [Runs -> SUBSET Tables]
    /\ recorded \in [Runs -> SUBSET Tables]
    /\ spoilt \in [Runs -> SUBSET Tables]
    /\ left \in [Runs -> SUBSET Tables]
    /\ reading \in [Runs -> {None} \cup Read]
    /\ cache \in [Tables -> Content]
    /\ answer \in [Runs -> {None} \cup Answer]

(* No two runs use one database at the same time.                             *)
Isolated == ~(Shared /\ setting.overlapping)

(* Every table a run has finished writing is as its rows, so far.             *)
NothingSpoilt == \A r \in Runs : spoilt[r] = {}

(* An answer that did not come from the cache, over a table the run did not   *)
(* fail to write, holds the rows the run itself put there: whatever tables of *)
(* that name lost runs, failed writes and failed drops left behind, or views  *)
(* sessions took along (sqlite_executor.py:59, scheduler.py:174). Assumed:    *)
(* runs over one database do not overlap. Not said of a table whose write     *)
(* failed, which dependents are told of all the same.                         *)
FreshAnswersOwn ==
    Isolated => \A r \in Runs :
        answer[r] # None /\ ~answer[r].cached /\ answer[r].table \notin spoilt[r] =>
            answer[r].rows = {r}

(* Every answer, from the cache too, is the complete table of one run: no     *)
(* half-written table is ever read, or kept by the cache for later runs       *)
(* (cached_executor.py:25). Assumed: runs over one database do not overlap,   *)
(* and no write has failed yet. A failed one leaves an empty table, which is  *)
(* read and cached. Of which run the rows are, the cache does not know.       *)
EveryAnswerWhole ==
    Isolated /\ NothingSpoilt => \A r \in Runs :
        answer[r] # None => \E q \in Runs : answer[r].rows = {q}

(* Overlapping or not, every table in the database is one that a run still    *)
(* has to drop or was lost with, also when they wrote to each other's tables  *)
(* (scheduler.py:183, 215). A run that ends leaves a table behind only where  *)
(* statements fail or drops are not committed, and only if its own write      *)
(* failed after CREATE or its own drop had no effect.                         *)
TablesAccountedFor ==
    \A h \in Runs, t \in Tables : db[h][t] # None =>
        \E r \in Runs :
            /\ Home(r) = h
            /\ \/ /\ stage[r] # "over"
                  /\ \/ t \in recorded[r]
                     \/ writing[r] # None /\ writing[r].table = t /\ writing[r].made
               \/ t \in left[r] /\ (setting.faulty \/ setting.kind = "jdbc")
=============================================================================

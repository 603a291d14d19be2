------------------------ MODULE ContextTablesProofs ------------------------
(* Proofs about ContextTables, for any runs, tables and deployments.        *)
EXTENDS ContextTables, TLAPS

LEMMA HomeType == ASSUME NEW r \in Runs PROVE Home(r) \in Runs
BY DEF Home

LEMMA InitType == Init => TypeOK
<1> SUFFICES ASSUME Init PROVE TypeOK
  OBVIOUS
<1>1. db \in [Runs -> [Tables -> Content]]
  BY DEF Init, Content
<1>2. /\ setting \in Settings
      /\ stage \in [Runs -> {"idle", "running", "ending", "over", "lost"}]
      /\ writing \in [Runs -> {None} \cup Write]
      /\ written \in [Runs -> SUBSET Tables]
      /\ recorded \in [Runs -> SUBSET Tables]
      /\ spoilt \in [Runs -> SUBSET Tables]
      /\ left \in [Runs -> SUBSET Tables]
      /\ reading \in [Runs -> {None} \cup Read]
      /\ cache \in [Tables -> Content]
      /\ answer \in [Runs -> {None} \cup Answer]
  BY DEF Init, Content
<1> QED
  BY <1>1, <1>2 DEF TypeOK

(* What storing a table does to the databases.                              *)
LEMMA StoreType ==
    ASSUME TypeOK, NEW r \in Runs, NEW t \in Tables, NEW c \in Content, Store(r, t, c)
    PROVE  /\ db' \in [Runs -> [Tables -> Content]]
           /\ db'[Home(r)][t] = c
           /\ \A h \in Runs, u \in Tables :
                  h # Home(r) \/ u # t => db'[h][u] = db[h][u]
<1>1. Home(r) \in Runs
  BY HomeType
<1> QED
  BY <1>1 DEF TypeOK, Store

LEMMA SessionType ==
    ASSUME TypeOK, NEW r \in Runs, EndSession(r)
    PROVE  /\ db' \in [Runs -> [Tables -> Content]]
           /\ \A h \in Runs, u \in Tables :
                  db'[h][u] = IF h = Home(r) THEN None ELSE db[h][u]
<1>1. Home(r) \in Runs
  BY HomeType
<1> QED
  BY <1>1 DEF TypeOK, EndSession, Content

LEMMA WritingType ==
    ASSUME TypeOK, NEW r \in Runs, writing[r] # None
    PROVE  writing[r] \in Write /\ writing[r].table \in Tables /\ writing[r].made \in BOOLEAN
BY DEF TypeOK, Write

LEMMA ReadingType ==
    ASSUME TypeOK, NEW r \in Runs, reading[r] # None
    PROVE  reading[r] \in Read /\ reading[r].table \in Tables /\ reading[r].rows \in Content
BY DEF TypeOK, Read

LEMMA StepType ==
    ASSUME TypeOK, NEW r \in Runs, Step(r)
    PROVE  TypeOK'
<1>1. CASE Begin(r)
  BY <1>1 DEF Begin, TypeOK
<1>2. ASSUME NEW t \in Tables, DropOld(r, t) PROVE TypeOK'
  <2>1. db' \in [Runs -> [Tables -> Content]]
    BY <1>2, StoreType DEF DropOld, Content
  <2>2. writing' \in [Runs -> {None} \cup Write]
    BY <1>2 DEF DropOld, TypeOK, Write
  <2> QED
    BY <1>2, <2>1, <2>2 DEF DropOld, TypeOK
<1>3. CASE CreateTable(r)
  <2>1. writing[r] \in Write /\ writing[r].table \in Tables
    BY <1>3, WritingType DEF CreateTable
  <2>2. db' \in [Runs -> [Tables -> Content]]
    BY <1>3, <2>1, StoreType DEF CreateTable, Content
  <2>3. writing' \in [Runs -> {None} \cup Write]
    BY <1>3, <2>1 DEF CreateTable, TypeOK, Write
  <2> QED
    BY <1>3, <2>2, <2>3 DEF CreateTable, TypeOK
<1>4. CASE InsertRows(r)
  <2>1. writing[r].table \in Tables
    BY <1>4, WritingType DEF InsertRows
  <2>2. Stored(r, writing[r].table) \cup {r} \in Content
    BY <1>4, <2>1, HomeType DEF InsertRows, Stored, TypeOK, Content
  <2>3. db' \in [Runs -> [Tables -> Content]]
    BY <1>4, <2>1, <2>2, StoreType DEF InsertRows
  <2>4. /\ writing' \in [Runs -> {None} \cup Write]
        /\ written' \in [Runs -> SUBSET Tables]
        /\ recorded' \in [Runs -> SUBSET Tables]
    BY <1>4, <2>1 DEF InsertRows, EndWrite, Announce, TypeOK
  <2> QED
    BY <1>4, <2>3, <2>4 DEF InsertRows, EndWrite, TypeOK
<1>5. CASE WriteFails(r)
  <2>1. writing[r].table \in Tables
    BY <1>5, WritingType DEF WriteFails
  <2>2. /\ writing' \in [Runs -> {None} \cup Write]
        /\ written' \in [Runs -> SUBSET Tables]
        /\ spoilt' \in [Runs -> SUBSET Tables]
        /\ left' \in [Runs -> SUBSET Tables]
    BY <1>5, <2>1 DEF WriteFails, EndWrite, Announce, TypeOK
  <2> QED
    BY <1>5, <2>2 DEF WriteFails, EndWrite, TypeOK
<1>6. ASSUME NEW t \in Tables, Hit(r, t) PROVE TypeOK'
  <2>1. cache[t] \in SUBSET Runs
    BY <1>6 DEF Hit, TypeOK, Content
  <2>2. answer' \in [Runs -> {None} \cup Answer]
    BY <1>6, <2>1 DEF Hit, AnswerWith, TypeOK, Answer
  <2> QED
    BY <1>6, <2>2 DEF Hit, TypeOK
<1>7. ASSUME NEW t \in Tables, Miss(r, t) PROVE TypeOK'
  <2>1. reading' \in [Runs -> {None} \cup Read]
    BY <1>7 DEF Miss, TypeOK, Read, Content
  <2> QED
    BY <1>7, <2>1 DEF Miss, TypeOK
<1>8. CASE Query(r)
  <2>1. reading[r] \in Read /\ reading[r].table \in Tables
    BY <1>8, ReadingType DEF Query
  <2>2. Stored(r, reading[r].table) \in Content
    BY <2>1, HomeType DEF Stored, TypeOK
  <2>3. reading' \in [Runs -> {None} \cup Read]
    <3>1. [reading[r] EXCEPT !.rows = Stored(r, reading[r].table)] \in Read
      BY <2>1, <2>2 DEF Read
    <3> QED
      BY <1>8, <3>1 DEF Query, TypeOK
  <2> QED
    BY <1>8, <2>3 DEF Query, TypeOK
<1>9. CASE Fill(r)
  <2>1. reading[r].table \in Tables /\ reading[r].rows \in SUBSET Runs
    BY <1>9, ReadingType DEF Fill, Content
  <2>2. /\ cache' \in [Tables -> Content]
        /\ reading' \in [Runs -> {None} \cup Read]
    BY <1>9, <2>1 DEF Fill, TypeOK, Content
  <2>3. answer' \in [Runs -> {None} \cup Answer]
    BY <1>9, <2>1 DEF Fill, AnswerWith, TypeOK, Answer
  <2> QED
    BY <1>9, <2>2, <2>3 DEF Fill, TypeOK
<1>10. CASE StartCleanup(r)
  BY <1>10 DEF StartCleanup, TypeOK
<1>11. ASSUME NEW t \in Tables, DropContext(r, t) PROVE TypeOK'
  <2>1. db' \in [Runs -> [Tables -> Content]]
    BY <1>11, StoreType DEF DropContext, Content
  <2>2. recorded' \in [Runs -> SUBSET Tables]
    BY <1>11 DEF DropContext, TypeOK
  <2> QED
    BY <1>11, <2>1, <2>2 DEF DropContext, TypeOK
<1>12. CASE Close(r)
  <2>1. db' \in [Runs -> [Tables -> Content]]
    BY <1>12, SessionType DEF Close, CloseSession, TypeOK
  <2> QED
    BY <1>12, <2>1 DEF Close, TypeOK
<1>13. CASE Abandon(r)
  <2>1. db' \in [Runs -> [Tables -> Content]]
    BY <1>13, SessionType DEF Abandon, TypeOK
  <2> QED
    BY <1>13, <2>1 DEF Abandon, TypeOK
<1>14. CASE RenewSession(r)
  <2>1. db' \in [Runs -> [Tables -> Content]]
    BY <1>14, SessionType DEF RenewSession
  <2> QED
    BY <1>14, <2>1 DEF RenewSession, TypeOK
<1>15. ASSUME NEW t \in Tables, Replace(r, t) PROVE TypeOK'
  <2>1. db' \in [Runs -> [Tables -> Content]]
    BY <1>15, StoreType DEF Replace, Content
  <2>2. written' \in [Runs -> SUBSET Tables] /\ recorded' \in [Runs -> SUBSET Tables]
    BY <1>15 DEF Replace, Announce, TypeOK
  <2> QED
    BY <1>15, <2>1, <2>2 DEF Replace, TypeOK
<1>16. ASSUME NEW t \in Tables, NothingWritten(r, t) PROVE TypeOK'
  <2>1. db' \in [Runs -> [Tables -> Content]]
    BY <1>16, StoreType DEF NothingWritten, Content, TypeOK
  <2>2. written' \in [Runs -> SUBSET Tables] /\ spoilt' \in [Runs -> SUBSET Tables]
    BY <1>16 DEF NothingWritten, Announce, TypeOK
  <2> QED
    BY <1>16, <2>1, <2>2 DEF NothingWritten, TypeOK
<1>17. ASSUME NEW t \in Tables, DropHasNoEffect(r, t) PROVE TypeOK'
  <2>1. recorded' \in [Runs -> SUBSET Tables] /\ left' \in [Runs -> SUBSET Tables]
    BY <1>17 DEF DropHasNoEffect, TypeOK
  <2> QED
    BY <1>17, <2>1 DEF DropHasNoEffect, TypeOK
<1> QED
  BY <1>1, <1>2, <1>3, <1>4, <1>5, <1>6, <1>7, <1>8, <1>9, <1>10, <1>11, <1>12, <1>13,
     <1>14, <1>15, <1>16, <1>17 DEF Step

LEMMA NextType == TypeOK /\ [Next]_vars => TypeOK'
<1> SUFFICES ASSUME TypeOK, [Next]_vars PROVE TypeOK'
  OBVIOUS
<1>1. ASSUME NEW r \in Runs, Step(r) PROVE TypeOK'
  BY <1>1, StepType
<1>2. ASSUME NEW t \in Tables, Expire(t) PROVE TypeOK'
  BY <1>2 DEF Expire, TypeOK, Content
<1>3. CASE UNCHANGED vars
  BY <1>3 DEF vars, TypeOK
<1> QED
  BY <1>1, <1>2, <1>3 DEF Next, Rest

(* The variables keep their types (executors, scheduler.py:94-223).         *)
THEOREM TypeCorrect == Spec => []TypeOK
BY InitType, NextType, PTL DEF Spec
-----------------------------------------------------------------------------
(* Every table has a run that will drop it, or has failed to. A run that is  *)
(* over is writing nothing and has nothing to drop.                         *)
Accounted ==
    /\ TablesAccountedFor
    /\ \A r \in Runs : stage[r] = "ending" => writing[r] = None

(* What answers for the table t at h after a step, when it did before.      *)
Owns(r, h, t) ==
    /\ Home(r) = h
    /\ \/ /\ stage[r] # "over"
          /\ \/ t \in recorded[r]
             \/ writing[r] # None /\ writing[r].table = t /\ writing[r].made
       \/ t \in left[r] /\ (setting.faulty \/ setting.kind = "jdbc")

LEMMA AccountedFor ==
    TablesAccountedFor <=>
        \A h \in Runs, t \in Tables : db[h][t] # None => \E r \in Runs : Owns(r, h, t)
BY DEF TablesAccountedFor, Owns

LEMMA StepAccounted ==
    ASSUME TypeOK, Accounted, NEW r \in Runs, Step(r)
    PROVE  Accounted'
<1> USE NoneAssumption
<1>a. /\ \A h \in Runs, t \in Tables : db[h][t] # None => \E q \in Runs : Owns(q, h, t)
      /\ \A q \in Runs : stage[q] = "ending" => writing[q] = None
  BY AccountedFor DEF Accounted
<1>b. SUFFICES
        /\ \A h \in Runs, t \in Tables : db'[h][t] # None => \E q \in Runs : Owns(q, h, t)'
        /\ \A q \in Runs : stage'[q] = "ending" => writing'[q] = None
  BY DEF Accounted, TablesAccountedFor, Owns
<1>1. CASE Begin(r)
  BY <1>1, <1>a DEF Begin, TypeOK, Owns, Home, Shared
<1>2. ASSUME NEW t \in Tables, DropOld(r, t)
      PROVE  /\ \A h \in Runs, u \in Tables : db'[h][u] # None => \E q \in Runs : Owns(q, h, u)'
             /\ \A q \in Runs : stage'[q] = "ending" => writing'[q] = None
  <2>1. \A h \in Runs, u \in Tables : db'[h][u] # None => db[h][u] # None
    BY <1>2, StoreType DEF DropOld, Content
  <2>2. \A q \in Runs, h \in Runs, u \in Tables : Owns(q, h, u) => Owns(q, h, u)'
    BY <1>2 DEF DropOld, MayWrite, Owns, Home, Shared, TypeOK
  <2> QED
    BY <1>2, <1>a, <2>1, <2>2 DEF DropOld, MayWrite, TypeOK
<1>3. CASE CreateTable(r)
  <2>1. writing[r] \in Write /\ writing[r].table \in Tables
    BY <1>3, WritingType DEF CreateTable
  <2>w. PICK w \in Tables : w = writing[r].table
    BY <2>1
  <2>k. PICK k \in Runs : k = Home(r)
    BY HomeType
  <2>2. \A h \in Runs, u \in Tables :
            db'[h][u] # None => db[h][u] # None \/ (h = k /\ u = w)
    BY <1>3, <2>1, <2>w, <2>k, StoreType DEF CreateTable, Content
  <2>3. \A q \in Runs, h \in Runs, u \in Tables : Owns(q, h, u) => Owns(q, h, u)'
    BY <1>3, <2>1 DEF CreateTable, Owns, Home, Shared, TypeOK, Write
  <2>d. writing'[r] \in Write /\ writing'[r].table = w /\ writing'[r].made = TRUE
    <3>1. writing'[r] = [writing[r] EXCEPT !.made = TRUE]
      BY <1>3 DEF CreateTable, TypeOK
    <3>2. writing'[r] = [table |-> w, made |-> TRUE]
      BY <2>1, <2>w, <3>1 DEF Write
    <3>3. writing'[r] \in Write
      BY <3>2 DEF Write
    <3>4. writing'[r].table = w /\ writing'[r].made = TRUE
      BY <3>2
    <3> QED
      BY <3>3, <3>4
  <2>4. Owns(r, k, w)'
    BY <1>3, <2>d, <2>k DEF CreateTable, Owns, Home, Shared
  <2>5. \A q \in Runs : stage'[q] = "ending" => writing'[q] = None
    BY <1>3, <1>a DEF CreateTable, TypeOK
  <2> QED
    BY <1>a, <2>2, <2>3, <2>4, <2>5
<1>4. CASE InsertRows(r)
  <2>1. writing[r] \in Write /\ writing[r].table \in Tables
    BY <1>4, WritingType DEF InsertRows
  <2>w. PICK w \in Tables : w = writing[r].table
    BY <2>1
  <2>k. PICK k \in Runs : k = Home(r)
    BY HomeType
  <2>2. Stored(r, w) \cup {r} \in Content
    BY <1>4, <2>w, HomeType DEF InsertRows, Stored, TypeOK, Content
  <2>3. \A h \in Runs, u \in Tables :
            db'[h][u] # None => db[h][u] # None \/ (h = k /\ u = w)
    BY <1>4, <2>1, <2>2, <2>w, <2>k, StoreType DEF InsertRows
  <2>4. \A q \in Runs, h \in Runs, u \in Tables : Owns(q, h, u) => Owns(q, h, u)'
    BY <1>4, <2>1 DEF InsertRows, EndWrite, Owns, Home, Shared, TypeOK
  <2>5. Owns(r, k, w)'
    BY <1>4, <2>1, <2>w, <2>k DEF InsertRows, EndWrite, Owns, Home, Shared, TypeOK
  <2>6. \A q \in Runs : stage'[q] = "ending" => writing'[q] = None
    BY <1>4, <1>a DEF InsertRows, EndWrite, TypeOK
  <2> QED
    BY <1>a, <2>3, <2>4, <2>5, <2>6
<1>5. CASE WriteFails(r)
  <2>1. writing[r].table \in Tables /\ writing[r].made \in BOOLEAN
    BY <1>5, WritingType DEF WriteFails
  <2>f. \/ writing[r].made = FALSE
        \/ db[Home(r)][writing[r].table] = None
        \/ setting.faulty /\ writing[r].table \in left'[r]
    BY <1>5, <1>a, <2>1 DEF WriteFails, Stored, TypeOK
  <2>l. \A q \in Runs : left[q] \subseteq left'[q]
    BY <1>5 DEF WriteFails, TypeOK
  <2>2. \A q \in Runs, h \in Runs, u \in Tables :
            db[h][u] # None /\ Owns(q, h, u) => Owns(q, h, u)'
    <3> SUFFICES ASSUME NEW q \in Runs, NEW h \in Runs, NEW u \in Tables,
                        db[h][u] # None, Owns(q, h, u)
                 PROVE  Owns(q, h, u)'
      OBVIOUS
    <3>1. UNCHANGED <<setting, stage, recorded, db>>
      BY <1>5 DEF WriteFails, EndWrite
    <3>2. Home(q)' = Home(q)
      BY <3>1 DEF Home, Shared
    <3>3. CASE q # r
      <4>1. writing'[q] = writing[q]
        BY <1>5, <3>3 DEF WriteFails, EndWrite, TypeOK
      <4> QED
        BY <2>l, <3>1, <3>2, <4>1 DEF Owns
    <3>4. CASE q = r
      BY <2>f, <2>l, <3>1, <3>2, <3>4 DEF Owns
    <3> QED
      BY <3>3, <3>4
  <2>3. \A q \in Runs : stage'[q] = "ending" => writing'[q] = None
    BY <1>5, <1>a DEF WriteFails, EndWrite, TypeOK
  <2> QED
    BY <1>5, <1>a, <2>2, <2>3 DEF WriteFails
<1>6. CASE (\E t \in Tables : Hit(r, t) \/ Miss(r, t)) \/ Query(r) \/ Fill(r)
  <2>1. UNCHANGED <<setting, stage, db, writing, recorded, left>>
    BY <1>6 DEF Hit, Miss, Query, Fill
  <2>2. \A q \in Runs, h \in Runs, u \in Tables : Owns(q, h, u) => Owns(q, h, u)'
    BY <2>1 DEF Owns, Home, Shared
  <2> QED
    BY <1>a, <2>1, <2>2
<1>7. CASE StartCleanup(r)
  BY <1>7, <1>a DEF StartCleanup, TypeOK, Owns, Home, Shared
<1>8. ASSUME NEW t \in Tables, DropContext(r, t)
      PROVE  /\ \A h \in Runs, u \in Tables : db'[h][u] # None => \E q \in Runs : Owns(q, h, u)'
             /\ \A q \in Runs : stage'[q] = "ending" => writing'[q] = None
  <2>1. \A h \in Runs, u \in Tables :
            db'[h][u] # None => db[h][u] # None /\ (h # Home(r) \/ u # t)
    BY <1>8, StoreType DEF DropContext, Content
  <2>2. \A q \in Runs, h \in Runs, u \in Tables :
            (h # Home(r) \/ u # t) /\ Owns(q, h, u) => Owns(q, h, u)'
    BY <1>8 DEF DropContext, Owns, Home, Shared, TypeOK
  <2> QED
    BY <1>8, <1>a, <2>1, <2>2 DEF DropContext
<1>9. CASE Close(r)
  <2>1. \A h \in Runs, u \in Tables : db'[h][u] # None => db[h][u] # None
    BY <1>9, SessionType DEF Close, CloseSession
  <2>2. \A q \in Runs, h \in Runs, u \in Tables : Owns(q, h, u) => Owns(q, h, u)'
    BY <1>9, <1>a DEF Close, Owns, Home, Shared, TypeOK
  <2> QED
    BY <1>9, <1>a, <2>1, <2>2 DEF Close, TypeOK
<1>10. CASE Abandon(r)
  <2>1. \A h \in Runs, u \in Tables : db'[h][u] # None => db[h][u] # None
    BY <1>10, SessionType DEF Abandon
  <2>2. \A q \in Runs, h \in Runs, u \in Tables : Owns(q, h, u) => Owns(q, h, u)'
    BY <1>10 DEF Abandon, Owns, Home, Shared, TypeOK
  <2> QED
    BY <1>10, <1>a, <2>1, <2>2 DEF Abandon, TypeOK
<1>11. CASE RenewSession(r)
  <2>1. \A h \in Runs, u \in Tables : db'[h][u] # None => db[h][u] # None
    BY <1>11, SessionType DEF RenewSession
  <2>2. \A q \in Runs, h \in Runs, u \in Tables : Owns(q, h, u) => Owns(q, h, u)'
    BY <1>11 DEF RenewSession, Owns, Home, Shared
  <2> QED
    BY <1>11, <1>a, <2>1, <2>2 DEF RenewSession
<1>12. ASSUME NEW t \in Tables, Replace(r, t)
       PROVE  /\ \A h \in Runs, u \in Tables : db'[h][u] # None => \E q \in Runs : Owns(q, h, u)'
              /\ \A q \in Runs : stage'[q] = "ending" => writing'[q] = None
  <2>k. PICK k \in Runs : k = Home(r)
    BY HomeType
  <2>1. \A h \in Runs, u \in Tables :
            db'[h][u] # None => db[h][u] # None \/ (h = k /\ u = t)
    BY <1>12, <2>k, StoreType DEF Replace, Content
  <2>2. \A q \in Runs, h \in Runs, u \in Tables : Owns(q, h, u) => Owns(q, h, u)'
    BY <1>12 DEF Replace, Owns, Home, Shared, TypeOK
  <2>3. Owns(r, k, t)'
    BY <1>12, <2>k DEF Replace, MayWrite, Owns, Home, Shared, TypeOK
  <2> QED
    BY <1>12, <1>a, <2>1, <2>2, <2>3 DEF Replace
<1>13. ASSUME NEW t \in Tables, NothingWritten(r, t)
       PROVE  /\ \A h \in Runs, u \in Tables : db'[h][u] # None => \E q \in Runs : Owns(q, h, u)'
              /\ \A q \in Runs : stage'[q] = "ending" => writing'[q] = None
  <2>1. \A h \in Runs, u \in Tables : db'[h][u] # None => db[h][u] # None
    BY <1>13, StoreType DEF NothingWritten, Content
  <2>2. \A q \in Runs, h \in Runs, u \in Tables : Owns(q, h, u) => Owns(q, h, u)'
    BY <1>13 DEF NothingWritten, Owns, Home, Shared, TypeOK
  <2> QED
    BY <1>13, <1>a, <2>1, <2>2 DEF NothingWritten
<1>14. ASSUME NEW t \in Tables, DropHasNoEffect(r, t)
       PROVE  /\ \A h \in Runs, u \in Tables : db'[h][u] # None => \E q \in Runs : Owns(q, h, u)'
              /\ \A q \in Runs : stage'[q] = "ending" => writing'[q] = None
  <2>1. \A q \in Runs, h \in Runs, u \in Tables : Owns(q, h, u) => Owns(q, h, u)'
    BY <1>14 DEF DropHasNoEffect, Owns, Home, Shared, TypeOK
  <2> QED
    BY <1>14, <1>a, <2>1 DEF DropHasNoEffect
<1> QED
  BY <1>1, <1>2, <1>3, <1>4, <1>5, <1>6, <1>7, <1>8, <1>9, <1>10, <1>11, <1>12, <1>13, <1>14
  DEF Step

(* Every table in the database is one that a run still has to drop, was     *)
(* lost with, or failed to drop, overlapping or not, for every kind of      *)
(* executor and with any statements failing (scheduler.py:183, 218).        *)
THEOREM TablesAreAccountedFor == Spec => []TablesAccountedFor
<1>1. Init => Accounted
  BY NoneAssumption DEF Init, Accounted, TablesAccountedFor
<1>2. TypeOK /\ Accounted /\ [Next]_vars => Accounted'
  <2> SUFFICES ASSUME TypeOK, Accounted, [Next]_vars PROVE Accounted'
    OBVIOUS
  <2>1. ASSUME NEW r \in Runs, Step(r) PROVE Accounted'
    BY <2>1, StepAccounted
  <2>2. ASSUME NEW t \in Tables, Expire(t) PROVE Accounted'
    BY <2>2 DEF Expire, Accounted, TablesAccountedFor, Home, Shared
  <2>3. CASE UNCHANGED vars
    BY <2>3 DEF vars, Accounted, TablesAccountedFor, Home, Shared
  <2> QED
    BY <2>1, <2>2, <2>3 DEF Next, Rest
<1>3. Accounted => TablesAccountedFor
  BY DEF Accounted
<1> QED
  BY <1>1, <1>2, <1>3, TypeCorrect, PTL DEF Spec
-----------------------------------------------------------------------------
(* Without a second run at work in the database, the tables a run's workers *)
(* were told of hold its own rows until they have ended, if it did not fail *)
(* to write them and its sessions do not lose them, and while no write has  *)
(* failed only complete tables reach the cache.                             *)
OneAtWork ==
    Shared => \A r, q \in Runs : Active(r) /\ Active(q) => r = q

TablesOwn(r) ==
    stage[r] = "running" => \A t \in written[r] :
        t \notin spoilt[r] => Stored(r, t) \in {None, {r}}

WritingOwn(r) ==
    stage[r] = "running" /\ writing[r] # None =>
        /\ writing[r].table \notin written[r]
        /\ Stored(r, writing[r].table) = IF writing[r].made = TRUE THEN {} ELSE None
        /\ setting.kind = "sqlite"

ReadingOwn(r) ==
    stage[r] = "running" /\ reading[r] # None =>
        /\ reading[r].table \in written[r]
        /\ reading[r].table \notin spoilt[r] => reading[r].rows \in {None, {r}}

Fresh(r) == stage[r] = "idle" => writing[r] = None /\ written[r] = {} /\ reading[r] = None

AnswerOwn(r) ==
    answer[r] # None =>
        /\ ~answer[r].cached /\ answer[r].table \notin spoilt[r] => answer[r].rows = {r}
        /\ NothingSpoilt => \E q \in Runs : answer[r].rows = {q}

CacheWhole ==
    NothingSpoilt => \A t \in Tables : cache[t] # None => \E q \in Runs : cache[t] = {q}

RunOwn(r) == TablesOwn(r) /\ WritingOwn(r) /\ ReadingOwn(r) /\ Fresh(r) /\ AnswerOwn(r)

OwnRows == Isolated => OneAtWork /\ CacheWhole /\ \A r \in Runs : RunOwn(r)

LEMMA HomesDiffer ==
    ASSUME TypeOK, Isolated, OneAtWork, NEW r \in Runs, NEW q \in Runs,
           Active(r), stage[q] = "running", q # r
    PROVE  Home(q) # Home(r)
BY DEF OneAtWork, Active, Home

(* A step of r that touches only its own variables and its own database     *)
(* leaves what is true of the other runs.                                   *)
LEMMA OthersOwn ==
    ASSUME TypeOK, Isolated, OneAtWork, NEW r \in Runs, NEW q \in Runs, q # r,
           RunOwn(q), UNCHANGED setting, NothingSpoilt' => NothingSpoilt,
           stage'[q] = stage[q], writing'[q] = writing[q], written'[q] = written[q],
           reading'[q] = reading[q], answer'[q] = answer[q], spoilt'[q] = spoilt[q],
           stage[q] = "running" => \A u \in Tables : db'[Home(q)][u] = db[Home(q)][u]
    PROVE  RunOwn(q)'
<1>1. stage[q] = "running" => \A u \in Tables : Stored(q, u)' = Stored(q, u)
  BY DEF Stored, Home, Shared
<1>2. TablesOwn(q)'
  BY <1>1 DEF RunOwn, TablesOwn, TypeOK
<1>3. WritingOwn(q)'
  <2>1. writing[q] # None => writing[q].table \in Tables
    BY WritingType
  <2> QED
    BY <1>1, <2>1 DEF RunOwn, WritingOwn
<1>4. ReadingOwn(q)' /\ Fresh(q)'
  BY DEF RunOwn, ReadingOwn, Fresh
<1>5. AnswerOwn(q)'
  BY DEF RunOwn, AnswerOwn
<1> QED
  BY <1>2, <1>3, <1>4, <1>5 DEF RunOwn

(* What a step of r that only grows the tables it failed to write, none of  *)
(* them told of before, leaves of its answer.                               *)
LEMMA AnswerKept ==
    ASSUME TypeOK, NEW r \in Runs, AnswerOwn(r), answer'[r] = answer[r],
           spoilt[r] \subseteq spoilt'[r], NothingSpoilt' => NothingSpoilt
    PROVE  AnswerOwn(r)'
BY DEF AnswerOwn

LEMMA StepOwn ==
    ASSUME TypeOK, Isolated, OwnRows, NEW r \in Runs, Step(r)
    PROVE  OwnRows'
<1> USE NoneAssumption
<1>a. OneAtWork /\ CacheWhole /\ \A q \in Runs : RunOwn(q)
  BY DEF OwnRows
<1>b. UNCHANGED setting
  BY DEF Step, Begin, DropOld, CreateTable, InsertRows, WriteFails, EndWrite, Replace,
         NothingWritten, RenewSession, Hit, Miss, Query, Fill, StartCleanup, DropContext,
         DropHasNoEffect, Close, Abandon
<1>c. /\ \A q \in Runs : q # r => /\ stage'[q] = stage[q]
                                 /\ writing'[q] = writing[q]
                                 /\ written'[q] = written[q]
                                 /\ reading'[q] = reading[q]
                                 /\ answer'[q] = answer[q]
                                 /\ spoilt'[q] = spoilt[q]
      /\ \A q \in Runs : spoilt[q] \subseteq spoilt'[q]
  <2>1. CASE \/ InsertRows(r) \/ WriteFails(r)
             \/ \E t \in Tables : Replace(r, t) \/ NothingWritten(r, t)
    BY <2>1 DEF TypeOK, InsertRows, WriteFails, EndWrite, Announce, Replace, NothingWritten
  <2>2. CASE \/ Begin(r) \/ CreateTable(r) \/ RenewSession(r)
             \/ \E t \in Tables : DropOld(r, t)
    BY <2>2 DEF TypeOK, Begin, DropOld, CreateTable, RenewSession
  <2>3. CASE Query(r) \/ Fill(r) \/ \E t \in Tables : Hit(r, t) \/ Miss(r, t)
    BY <2>3 DEF TypeOK, Hit, Miss, Query, Fill, AnswerWith
  <2>4. CASE \/ StartCleanup(r) \/ Close(r) \/ Abandon(r)
             \/ \E t \in Tables : DropContext(r, t) \/ DropHasNoEffect(r, t)
    BY <2>4 DEF TypeOK, StartCleanup, DropContext, DropHasNoEffect, Close, Abandon
  <2> QED
    BY <2>1, <2>2, <2>3, <2>4 DEF Step
<1>n. NothingSpoilt' => NothingSpoilt
  BY <1>c DEF NothingSpoilt
<1>d. \/ db' = db
      \/ Active(r) /\ EndSession(r)
      \/ Active(r) /\ \E t \in Tables, c \in Content : Store(r, t, c)
  <2>1. CASE InsertRows(r)
    <3>1. writing[r].table \in Tables
      BY <2>1, WritingType DEF InsertRows
    <3>2. Stored(r, writing[r].table) \cup {r} \in Content
      BY <2>1, <3>1, HomeType DEF InsertRows, Stored, TypeOK, Content
    <3> QED
      BY <2>1, <3>1, <3>2 DEF InsertRows, Active
  <2>2. CASE CreateTable(r)
    BY <2>2, WritingType DEF CreateTable, Active, Content
  <2>3. CASE \E t \in Tables : \/ DropOld(r, t) \/ DropContext(r, t)
                              \/ Replace(r, t) \/ NothingWritten(r, t)
    <3>1. None \in Content /\ {r} \in Content
      BY DEF Content
    <3> QED
      BY <2>3, <3>1 DEF DropOld, DropContext, Replace, NothingWritten, MayWrite, Active
  <2>4. CASE Close(r) \/ Abandon(r) \/ RenewSession(r)
    BY <2>4 DEF Close, CloseSession, Abandon, RenewSession, Active
  <2>5. CASE \/ Begin(r) \/ WriteFails(r) \/ Query(r) \/ Fill(r) \/ StartCleanup(r)
             \/ \E t \in Tables : Hit(r, t) \/ Miss(r, t) \/ DropHasNoEffect(r, t)
    BY <2>5 DEF Begin, WriteFails, Query, Fill, StartCleanup, Hit, Miss, DropHasNoEffect
  <2> QED
    BY <2>1, <2>2, <2>3, <2>4, <2>5 DEF Step
<1>e. \A q \in Runs : q # r /\ stage[q] = "running" =>
          \A u \in Tables : db'[Home(q)][u] = db[Home(q)][u]
  <2> SUFFICES ASSUME NEW q \in Runs, q # r, stage[q] = "running", NEW u \in Tables
               PROVE  db'[Home(q)][u] = db[Home(q)][u]
    OBVIOUS
  <2>1. Home(q) \in Runs /\ Home(r) \in Runs
    BY HomeType
  <2>2. Active(r) => Home(q) # Home(r)
    BY <1>a, HomesDiffer
  <2> QED
    BY <1>d, <2>1, <2>2, SessionType, StoreType
<1>f. \A q \in Runs : q # r => RunOwn(q)'
  BY <1>a, <1>b, <1>c, <1>e, <1>n, OthersOwn
<1> DEFINE Goal == OneAtWork' /\ CacheWhole' /\ RunOwn(r)'
<1>g. SUFFICES Goal
  BY <1>b, <1>f DEF OwnRows, Isolated, Shared
<1>h. ~Begin(r) => OneAtWork'
  <2>1. ~Begin(r) => \A q \in Runs : Active(q)' => Active(q)
    BY DEF TypeOK, Active, Step, DropOld, CreateTable, InsertRows, WriteFails, EndWrite,
           Replace, NothingWritten, MayWrite, RenewSession, Hit, Miss, Query, Fill,
           StartCleanup, DropContext, DropHasNoEffect, Close, Abandon
  <2> QED
    BY <1>a, <1>b, <2>1 DEF OneAtWork, Shared
<1>i. UNCHANGED cache => CacheWhole'
  BY <1>a, <1>n DEF CacheWhole
<1>k. TablesOwn(r) /\ WritingOwn(r) /\ ReadingOwn(r) /\ Fresh(r) /\ AnswerOwn(r)
  BY <1>a DEF RunOwn
<1>l. answer'[r] = answer[r] => AnswerOwn(r)'
  BY <1>c, <1>k, <1>n, AnswerKept
<1>s. (\A u \in Tables : Stored(r, u)' = Stored(r, u)) \/ db' # db
  BY <1>b DEF Stored, Home, Shared
<1>1. CASE Begin(r)
  <2>1. OneAtWork'
    BY <1>1, <1>a DEF Begin, OneAtWork, Active, Isolated, Shared, TypeOK
  <2>2. RunOwn(r)'
    BY <1>1, <1>k, <1>l DEF Begin, RunOwn, TablesOwn, WritingOwn, ReadingOwn, Fresh, TypeOK
  <2> QED
    BY <1>1, <2>1, <2>2, <1>i DEF Begin
<1>2. ASSUME NEW t \in Tables, DropOld(r, t) PROVE Goal
  <2>1. /\ Stored(r, t)' = None
        /\ \A u \in Tables : u # t => Stored(r, u)' = Stored(r, u)
    BY <1>2, <1>b, StoreType, HomeType DEF DropOld, Content, Stored, Home, Shared
  <2>2. TablesOwn(r)'
    BY <1>2, <1>k, <2>1 DEF DropOld, TablesOwn, TypeOK
  <2>3. writing'[r] = [table |-> t, made |-> FALSE]
    BY <1>2 DEF DropOld, TypeOK
  <2>4. WritingOwn(r)'
    BY <1>2, <2>1, <2>3 DEF DropOld, MayWrite, WritingOwn
  <2>5. RunOwn(r)'
    BY <1>2, <1>k, <1>l, <2>2, <2>4 DEF DropOld, MayWrite, RunOwn, ReadingOwn, Fresh
  <2> QED
    BY <1>2, <2>5, <1>h, <1>i DEF DropOld, MayWrite, Begin
<1>3. CASE CreateTable(r)
  <2>1. writing[r] \in Write /\ writing[r].table \in Tables
    BY <1>3, WritingType DEF CreateTable
  <2>w. PICK w \in Tables : w = writing[r].table
    BY <2>1
  <2>2. /\ Stored(r, w)' = {}
        /\ \A u \in Tables : u # w => Stored(r, u)' = Stored(r, u)
    BY <1>3, <1>b, <2>w, StoreType, HomeType DEF CreateTable, Content, Stored, Home, Shared
  <2>3. w \notin written[r] /\ setting.kind = "sqlite"
    BY <1>3, <1>k, <2>w DEF CreateTable, WritingOwn
  <2>4. TablesOwn(r)'
    BY <1>3, <1>k, <2>2, <2>3 DEF CreateTable, TablesOwn, TypeOK
  <2>5. writing'[r] = [writing[r] EXCEPT !.made = TRUE]
    BY <1>3 DEF CreateTable, TypeOK
  <2>6. writing'[r] = [table |-> w, made |-> TRUE]
    BY <2>1, <2>w, <2>5 DEF Write
  <2>7. WritingOwn(r)'
    <3>1. writing'[r].table = w /\ writing'[r].made = TRUE
      BY <2>6
    <3> QED
      BY <1>3, <1>b, <2>2, <2>3, <3>1 DEF CreateTable, WritingOwn
  <2>8. RunOwn(r)'
    BY <1>3, <1>k, <1>l, <2>4, <2>7 DEF CreateTable, RunOwn, ReadingOwn, Fresh
  <2> QED
    BY <1>3, <2>8, <1>h, <1>i DEF CreateTable, Begin
<1>4. CASE InsertRows(r)
  <2>1. writing[r] \in Write /\ writing[r].table \in Tables /\ writing[r].made \in BOOLEAN
    BY <1>4, WritingType DEF InsertRows
  <2>w. PICK w \in Tables : w = writing[r].table
    BY <2>1
  <2>2. Store(r, w, {r})
    <3>1. Stored(r, w) = {}
      BY <1>4, <1>k, <2>1, <2>w DEF InsertRows, WritingOwn
    <3>2. Store(r, w, Stored(r, w) \cup {r})
      BY <1>4, <2>w DEF InsertRows
    <3>3. {} \cup {r} = {r}
      OBVIOUS
    <3> QED
      BY <3>1, <3>2, <3>3
  <2>3. /\ Stored(r, w)' = {r}
        /\ \A u \in Tables : u # w => Stored(r, u)' = Stored(r, u)
    BY <1>b, <2>2, StoreType, HomeType DEF Content, Stored, Home, Shared
  <2>4. written'[r] = written[r] \cup {w} /\ writing'[r] = None
    BY <1>4, <2>w DEF InsertRows, EndWrite, Announce, TypeOK
  <2>5. TablesOwn(r)'
    BY <1>4, <1>k, <2>3, <2>4 DEF InsertRows, EndWrite, TablesOwn, TypeOK
  <2>6. RunOwn(r)'
    BY <1>4, <1>k, <1>l, <2>4, <2>5 DEF InsertRows, EndWrite, RunOwn, WritingOwn, ReadingOwn, Fresh
  <2> QED
    BY <1>4, <2>6, <1>h, <1>i DEF InsertRows, EndWrite, Begin
<1>5. CASE WriteFails(r)
  <2>w. PICK w \in Tables : w = writing[r].table
    BY <1>5, WritingType DEF WriteFails
  <2>1. /\ written'[r] = written[r] \cup {w} /\ writing'[r] = None
        /\ spoilt'[r] = spoilt[r] \cup {w} /\ w \notin written[r]
    BY <1>5, <1>k, <2>w DEF WriteFails, EndWrite, Announce, WritingOwn, TypeOK
  <2>2. TablesOwn(r)'
    BY <1>5, <1>k, <1>s, <2>1 DEF WriteFails, EndWrite, TablesOwn, TypeOK
  <2>3. RunOwn(r)'
    BY <1>5, <1>k, <1>l, <2>1, <2>2 DEF WriteFails, EndWrite, RunOwn, WritingOwn, ReadingOwn, Fresh
  <2> QED
    BY <1>5, <2>3, <1>h, <1>i DEF WriteFails, EndWrite, Begin
<1>6. ASSUME NEW t \in Tables, Hit(r, t) PROVE Goal
  <2>1. NothingSpoilt => \E q \in Runs : cache[t] = {q}
    BY <1>6, <1>a DEF Hit, CacheWhole
  <2>2. answer'[r] = [table |-> t, rows |-> cache[t], cached |-> TRUE]
    BY <1>6 DEF Hit, AnswerWith, TypeOK
  <2>3. AnswerOwn(r)'
    BY <1>n, <2>1, <2>2 DEF AnswerOwn
  <2>4. RunOwn(r)'
    BY <1>6, <1>k, <1>s, <2>3 DEF Hit, MayAsk, RunOwn, TablesOwn, WritingOwn, ReadingOwn, Fresh,
                                  Stored, Home, Shared
  <2> QED
    BY <1>6, <2>4, <1>h, <1>i DEF Hit, MayAsk, Begin
<1>7. ASSUME NEW t \in Tables, Miss(r, t) PROVE Goal
  <2>1. reading'[r] = [table |-> t, rows |-> None] /\ t \in written[r]
    BY <1>7 DEF Miss, MayAsk, TypeOK
  <2>2. RunOwn(r)'
    BY <1>7, <1>k, <1>l, <2>1 DEF Miss, MayAsk, RunOwn, TablesOwn, WritingOwn, ReadingOwn,
                                  Fresh, Stored, Home, Shared
  <2> QED
    BY <1>7, <2>2, <1>h, <1>i DEF Miss, MayAsk, Begin
<1>8. CASE Query(r)
  <2>1. reading[r] \in Read /\ reading[r].table \in Tables
    BY <1>8, ReadingType DEF Query
  <2>2. /\ reading[r].table \in written[r]
        /\ reading[r].table \notin spoilt[r] => Stored(r, reading[r].table) \in {None, {r}}
    BY <1>8, <1>k DEF Query, ReadingOwn, TablesOwn
  <2>3. \/ reading'[r] = None
        \/ /\ reading'[r] = [reading[r] EXCEPT !.rows = Stored(r, reading[r].table)]
           /\ Stored(r, reading[r].table) # None
    BY <1>8 DEF Query, TypeOK
  <2>4. reading'[r] # None => /\ reading'[r].table = reading[r].table
                             /\ reading'[r].rows = Stored(r, reading[r].table)
    BY <2>1, <2>3 DEF Read
  <2>5. ReadingOwn(r)'
    BY <1>8, <2>2, <2>4 DEF Query, ReadingOwn
  <2>6. RunOwn(r)'
    BY <1>8, <1>k, <1>l, <2>5 DEF Query, RunOwn, TablesOwn, WritingOwn, Fresh, Stored, Home,
                                  Shared
  <2> QED
    BY <1>8, <2>6, <1>h, <1>i DEF Query, Begin
<1>9. CASE Fill(r)
  <2>1. /\ reading[r].table \in Tables /\ reading[r].rows # None
        /\ reading[r].table \notin spoilt[r] => reading[r].rows = {r}
    BY <1>9, <1>k, ReadingType DEF Fill, ReadingOwn
  <2>2. CacheWhole'
    <3>1. NothingSpoilt => reading[r].rows = {r}
      BY <2>1 DEF NothingSpoilt
    <3> QED
      BY <1>9, <1>a, <1>n, <2>1, <3>1 DEF Fill, CacheWhole, TypeOK
  <2>3. answer'[r] = [table |-> reading[r].table, rows |-> reading[r].rows, cached |-> FALSE]
    BY <1>9 DEF Fill, AnswerWith, TypeOK
  <2>4. reading'[r] = None /\ spoilt' = spoilt
    BY <1>9 DEF Fill, TypeOK
  <2>5. AnswerOwn(r)'
    BY <2>1, <2>3, <2>4 DEF AnswerOwn, NothingSpoilt
  <2>6. RunOwn(r)'
    BY <1>9, <1>k, <2>4, <2>5 DEF Fill, RunOwn, TablesOwn, WritingOwn, ReadingOwn, Fresh,
                                  Stored, Home, Shared
  <2> QED
    BY <1>9, <2>2, <2>6, <1>h DEF Fill, Begin
<1>10. CASE \/ StartCleanup(r) \/ Close(r) \/ Abandon(r)
            \/ \E t \in Tables : DropContext(r, t) \/ DropHasNoEffect(r, t)
  <2>1. stage'[r] \in {"ending", "over", "lost"} /\ UNCHANGED <<answer, cache>> /\ ~Begin(r)
    BY <1>10 DEF StartCleanup, Close, Abandon, DropContext, DropHasNoEffect, TypeOK, Begin, Active
  <2>2. RunOwn(r)'
    BY <1>l, <2>1 DEF RunOwn, TablesOwn, WritingOwn, ReadingOwn, Fresh
  <2> QED
    BY <2>1, <2>2, <1>h, <1>i
<1>11. CASE RenewSession(r)
  <2>1. \A u \in Tables : Stored(r, u)' = None
    BY <1>11, <1>b, SessionType, HomeType DEF RenewSession, Stored, Home, Shared
  <2>2. TablesOwn(r)'
    BY <1>11, <2>1 DEF RenewSession, TablesOwn, TypeOK
  <2>3. WritingOwn(r)'
    BY <1>11, <1>k DEF RenewSession, WritingOwn
  <2>4. RunOwn(r)'
    BY <1>11, <1>k, <1>l, <2>2, <2>3 DEF RenewSession, RunOwn, ReadingOwn, Fresh
  <2> QED
    BY <1>11, <2>4, <1>h, <1>i DEF RenewSession, Begin
<1>12. ASSUME NEW t \in Tables, Replace(r, t) PROVE Goal
  <2>1. /\ Stored(r, t)' = {r}
        /\ \A u \in Tables : u # t => Stored(r, u)' = Stored(r, u)
    BY <1>12, <1>b, StoreType, HomeType DEF Replace, Content, Stored, Home, Shared
  <2>2. written'[r] = written[r] \cup {t} /\ writing'[r] = None
    BY <1>12 DEF Replace, MayWrite, Announce, TypeOK
  <2>3. TablesOwn(r)'
    BY <1>12, <1>k, <2>1, <2>2 DEF Replace, TablesOwn, TypeOK
  <2>4. RunOwn(r)'
    BY <1>12, <1>k, <1>l, <2>2, <2>3 DEF Replace, MayWrite, RunOwn, WritingOwn, ReadingOwn, Fresh
  <2> QED
    BY <1>12, <2>4, <1>h, <1>i DEF Replace, MayWrite, Begin
<1>13. ASSUME NEW t \in Tables, NothingWritten(r, t) PROVE Goal
  <2>1. \A u \in Tables : u # t => Stored(r, u)' = Stored(r, u)
    BY <1>13, <1>b, <1>s, StoreType, HomeType DEF NothingWritten, Content, Stored, Home, Shared
  <2>2. /\ written'[r] = written[r] \cup {t} /\ writing'[r] = None
        /\ spoilt'[r] = spoilt[r] \cup {t} /\ t \notin written[r]
    BY <1>13 DEF NothingWritten, MayWrite, Announce, TypeOK
  <2>3. TablesOwn(r)'
    BY <1>13, <1>k, <2>1, <2>2 DEF NothingWritten, TablesOwn, TypeOK
  <2>4. RunOwn(r)'
    BY <1>13, <1>k, <1>l, <2>2, <2>3
    DEF NothingWritten, MayWrite, RunOwn, WritingOwn, ReadingOwn, Fresh
  <2> QED
    BY <1>13, <2>4, <1>h, <1>i DEF NothingWritten, MayWrite, Begin
<1> QED
  BY <1>1, <1>2, <1>3, <1>4, <1>5, <1>6, <1>7, <1>8, <1>9, <1>10, <1>11, <1>12, <1>13 DEF Step

LEMMA OwnRowsInvariant == Spec => []OwnRows
<1>1. Init => OwnRows
  BY DEF Init, OwnRows, OneAtWork, Active, CacheWhole, RunOwn, TablesOwn, WritingOwn,
         ReadingOwn, Fresh, AnswerOwn
<1>2. TypeOK /\ OwnRows /\ [Next]_vars => OwnRows'
  <2> SUFFICES ASSUME TypeOK, OwnRows, [Next]_vars PROVE OwnRows'
    OBVIOUS
  <2>0. CASE ~Isolated
    <3>1. UNCHANGED setting
      BY DEF Next, Step, Rest, Expire, vars, Begin, DropOld, CreateTable, InsertRows,
             WriteFails, EndWrite, Replace, NothingWritten, RenewSession, Hit, Miss, Query,
             Fill, StartCleanup, DropContext, DropHasNoEffect, Close, Abandon
    <3> QED
      BY <2>0, <3>1 DEF OwnRows, Isolated, Shared
  <2>1. ASSUME NEW r \in Runs, Step(r), Isolated PROVE OwnRows'
    BY <2>1, StepOwn
  <2>2. ASSUME NEW t \in Tables, Expire(t) PROVE OwnRows'
    <3>1. \A u \in Tables : cache'[u] # None => cache'[u] = cache[u]
      BY <2>2 DEF Expire, TypeOK
    <3>2. UNCHANGED <<setting, stage, db, writing, written, recorded, spoilt, reading, answer>>
      BY <2>2 DEF Expire
    <3>3. \A r \in Runs : RunOwn(r) => RunOwn(r)'
      BY <3>2 DEF RunOwn, TablesOwn, WritingOwn, ReadingOwn, Fresh, AnswerOwn, Stored, Home,
                  Shared, NothingSpoilt
    <3>4. CacheWhole => CacheWhole'
      BY <3>1, <3>2 DEF CacheWhole, NothingSpoilt
    <3>5. OneAtWork => OneAtWork'
      BY <3>2 DEF OneAtWork, Active, Shared
    <3>6. Isolated' = Isolated
      BY <3>2 DEF Isolated, Shared
    <3> QED
      BY <3>3, <3>4, <3>5, <3>6 DEF OwnRows
  <2>3. CASE UNCHANGED vars
    <3>1. \A r \in Runs : RunOwn(r) => RunOwn(r)'
      BY <2>3 DEF vars, RunOwn, TablesOwn, WritingOwn, ReadingOwn, Fresh, AnswerOwn, Stored,
                  Home, Shared, NothingSpoilt
    <3>2. (OneAtWork => OneAtWork') /\ (CacheWhole => CacheWhole')
      BY <2>3 DEF vars, OneAtWork, Active, CacheWhole, Shared, NothingSpoilt
    <3>3. Isolated' = Isolated
      BY <2>3 DEF vars, Isolated, Shared
    <3> QED
      BY <3>1, <3>2, <3>3 DEF OwnRows
  <2> QED
    BY <2>0, <2>1, <2>2, <2>3 DEF Next, Rest
<1> QED
  BY <1>1, <1>2, TypeCorrect, PTL DEF Spec

(* While runs over one database do not overlap, an answer that did not come *)
(* from the cache, over a table the run did not fail to write, holds the    *)
(* run's own rows, whatever lost runs, failed writes and failed drops left  *)
(* behind (cached_executor.py:25-31, scheduler.py:174-186).                 *)
THEOREM FreshAnswersAreOwn == Spec => []FreshAnswersOwn
<1>1. OwnRows => FreshAnswersOwn
  BY DEF OwnRows, FreshAnswersOwn, RunOwn, AnswerOwn
<1> QED
  BY <1>1, OwnRowsInvariant, PTL

(* While runs over one database do not overlap and no write has failed, no  *)
(* answer, cached or not, is a half-written table (cached_executor.py:25).  *)
THEOREM AnswersAreWhole == Spec => []EveryAnswerWhole
<1>1. OwnRows => EveryAnswerWhole
  BY DEF OwnRows, EveryAnswerWhole, RunOwn, AnswerOwn
<1> QED
  BY <1>1, OwnRowsInvariant, PTL
=============================================================================

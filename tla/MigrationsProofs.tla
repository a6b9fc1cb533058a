--------------------------- MODULE MigrationsProofs ---------------------------
(***************************************************************************)
(* What holds of the migrations for any number of processes, rows and      *)
(* crashes: an opened database is the current one, and no token changes    *)
(* what it is good for.                                                    *)
(*                                                                         *)
(* The invariant says what a version number promises, with the statements  *)
(* in between: only the holder of the lock migrates, so the statement it   *)
(* is at tells what those before it have done.                             *)
(***************************************************************************)
EXTENDS Migrations, TLAPS

USE MigrationsAssumption

\* The statuses, written out: the steps of the chain only rename them.
LEMMA StatusLists ==
  /\ \A version \in 1..2 : StatusesOf(version) =
       {"pending", "approved", "rejected", "expired", "executing", "completed", "failed"}
  /\ StatusesOf(3) = {"pending", "approved", "rejected", "expired", "executing",
                      "completed", "failed", "stuck"}
  /\ StatusesOf(4) = {"pending", "approved", "rejected", "expired", "executing",
                      "completed", "failed", "reconciling"}
  /\ StatusesOf(5) = {"pending", "approved", "rejected", "expired", "executing",
                      "unknown_outcome", "completed", "failed_terminal", "cancelled"}
  /\ \A version \in 6..9 : StatusesOf(version) = {"pending", "approved", "consumed", "expired"}
BY DEF StatusesOf

\* The statuses of a version are among all statuses.
LEMMA StatusesIncluded == \A version \in 1..9 : StatusesOf(version) \subseteq Statuses
BY DEF Statuses

\* A token keeps its hash over every step but the first, and its status is
\* one that the next version knows.
LEMMA MigratedTokenFits ==
  ASSUME NEW version \in 1..5, NEW token,
         token.status \in StatusesOf(version), token.hash \in Hashes
  PROVE  LET new == MigratedToken(version, token) IN
         /\ new.status \in StatusesOf(version + 1)
         /\ new.hash \in Hashes
         /\ new = [status |-> new.status, hash |-> new.hash]
<1>1. /\ MigratedToken(version, token).hash \in Hashes
      /\ MigratedToken(version, token) =
           [status |-> MigratedToken(version, token).status,
            hash |-> MigratedToken(version, token).hash]
  BY DEF MigratedToken, Hashes
<1>2. MigratedToken(version, token).status \in StatusesOf(version + 1)
  <2>1. CASE version = 1 BY <2>1, StatusLists DEF MigratedToken
  <2>2. CASE version = 2 BY <2>2, StatusLists DEF MigratedToken
  <2>3. CASE version = 3 BY <2>3, StatusLists DEF MigratedToken
  <2>4. CASE version = 4 BY <2>4, StatusLists DEF MigratedToken
  <2>5. CASE version = 5 BY <2>5, StatusLists DEF MigratedToken
  <2> QED BY <2>1, <2>2, <2>3, <2>4, <2>5
<1> QED BY <1>1, <1>2

\* And it is good for the same as before, unless it is taken back.
LEMMA MigratedTokenMeans ==
  ASSUME NEW version \in 1..5, NEW token,
         token.status \in StatusesOf(version), token.hash \in Hashes
  PROVE  \/ Meaning(MigratedToken(version, token)) = Meaning(token)
         \/ /\ token.status = "pending" /\ token.hash = "none"
            /\ MigratedToken(version, token).status = "expired"
<1>1. CASE version = 1 BY <1>1, StatusLists DEF MigratedToken, Meaning
<1>2. CASE version = 2 BY <1>2, StatusLists DEF MigratedToken, Meaning
<1>3. CASE version = 3 BY <1>3, StatusLists DEF MigratedToken, Meaning
<1>4. CASE version = 4 BY <1>4, StatusLists DEF MigratedToken, Meaning
<1>5. CASE version = 5 BY <1>5, StatusLists DEF MigratedToken, Meaning
<1> QED BY <1>1, <1>2, <1>3, <1>4, <1>5

----------------------------------------------------------------------------
\* The holder of the lock is alone: while it migrates, all others are down, and
\* what it found is what is there.
LEMMA Alone ==
  ASSUME MigrationsInv, NEW p \in Processes, opener[p].at = "migrating"
  PROVE  /\ lock = p
         /\ \/ db.version = opener[p].version
            \/ db.version = 0 /\ "approvals" \in db.tables /\ opener[p].version = 1
         /\ \A q \in Processes \ {p} : opener[q].at = "down"
<1>1. Tells(p)
  BY DEF MigrationsInv, StatementTells
<1>2. \A q \in Processes \ {p} : opener[q].at # "migrating"
  BY <1>1 DEF MigrationsInv, StatementTells, Tells
<1>3. \A q \in Processes \ {p} : opener[q].at # "up"
  BY <1>1 DEF MigrationsInv, OpenedIsLeftAlone, Tells
<1>4. opener \in [Processes -> Openers]
  BY DEF MigrationsInv, MigrationsTypeOK
<1> QED BY <1>1, <1>2, <1>3, <1>4 DEF Tells, Openers

\* One statement keeps the invariant if it does so for the schema and for
\* the process that runs it.
LEMMA StatementKeepsInvariant ==
  ASSUME MigrationsInv, NEW p \in Processes,
         NEW version \in {0, 6, 7, 8}, NEW statement \in 0..5, NEW newDb \in Schemas,
         Statement(p, version, statement, newDb),
         newDb.version = db.version => statement < 5,
         VersionTells', Tells(p)'
  PROVE  MigrationsInv'
<1>1. opener[p].at = "migrating" /\ opener[p].version = version /\ opener[p].statement = statement
  BY DEF Statement, Runs
<1>2. \A q \in Processes \ {p} : opener[q].at = "down"
  BY <1>1, Alone
<1> DEFINE new == IF newDb.version = db.version THEN Reached(version, statement + 1)
                  ELSE Reached(newDb.version, 0)
<1>3. opener' = [opener EXCEPT ![p] = new] /\ db' = newDb
  BY DEF Statement
<1>4. opener \in [Processes -> Openers]
  BY DEF MigrationsInv, MigrationsTypeOK
<1>5. new \in Openers /\ new.at = "migrating"
  BY DEF Reached, Openers, Schemas
<1> HIDE DEF new
<1>6. opener' \in [Processes -> Openers] /\ opener'[p] = new
      /\ \A q \in Processes \ {p} : opener'[q].at = "down"
  BY <1>2, <1>3, <1>4, <1>5
<1>7. MigrationsTypeOK'
  BY <1>3, <1>6 DEF MigrationsInv, MigrationsTypeOK, Statement
<1>8. StatementTells'
  BY <1>6 DEF StatementTells, Tells
<1>9. OpenedIsLeftAlone'
  BY <1>5, <1>6 DEF OpenedIsLeftAlone
<1> QED BY <1>7, <1>8, <1>9 DEF MigrationsInv

\* What a statement does to the process that runs it.
LEMMA StatementMoves ==
  ASSUME MigrationsInv, NEW p \in Processes, NEW version, NEW statement,
         NEW newDb \in Schemas, Statement(p, version, statement, newDb)
  PROVE  /\ db' = newDb /\ UNCHANGED <<tokens, executions, lock, calm>>
         /\ opener[p].at = "migrating" /\ opener[p].version = version
         /\ opener[p].statement = statement
         /\ opener'[p].at = "migrating"
         /\ newDb.version = db.version =>
              opener'[p].version = version /\ opener'[p].statement = statement + 1
         /\ newDb.version # db.version =>
              opener'[p].version = newDb.version /\ opener'[p].statement = 0
<1>1. opener \in [Processes -> Openers]
  BY DEF MigrationsInv, MigrationsTypeOK
<1>2. opener[p].at = "migrating" /\ opener[p].version = version /\ opener[p].statement = statement
  BY DEF Statement, Runs
<1> QED BY <1>1, <1>2 DEF Statement, Reached

----------------------------------------------------------------------------
\* Whatever an earlier version left satisfies the invariant.
LEMMA InitEstablishesInvariant == Init => MigrationsInv
<1> SUFFICES ASSUME Init PROVE MigrationsInv
  OBVIOUS
<1>0. StatementTells /\ OpenedIsLeftAlone
  BY DEF Init, Down, StatementTells, Tells, OpenedIsLeftAlone
<1>1. opener \in [Processes -> Openers]
  BY DEF Init, Down, Openers
<1>2. CASE db = NewDatabase /\ tokens = [t \in Tokens |-> Absent]
           /\ executions = [e \in Executions |-> Absent]
  <2>1. db \in Schemas
    BY <1>2 DEF NewDatabase, Schemas, Indexes
  <2>2. MigrationsTypeOK
    BY <1>1, <1>2, <2>1 DEF Init, MigrationsTypeOK
  <2>3. VersionTells
    BY <1>2 DEF VersionTells, NewDatabase, NoTokens, NoExecutions
  <2> QED BY <1>0, <2>2, <2>3 DEF MigrationsInv
<1>3. ASSUME NEW version \in 1..8, db \in LeftBy(version),
             tokens \in [Tokens -> TokenRows(version) \cup {Absent}],
             executions \in [Executions -> (IF version < 6 THEN {} ELSE ExecutionRows)
                                             \cup {Absent}]
      PROVE  MigrationsInv
  <2>1. /\ db.version = IF version = 1 THEN 0 ELSE version
        /\ db.tables = IF version >= 6 THEN {"approvals", "executions"} ELSE {"approvals"}
        /\ db.columns = IF version = 8 THEN 5 ELSE 0
        /\ db \in Schemas
        /\ version < 6 => db.executingIndex = "none"
    BY <1>3 DEF LeftBy, Schemas, Indexes
  <2>2. \A t \in Tokens : tokens[t] = Absent \/ tokens[t].status \in StatusesOf(version)
    BY <1>3 DEF TokenRows
  <2>3. TokenRows(version) \subseteq [status : Statuses, hash : Hashes]
    BY StatusesIncluded DEF TokenRows, Hashes
  <2>4. MigrationsTypeOK
    BY <1>1, <1>3, <2>1, <2>3 DEF Init, MigrationsTypeOK
  <2>5. VersionOfRows = version
    BY <2>1 DEF VersionOfRows
  <2>6. version < 6 => NoExecutions
    BY <1>3 DEF NoExecutions
  <2>7. VersionTells
    BY <2>1, <2>2, <2>5, <2>6 DEF VersionTells
  <2> QED BY <1>0, <2>4, <2>7 DEF MigrationsInv
<1> QED BY <1>2, <1>3 DEF Init

\* Taking the lock.
LEMMA OpenKeepsInvariant ==
  ASSUME MigrationsInv, NEW p \in Processes, Open(p)
  PROVE  MigrationsInv'
<1>1. opener \in [Processes -> Openers] /\ db \in Schemas
  BY DEF MigrationsInv, MigrationsTypeOK
<1> DEFINE found == IF db.version = 0 /\ "approvals" \in db.tables THEN 1 ELSE db.version
<1>2. found \in 0..9
  BY <1>1 DEF Schemas
<1>3. opener' = [opener EXCEPT ![p] = Reached(found, 0)]
  BY DEF Open
<1> HIDE DEF found
<1>4. /\ opener' \in [Processes -> Openers]
      /\ opener'[p].at = "migrating" /\ opener'[p].version = found /\ opener'[p].statement = 0
      /\ \A q \in Processes \ {p} : opener'[q] = opener[q]
  BY <1>1, <1>2, <1>3 DEF Openers, Reached
<1>5. \A q \in Processes : opener[q].at # "migrating"
  BY DEF MigrationsInv, StatementTells, Tells, Open, MigrationsAssumption
<1>6. MigrationsTypeOK'
  BY <1>4 DEF MigrationsInv, MigrationsTypeOK, Open, dbVars
<1>7. VersionTells'
  BY DEF MigrationsInv, Open, dbVars, VersionTells, VersionOfRows, NoTokens, NoExecutions, Current
<1>8. Tells(p)'
  <2>1. lock' = p /\ db' = db /\ tokens' = tokens
    BY DEF Open, dbVars
  <2>2. found = 0 => db.version = 0 /\ "approvals" \notin db.tables
    BY <1>1 DEF found, Schemas
  <2>3. found = 0 => NoTokens' /\ db.tables = {}
    BY <2>1, <2>2 DEF MigrationsInv, VersionTells, NoTokens
  <2>4. db.version = found \/ (db.version = 0 /\ "approvals" \in db.tables /\ found = 1)
    BY DEF found
  <2> QED BY <1>4, <2>1, <2>3, <2>4 DEF Tells
<1>9. StatementTells'
  BY <1>4, <1>5, <1>8 DEF StatementTells, Tells
<1>10. OpenedIsLeftAlone'
  <2>1. \A q \in Processes : opener[q].at # "up"
    BY DEF MigrationsInv, OpenedIsLeftAlone, Open, MigrationsAssumption
  <2> QED BY <1>4, <2>1 DEF OpenedIsLeftAlone
<1> QED BY <1>6, <1>7, <1>9, <1>10 DEF MigrationsInv

\* One transaction of the chain: all rows fit the next version.
LEMMA RebuildKeepsInvariant ==
  ASSUME MigrationsInv, NEW p \in Processes, NEW version \in 1..5,
         RebuildApprovals(p, version)
  PROVE  MigrationsInv'
<1>1. opener[p].at = "migrating" /\ opener[p].version = version
  BY DEF RebuildApprovals, Runs
<1>2. /\ lock = p /\ VersionOfRows = version /\ db.version < 6
      /\ "approvals" \in db.tables
      /\ \A q \in Processes \ {p} : opener[q].at = "down"
  <2>1. db.version = version \/ (db.version = 0 /\ "approvals" \in db.tables /\ version = 1)
    BY <1>1, Alone
  <2> QED BY <1>1, <2>1, Alone DEF MigrationsInv, VersionTells, VersionOfRows
<1>3. /\ opener \in [Processes -> Openers] /\ db \in Schemas
      /\ tokens \in [Tokens -> [status : Statuses, hash : Hashes] \cup {Absent}]
  BY DEF MigrationsInv, MigrationsTypeOK
<1>4. /\ opener' \in [Processes -> Openers]
      /\ opener'[p].at = "migrating" /\ opener'[p].version = version + 1
      /\ opener'[p].statement = 0
      /\ \A q \in Processes \ {p} : opener'[q].at = "down"
  BY <1>2, <1>3 DEF RebuildApprovals, Reached, Openers
<1>5. \A t \in Tokens : tokens[t] # Absent =>
        tokens[t].status \in StatusesOf(version) /\ tokens[t].hash \in Hashes
  BY <1>2, <1>3 DEF MigrationsInv, VersionTells
<1>6. \A t \in Tokens :
        \/ tokens[t] = Absent /\ tokens'[t] = Absent
        \/ /\ tokens[t] # Absent
           /\ tokens'[t].status \in StatusesOf(version + 1)
           /\ tokens'[t] \in [status : Statuses, hash : Hashes]
  <2> SUFFICES ASSUME NEW t \in Tokens, tokens[t] # Absent
               PROVE  /\ tokens'[t].status \in StatusesOf(version + 1)
                      /\ tokens'[t] \in [status : Statuses, hash : Hashes]
    BY DEF RebuildApprovals
  <2>1. tokens'[t] = MigratedToken(version, tokens[t])
    BY DEF RebuildApprovals
  <2> DEFINE new == MigratedToken(version, tokens[t])
  <2>2. /\ new.status \in StatusesOf(version + 1) /\ new.hash \in Hashes
        /\ new = [status |-> new.status, hash |-> new.hash]
    BY <1>5, MigratedTokenFits
  <2> HIDE DEF new
  <2>3. new \in [status : Statuses, hash : Hashes]
    BY <2>2, StatusesIncluded
  <2> QED BY <2>1, <2>2, <2>3 DEF new
<1>7. tokens' \in [Tokens -> [status : Statuses, hash : Hashes] \cup {Absent}]
  BY <1>6 DEF RebuildApprovals
<1>8. /\ db' \in Schemas /\ db'.version = version + 1
      /\ version < 5 => /\ db'.tables = db.tables
                        /\ db'.executingIndex = db.executingIndex
      /\ version = 5 => db'.tables = {"approvals", "executions"}
  <2>1. CASE version = 5
    <3>1. db' = [version |-> 6, tables |-> {"approvals", "executions"},
                 columns |-> db.columns, keyIndex |-> "plain", executingIndex |-> "unique"]
      BY <1>3, <2>1 DEF RebuildApprovals, Schemas
    <3> QED BY <1>3, <2>1, <3>1 DEF Schemas, Indexes
  <2>2. CASE version # 5 BY <1>3, <2>2 DEF RebuildApprovals, Schemas
  <2> QED BY <2>1, <2>2
<1>9. executions' = executions /\ lock' = p /\ calm' = calm
  BY <1>2 DEF RebuildApprovals
<1>10. MigrationsTypeOK'
  BY <1>4, <1>7, <1>8, <1>9 DEF MigrationsInv, MigrationsTypeOK
<1>11. VersionTells'
  <2>1. VersionOfRows' = version + 1
    BY <1>8 DEF VersionOfRows
  <2>2. \A t \in Tokens : tokens'[t] = Absent \/ tokens'[t].status \in StatusesOf(version + 1)
    BY <1>6
  <2>3. NoExecutions' /\ (version < 5 => db'.executingIndex = "none")
    BY <1>2, <1>8, <1>9 DEF MigrationsInv, VersionTells, NoExecutions
  <2> QED BY <1>2, <1>8, <2>1, <2>2, <2>3 DEF VersionTells
<1>12. StatementTells'
  BY <1>4, <1>8, <1>9 DEF StatementTells, Tells
<1>13. OpenedIsLeftAlone'
  BY <1>4 DEF OpenedIsLeftAlone
<1> QED BY <1>10, <1>11, <1>12, <1>13 DEF MigrationsInv

\* The first start on a new database.
LEMMA CreateKeepsInvariant ==
  ASSUME MigrationsInv, NEW p \in Processes, CreateDatabase(p)
  PROVE  MigrationsInv'
<1>1. opener[p].at = "migrating" /\ opener[p].version = 0
  BY DEF CreateDatabase, Statement, Runs
<1>2. /\ db \in Schemas /\ db.version = 0 /\ lock = p
      /\ NoTokens /\ NoExecutions /\ db.executingIndex = "none"
      /\ opener[p].statement >= 1 <=> "approvals" \in db.tables
      /\ opener[p].statement >= 2 <=> "executions" \in db.tables
      /\ opener[p].statement >= 2 => db.columns = 5
      /\ opener[p].statement >= 3 => db.keyIndex = "unique"
  <2>1. Tells(p) /\ VersionTells /\ MigrationsTypeOK
    BY DEF MigrationsInv, StatementTells
  <2> QED BY <1>1, <2>1 DEF Tells, VersionTells, MigrationsTypeOK
<1>3. ASSUME Statement(p, 0, 0, [db EXCEPT !.tables = {"approvals"}])
      PROVE  MigrationsInv'
  <2> DEFINE newDb == [db EXCEPT !.tables = {"approvals"}]
  <2>1. /\ newDb \in Schemas /\ newDb.version = 0 /\ newDb.tables = {"approvals"}
        /\ newDb.executingIndex = "none"
    BY <1>2 DEF Schemas
  <2> HIDE DEF newDb
  <2>2. Statement(p, 0, 0, newDb)
    BY <1>3 DEF newDb
  <2>3. /\ db' = newDb /\ UNCHANGED <<tokens, executions, lock, calm>>
        /\ opener'[p].version = 0 /\ opener'[p].statement = 1
    BY <1>2, <2>1, <2>2, StatementMoves
  <2>4. NoTokens' /\ NoExecutions'
    BY <1>2, <2>3 DEF NoTokens, NoExecutions
  <2>5. VersionTells' /\ Tells(p)'
    BY <1>2, <2>1, <2>3, <2>4 DEF VersionTells, Tells, NoTokens
  <2> QED BY <1>2, <2>1, <2>2, <2>5, StatementKeepsInvariant
<1>4. ASSUME Statement(p, 0, 1, [db EXCEPT !.tables = {"approvals", "executions"}, !.columns = 5])
      PROVE  MigrationsInv'
  <2> DEFINE wider == [db EXCEPT !.columns = 5]
             newDb == [wider EXCEPT !.tables = {"approvals", "executions"}]
  <2>0. newDb = [db EXCEPT !.tables = {"approvals", "executions"}, !.columns = 5]
    BY <1>2 DEF Schemas
  <2>a. /\ wider \in Schemas /\ wider.version = 0
         /\ wider.columns = 5 /\ wider.executingIndex = "none"
    BY <1>2 DEF Schemas
  <2> HIDE DEF wider
  <2>1. /\ newDb \in Schemas /\ newDb.version = 0
        /\ newDb.tables = {"approvals", "executions"}
        /\ newDb.columns = 5 /\ newDb.executingIndex = "none"
    BY <2>a DEF Schemas
  <2> HIDE DEF newDb
  <2>2. Statement(p, 0, 1, newDb)
    BY <1>4, <2>0
  <2>3. /\ db' = newDb /\ UNCHANGED <<tokens, executions, lock, calm>>
        /\ opener'[p].version = 0 /\ opener'[p].statement = 2
    BY <1>2, <2>1, <2>2, StatementMoves
  <2>4. NoTokens' /\ NoExecutions'
    BY <1>2, <2>3 DEF NoTokens, NoExecutions
  <2>5. VersionTells' /\ Tells(p)'
    BY <1>2, <2>1, <2>3, <2>4 DEF VersionTells, Tells, NoTokens
  <2> QED BY <1>2, <2>1, <2>2, <2>5, StatementKeepsInvariant
<1>5. ASSUME Statement(p, 0, 2, [db EXCEPT !.keyIndex = "unique"])
      PROVE  MigrationsInv'
  <2> DEFINE newDb == [db EXCEPT !.keyIndex = "unique"]
  <2>1. /\ newDb \in Schemas /\ newDb.version = 0
        /\ newDb.tables = db.tables /\ newDb.keyIndex = "unique"
        /\ newDb.columns = db.columns /\ newDb.executingIndex = "none"
    BY <1>2 DEF Schemas, Indexes
  <2> HIDE DEF newDb
  <2>2. Statement(p, 0, 2, newDb) /\ opener[p].statement = 2
    BY <1>5 DEF newDb, Statement, Runs
  <2>3. /\ db' = newDb /\ UNCHANGED <<tokens, executions, lock, calm>>
        /\ opener'[p].version = 0 /\ opener'[p].statement = 3
    BY <1>2, <2>1, <2>2, StatementMoves
  <2>4. NoTokens' /\ NoExecutions'
    BY <1>2, <2>3 DEF NoTokens, NoExecutions
  <2>5. VersionTells' /\ Tells(p)'
    BY <1>2, <2>1, <2>2, <2>3, <2>4 DEF VersionTells, Tells, NoTokens
  <2> QED BY <1>2, <2>1, <2>2, <2>5, StatementKeepsInvariant
<1>6. ASSUME Statement(p, 0, 3, [db EXCEPT !.version = 9])
      PROVE  MigrationsInv'
  <2> DEFINE newDb == [db EXCEPT !.version = 9]
  <2>1. /\ newDb \in Schemas /\ newDb.version = 9
        /\ newDb.tables = db.tables /\ newDb.keyIndex = db.keyIndex
        /\ newDb.columns = db.columns /\ newDb.executingIndex = "none"
    BY <1>2 DEF Schemas
  <2> HIDE DEF newDb
  <2>2. Statement(p, 0, 3, newDb) /\ opener[p].statement = 3
    BY <1>6 DEF newDb, Statement, Runs
  <2>3. /\ db' = newDb /\ UNCHANGED <<tokens, executions, lock, calm>>
        /\ opener'[p].version = 9 /\ opener'[p].statement = 0
    BY <1>2, <2>1, <2>2, StatementMoves
  <2>4. NoTokens' /\ NoExecutions'
    BY <1>2, <2>3 DEF NoTokens, NoExecutions
  <2>5. db.tables = {"approvals", "executions"} /\ db.columns = 5 /\ db.keyIndex = "unique"
    BY <1>2, <2>2 DEF Schemas
  <2>6. Current'
    BY <2>1, <2>3, <2>4, <2>5 DEF Current, NoTokens, NoExecutions, KeyClash
  <2>7. VersionTells' /\ Tells(p)'
    BY <1>2, <2>1, <2>3, <2>4, <2>5, <2>6 DEF VersionTells, Tells, NoTokens
  <2> QED BY <1>2, <2>1, <2>2, <2>7, StatementKeepsInvariant
<1> QED BY <1>3, <1>4, <1>5, <1>6 DEF CreateDatabase

\* Step 6, the index over what executes.
LEMMA IndexExecutingKeepsInvariant ==
  ASSUME MigrationsInv, NEW p \in Processes, IndexExecuting(p)
  PROVE  MigrationsInv'
<1>1. opener[p].at = "migrating" /\ opener[p].version = 6
  BY DEF IndexExecuting, Statement, Runs
<1>2. /\ db \in Schemas /\ db.version = 6 /\ lock = p
      /\ db.tables = {"approvals", "executions"}
      /\ \A t \in Tokens : tokens[t] = Absent \/ tokens[t].status \in StatusesOf(6)
  <2>1. Tells(p) /\ VersionTells /\ MigrationsTypeOK
    BY DEF MigrationsInv, StatementTells
  <2>2. db \in Schemas /\ db.version = 6 /\ lock = p
    BY <1>1, <2>1 DEF Tells, MigrationsTypeOK
  <2> QED BY <2>1, <2>2 DEF VersionTells, VersionOfRows
<1>3. ASSUME Statement(p, 6, 0, [db EXCEPT !.executingIndex = "unique"])
      PROVE  MigrationsInv'
  <2> DEFINE newDb == [db EXCEPT !.executingIndex = "unique"]
  <2>1. newDb \in Schemas /\ newDb.version = 6 /\ newDb.tables = db.tables
    BY <1>2 DEF Schemas, Indexes
  <2> HIDE DEF newDb
  <2>2. Statement(p, 6, 0, newDb)
    BY <1>3 DEF newDb
  <2>3. /\ db' = newDb /\ UNCHANGED <<tokens, executions, lock, calm>>
        /\ opener'[p].version = 6 /\ opener'[p].statement = 1
    BY <1>2, <2>1, <2>2, StatementMoves
  <2>4. VersionTells' /\ Tells(p)'
    BY <1>2, <2>1, <2>3 DEF VersionTells, VersionOfRows, Tells
  <2> QED BY <1>2, <2>1, <2>2, <2>4, StatementKeepsInvariant
<1>4. ASSUME Statement(p, 6, 1, [db EXCEPT !.version = 7])
      PROVE  MigrationsInv'
  <2> DEFINE newDb == [db EXCEPT !.version = 7]
  <2>1. newDb \in Schemas /\ newDb.version = 7 /\ newDb.tables = db.tables
    BY <1>2 DEF Schemas
  <2> HIDE DEF newDb
  <2>2. Statement(p, 6, 1, newDb)
    BY <1>4 DEF newDb
  <2>3. /\ db' = newDb /\ UNCHANGED <<tokens, executions, lock, calm>>
        /\ opener'[p].version = 7 /\ opener'[p].statement = 0
    BY <1>2, <2>1, <2>2, StatementMoves
  <2>4. VersionTells' /\ Tells(p)'
    BY <1>2, <2>1, <2>3, StatusLists DEF VersionTells, VersionOfRows, Tells
  <2> QED BY <1>2, <2>1, <2>2, <2>4, StatementKeepsInvariant
<1> QED BY <1>3, <1>4 DEF IndexExecuting

\* Step 7, column by column.
LEMMA AddColumnsKeepsInvariant ==
  ASSUME MigrationsInv, NEW p \in Processes, AddColumns(p)
  PROVE  MigrationsInv'
<1>1. opener[p].at = "migrating" /\ opener[p].version = 7
  BY DEF AddColumns, Statement, Runs
<1>2. /\ db \in Schemas /\ db.version = 7 /\ lock = p
      /\ db.tables = {"approvals", "executions"}
      /\ \A t \in Tokens : tokens[t] = Absent \/ tokens[t].status \in StatusesOf(7)
      /\ opener[p].statement > 0 => opener[p].statement = db.columns
  <2>1. Tells(p) /\ VersionTells /\ MigrationsTypeOK
    BY DEF MigrationsInv, StatementTells
  <2>2. /\ db \in Schemas /\ db.version = 7 /\ lock = p
        /\ opener[p].statement > 0 => opener[p].statement = db.columns
    BY <1>1, <2>1 DEF Tells, MigrationsTypeOK
  <2> QED BY <2>1, <2>2 DEF VersionTells, VersionOfRows
<1>3. ASSUME NEW column \in 0..4, db.columns = column,
             Statement(p, 7, column, [db EXCEPT !.columns = column + 1])
      PROVE  MigrationsInv'
  <2> DEFINE newDb == [db EXCEPT !.columns = column + 1]
  <2>1. /\ newDb \in Schemas /\ newDb.version = 7 /\ newDb.tables = db.tables
        /\ newDb.columns = column + 1
    BY <1>2 DEF Schemas
  <2> HIDE DEF newDb
  <2>2. Statement(p, 7, column, newDb)
    BY <1>3 DEF newDb
  <2>3. /\ db' = newDb /\ UNCHANGED <<tokens, executions, lock, calm>>
        /\ opener'[p].version = 7 /\ opener'[p].statement = column + 1
    BY <1>2, <2>1, <2>2, StatementMoves
  <2>4. VersionTells' /\ Tells(p)'
    BY <1>2, <2>1, <2>3 DEF VersionTells, VersionOfRows, Tells
  <2> QED BY <1>2, <2>1, <2>2, <2>4, StatementKeepsInvariant
<1>4. ASSUME Statement(p, 7, 5, [db EXCEPT !.version = 8])
      PROVE  MigrationsInv'
  <2> DEFINE newDb == [db EXCEPT !.version = 8]
  <2>1. /\ newDb \in Schemas /\ newDb.version = 8 /\ newDb.tables = db.tables
        /\ newDb.columns = db.columns
    BY <1>2 DEF Schemas
  <2> HIDE DEF newDb
  <2>2. Statement(p, 7, 5, newDb) /\ opener[p].statement = 5
    BY <1>4 DEF newDb, Statement, Runs
  <2>3. /\ db' = newDb /\ UNCHANGED <<tokens, executions, lock, calm>>
        /\ opener'[p].version = 8 /\ opener'[p].statement = 0
    BY <1>2, <2>1, <2>2, StatementMoves
  <2>4. VersionTells' /\ Tells(p)'
    BY <1>2, <2>1, <2>2, <2>3, StatusLists DEF VersionTells, VersionOfRows, Tells
  <2> QED BY <1>2, <2>1, <2>2, <2>4, StatementKeepsInvariant
<1> QED BY <1>3, <1>4 DEF AddColumns

\* The last step: the unique index is made when nothing clashes, and the
\* version follows it.
LEMMA IndexKeysKeepsInvariant ==
  ASSUME MigrationsInv, NEW p \in Processes, IndexKeys(p)
  PROVE  MigrationsInv'
<1>1. opener[p].at = "migrating" /\ opener[p].version = 8
  BY DEF IndexKeys, Statement, Runs
<1>2. /\ db \in Schemas /\ db.version = 8 /\ lock = p /\ db.columns = 5
      /\ db.tables = {"approvals", "executions"}
      /\ \A t \in Tokens : tokens[t] = Absent \/ tokens[t].status \in StatusesOf(8)
      /\ opener[p].statement > 0 => db.executingIndex = "none"
      /\ opener[p].statement > 2 => db.keyIndex = "unique" /\ ~KeyClash(executions)
  <2>1. Tells(p) /\ VersionTells /\ MigrationsTypeOK
    BY DEF MigrationsInv, StatementTells
  <2>2. /\ db \in Schemas /\ db.version = 8 /\ lock = p
        /\ opener[p].statement > 0 => db.executingIndex = "none"
        /\ opener[p].statement > 2 => db.keyIndex = "unique" /\ ~KeyClash(executions)
    BY <1>1, <2>1 DEF Tells, MigrationsTypeOK
  <2> QED BY <2>1, <2>2 DEF VersionTells, VersionOfRows
<1>3. ASSUME Statement(p, 8, 0, [db EXCEPT !.executingIndex = "none"])
      PROVE  MigrationsInv'
  <2> DEFINE newDb == [db EXCEPT !.executingIndex = "none"]
  <2>1. /\ newDb \in Schemas /\ newDb.version = 8 /\ newDb.tables = db.tables
        /\ newDb.columns = db.columns /\ newDb.executingIndex = "none"
    BY <1>2 DEF Schemas, Indexes
  <2> HIDE DEF newDb
  <2>2. Statement(p, 8, 0, newDb)
    BY <1>3 DEF newDb
  <2>3. /\ db' = newDb /\ UNCHANGED <<tokens, executions, lock, calm>>
        /\ opener'[p].version = 8 /\ opener'[p].statement = 1
    BY <1>2, <2>1, <2>2, StatementMoves
  <2>4. VersionTells' /\ Tells(p)'
    BY <1>2, <2>1, <2>3 DEF VersionTells, VersionOfRows, Tells
  <2> QED BY <1>2, <2>1, <2>2, <2>4, StatementKeepsInvariant
<1>4. ASSUME Statement(p, 8, 1, [db EXCEPT !.keyIndex = "none"])
      PROVE  MigrationsInv'
  <2> DEFINE newDb == [db EXCEPT !.keyIndex = "none"]
  <2>1. /\ newDb \in Schemas /\ newDb.version = 8 /\ newDb.tables = db.tables
        /\ newDb.columns = db.columns /\ newDb.executingIndex = db.executingIndex
    BY <1>2 DEF Schemas, Indexes
  <2> HIDE DEF newDb
  <2>2. Statement(p, 8, 1, newDb) /\ opener[p].statement = 1
    BY <1>4 DEF newDb, Statement, Runs
  <2>3. /\ db' = newDb /\ UNCHANGED <<tokens, executions, lock, calm>>
        /\ opener'[p].version = 8 /\ opener'[p].statement = 2
    BY <1>2, <2>1, <2>2, StatementMoves
  <2>4. VersionTells' /\ Tells(p)'
    BY <1>2, <2>1, <2>2, <2>3 DEF VersionTells, VersionOfRows, Tells
  <2> QED BY <1>2, <2>1, <2>2, <2>4, StatementKeepsInvariant
<1>5. ASSUME ~KeyClash(executions), Statement(p, 8, 2, [db EXCEPT !.keyIndex = "unique"])
      PROVE  MigrationsInv'
  <2> DEFINE newDb == [db EXCEPT !.keyIndex = "unique"]
  <2>1. /\ newDb \in Schemas /\ newDb.version = 8 /\ newDb.tables = db.tables
        /\ newDb.columns = db.columns /\ newDb.executingIndex = db.executingIndex
        /\ newDb.keyIndex = "unique"
    BY <1>2 DEF Schemas, Indexes
  <2> HIDE DEF newDb
  <2>2. Statement(p, 8, 2, newDb) /\ opener[p].statement = 2
    BY <1>5 DEF newDb, Statement, Runs
  <2>3. /\ db' = newDb /\ UNCHANGED <<tokens, executions, lock, calm>>
        /\ opener'[p].version = 8 /\ opener'[p].statement = 3
    BY <1>2, <2>1, <2>2, StatementMoves
  <2>4. ~KeyClash(executions)'
    BY <1>5, <2>3 DEF KeyClash
  <2>5. VersionTells' /\ Tells(p)'
    BY <1>2, <2>1, <2>2, <2>3, <2>4 DEF VersionTells, VersionOfRows, Tells
  <2> QED BY <1>2, <2>1, <2>2, <2>5, StatementKeepsInvariant
<1>6. ASSUME Statement(p, 8, 3, [db EXCEPT !.version = 9])
      PROVE  MigrationsInv'
  <2> DEFINE newDb == [db EXCEPT !.version = 9]
  <2>1. /\ newDb \in Schemas /\ newDb.version = 9 /\ newDb.tables = db.tables
        /\ newDb.columns = db.columns /\ newDb.executingIndex = db.executingIndex
        /\ newDb.keyIndex = db.keyIndex
    BY <1>2 DEF Schemas
  <2> HIDE DEF newDb
  <2>2. Statement(p, 8, 3, newDb) /\ opener[p].statement = 3
    BY <1>6 DEF newDb, Statement, Runs
  <2>3. /\ db' = newDb /\ UNCHANGED <<tokens, executions, lock, calm>>
        /\ opener'[p].version = 9 /\ opener'[p].statement = 0
    BY <1>2, <2>1, <2>2, StatementMoves
  <2>4. ~KeyClash(executions)'
    BY <1>2, <2>2, <2>3 DEF KeyClash
  <2>5. Current'
    BY <1>2, <2>1, <2>2, <2>3, <2>4, StatusLists DEF Current
  <2>6. VersionTells' /\ Tells(p)'
    BY <1>2, <2>1, <2>2, <2>3, <2>5, StatusLists DEF VersionTells, VersionOfRows, Tells
  <2> QED BY <1>2, <2>1, <2>2, <2>6, StatementKeepsInvariant
<1> QED BY <1>3, <1>4, <1>5, <1>6 DEF IndexKeys

----------------------------------------------------------------------------
\* A process that is through finds the current schema, and keeps the lock.
LEMMA OpenedKeepsInvariant ==
  ASSUME MigrationsInv, NEW p \in Processes, Opened(p)
  PROVE  MigrationsInv'
<1>1. opener[p].at = "migrating" /\ opener[p].version = 9
  BY DEF Opened, Runs
<1>2. opener \in [Processes -> Openers] /\ db \in Schemas
  BY DEF MigrationsInv, MigrationsTypeOK
<1>3. db.version = 9 /\ lock = p /\ \A q \in Processes \ {p} : opener[q].at = "down"
  BY <1>1, Alone
<1>4. /\ opener' \in [Processes -> Openers] /\ opener'[p].at = "up"
      /\ \A q \in Processes \ {p} : opener'[q] = opener[q]
  BY <1>2 DEF Opened, Openers
<1>5. MigrationsTypeOK' /\ db' = db
  BY <1>4 DEF MigrationsInv, MigrationsTypeOK, Opened, dbVars
<1>6. VersionTells'
  BY DEF MigrationsInv, Opened, dbVars, VersionTells, VersionOfRows, NoTokens,
         NoExecutions, Current, KeyClash
<1>7. StatementTells' /\ OpenedIsLeftAlone'
  BY <1>3, <1>4, <1>5 DEF StatementTells, Tells, OpenedIsLeftAlone, Opened
<1> QED BY <1>5, <1>6, <1>7 DEF MigrationsInv

\* Who has the file locked is not down, so whoever leaves is the only one there:
\* the database stays as it is, and everybody is down.
LEMMA LeaveKeepsInvariant ==
  ASSUME MigrationsInv, NEW p \in Processes, opener[p].at # "down", Leave(p),
         calm' = calm
  PROVE  MigrationsInv'
<1>1. opener \in [Processes -> Openers]
  BY DEF MigrationsInv, MigrationsTypeOK
<1>2. \A q \in Processes \ {p} : opener[q].at = "down"
  <2>1. lock = p
    BY <1>1, Alone DEF MigrationsInv, OpenedIsLeftAlone, Openers
  <2>2. \A q \in Processes \ {p} : opener[q].at # "up" /\ opener[q].at # "migrating"
    BY <2>1, Alone DEF MigrationsInv, OpenedIsLeftAlone
  <2> QED BY <1>1, <2>2 DEF Openers
<1>3. /\ opener' \in [Processes -> Openers] /\ opener'[p].at = "down"
      /\ \A q \in Processes \ {p} : opener'[q] = opener[q]
  BY <1>1 DEF Leave, Down, Openers
<1>4. MigrationsTypeOK'
  BY <1>3 DEF MigrationsInv, MigrationsTypeOK, Leave, dbVars
<1>5. VersionTells'
  BY DEF MigrationsInv, Leave, dbVars, VersionTells, VersionOfRows, NoTokens,
         NoExecutions, Current, KeyClash
<1>6. StatementTells' /\ OpenedIsLeftAlone'
  BY <1>2, <1>3 DEF StatementTells, Tells, MigrationsInv, OpenedIsLeftAlone, Leave, dbVars
<1> QED BY <1>4, <1>5, <1>6 DEF MigrationsInv

\* All steps together.
LEMMA StepKeepsInvariant == MigrationsInv /\ [Next]_vars => MigrationsInv'
<1> SUFFICES ASSUME MigrationsInv, [Next]_vars PROVE MigrationsInv'
  OBVIOUS
<1>1. ASSUME NEW p \in Processes, Start(p) PROVE MigrationsInv'
  <2>1. CASE Open(p) BY <2>1, OpenKeepsInvariant
  <2>2. CASE Migrate(p)
    BY <2>2, RebuildKeepsInvariant, CreateKeepsInvariant, IndexExecutingKeepsInvariant,
       AddColumnsKeepsInvariant, IndexKeysKeepsInvariant DEF Migrate
  <2>3. CASE Opened(p) BY <2>3, OpenedKeepsInvariant
  <2>4. CASE Fail(p)
    <3>1. opener[p].at = "migrating"
      BY <2>4 DEF Fail, StatementFails, Runs
    <3> QED BY <2>4, <3>1, LeaveKeepsInvariant DEF Fail
  <2> QED BY <1>1, <2>1, <2>2, <2>3, <2>4 DEF Start
<1>2. ASSUME NEW p \in Processes, Crash(p) \/ Exit(p) PROVE MigrationsInv'
  BY <1>2, LeaveKeepsInvariant DEF Crash, Exit
<1>4. CASE CalmDown
  BY <1>4 DEF CalmDown, dbVars, MigrationsInv, MigrationsTypeOK, VersionTells, VersionOfRows,
     NoTokens, NoExecutions, Current, KeyClash, StatementTells, Tells, OpenedIsLeftAlone
<1>3. CASE UNCHANGED vars
  BY <1>3 DEF vars, dbVars, MigrationsInv, MigrationsTypeOK, VersionTells, VersionOfRows,
     NoTokens, NoExecutions, Current, KeyClash, StatementTells, Tells, OpenedIsLeftAlone
<1> QED BY <1>1, <1>2, <1>3, <1>4 DEF Next

\* The invariant of the migrations (utils/db.ts, runApprovalsMigrations).
THEOREM MigrationsInvariant == Spec => []MigrationsInv
<1>1. Init => MigrationsInv
  BY InitEstablishesInvariant
<1>2. MigrationsInv /\ [Next]_vars => MigrationsInv'
  BY StepKeepsInvariant
<1> QED BY <1>1, <1>2, PTL DEF Spec

\* Whatever version was found and however often a migration was cut short:
\* a process that came up has the tables, the columns, the unique index and
\* the statuses that the stores rely on.
THEOREM OpenedDatabasesAreCurrent == Spec => []OpenedIsCurrent
<1>1. MigrationsInv => OpenedIsCurrent
  BY DEF MigrationsInv, OpenedIsLeftAlone, VersionTells, OpenedIsCurrent
<1> QED BY <1>1, MigrationsInvariant, PTL

\* No token gains by a migration: what was spent or refused stays so, and
\* none is lost (the CASE expressions of steps 3 to 5).
THEOREM TokensMeanTheSame == Spec => TokensKeepTheirMeaning
<1> DEFINE Kept == \A t \in Tokens :
             \/ Meaning(tokens'[t]) = Meaning(tokens[t])
             \/ /\ tokens[t].status = "pending" /\ tokens[t].hash = "none"
                /\ tokens'[t].status = "expired"
<1>1. MigrationsInv /\ [Next]_vars => [Kept]_vars
  <2> SUFFICES ASSUME MigrationsInv, Next PROVE Kept
    OBVIOUS
  <2>1. ASSUME NEW p \in Processes, NEW version \in 1..5, RebuildApprovals(p, version)
        PROVE  Kept
    <3>1. VersionOfRows = version
      <4>1. opener[p].at = "migrating" /\ opener[p].version = version
        BY <2>1 DEF RebuildApprovals, Runs
      <4> QED BY <4>1, Alone DEF VersionOfRows
    <3> SUFFICES ASSUME NEW t \in Tokens, tokens[t] # Absent
                 PROVE  \/ Meaning(tokens'[t]) = Meaning(tokens[t])
                        \/ /\ tokens[t].status = "pending" /\ tokens[t].hash = "none"
                           /\ tokens'[t].status = "expired"
      BY <2>1 DEF RebuildApprovals
    <3>2. tokens'[t] = MigratedToken(version, tokens[t])
      BY <2>1 DEF RebuildApprovals
    <3>3. tokens[t].status \in StatusesOf(version) /\ tokens[t].hash \in Hashes
      BY <3>1 DEF MigrationsInv, MigrationsTypeOK, VersionTells
    <3> QED BY <3>2, <3>3, MigratedTokenMeans
  <2>2. (UNCHANGED tokens) => Kept
    OBVIOUS
  <2>3. (\E p \in Processes, version \in 1..5 : RebuildApprovals(p, version)) \/ UNCHANGED tokens
    BY DEF Next, Start, Open, Migrate, CreateDatabase, IndexExecuting, AddColumns, IndexKeys,
       Statement, Opened, Fail, Crash, Exit, CalmDown, Leave, dbVars
  <2> QED BY <2>1, <2>2, <2>3
<1> QED BY <1>1, MigrationsInvariant, PTL DEF Spec, TokensKeepTheirMeaning
=============================================================================

----------------------------- MODULE Migrations ------------------------------
(***************************************************************************)
(* Opening approvals.db (utils/db.ts): every process that starts takes the *)
(* exclusive lock and brings the database from whatever version it has to  *)
(* version 9.  The steps 1 to 5 are transactions that rebuild the          *)
(* approvals table; the creation of a new database and the steps 6 to 8    *)
(* are statements that commit one by one, the version last.  A statement   *)
(* that fails, or a crash, ends the process; it is started again.          *)
(*                                                                         *)
(* The database is in WAL mode: after the migration its process goes back  *)
(* to the normal locking mode, but keeps the file locked, shared at least, *)
(* until it exits.  A process that starts meanwhile asks for the exclusive *)
(* lock in vain until its time is over, exits, and is started again.       *)
(*                                                                         *)
(* Of a token its status matters and whether it has a request hash, of an  *)
(* execution its key and whether it is executing.  Nobody uses a database  *)
(* before it is opened.  The schema of version 1 is not in the repository: *)
(* its statuses are those that step 1 can copy.                            *)
(***************************************************************************)
EXTENDS Naturals, FiniteSets

CONSTANTS
  Processes, NoProcess,
  Tokens, Executions, Keys

ASSUME MigrationsAssumption == NoProcess \notin Processes

VARIABLES
  db,          \* the schema: user_version, tables, columns added, indexes
  tokens,      \* rows of approvals
  executions,  \* rows of executions
  lock,        \* the process that has the file locked, from its start to its end
  opener,      \* per process: what its start has come to
  calm         \* no process dies in a migration any more

dbVars == <<db, tokens, executions>>
vars == <<dbVars, lock, opener, calm>>

StatusesOf(version) ==
  CASE version \in {1, 2} ->
         {"pending", "approved", "rejected", "expired", "executing", "completed", "failed"}
    [] version = 3 ->
         {"pending", "approved", "rejected", "expired", "executing", "completed",
          "failed", "stuck"}
    [] version = 4 ->
         {"pending", "approved", "rejected", "expired", "executing", "completed",
          "failed", "reconciling"}
    [] version = 5 ->
         {"pending", "approved", "rejected", "expired", "executing", "unknown_outcome",
          "completed", "failed_terminal", "cancelled"}
    [] version \in 6..9 -> {"pending", "approved", "consumed", "expired"}
Statuses == UNION {StatusesOf(version) : version \in 1..9}

Hashes == {"none", "some"}   \* request_hash: empty or not
Absent == [status |-> "absent"]
TokenRows(version) ==
  [status : StatusesOf(version), hash : IF version = 1 THEN {"none"} ELSE Hashes]
ExecutionRows == [status : {"executing", "other"}, key : Keys]

\* Two rows that a UNIQUE index on the key, or on the key of what executes,
\* does not allow.
KeyClash(rows) ==
  \E e, f \in Executions :
    e # f /\ rows[e] # Absent /\ rows[f] # Absent /\ rows[e].key = rows[f].key
ExecutingClash(rows) ==
  \E e, f \in Executions :
    /\ e # f /\ rows[e] # Absent /\ rows[f] # Absent /\ rows[e].key = rows[f].key
    /\ rows[e].status = "executing" /\ rows[f].status = "executing"

Indexes == {"none", "plain", "unique"}
Schemas ==
  [version : 0..9, tables : SUBSET {"approvals", "executions"}, columns : 0..5,
   keyIndex : Indexes, executingIndex : Indexes]
NewDatabase ==
  [version |-> 0, tables |-> {}, columns |-> 0,
   keyIndex |-> "none", executingIndex |-> "none"]

\* What a server of an earlier version may have left; one of version 6 may
\* lack the index that step 6 is there to add.
LeftBy(version) ==
  [version : {IF version = 1 THEN 0 ELSE version},
   tables : {IF version >= 6 THEN {"approvals", "executions"} ELSE {"approvals"}},
   columns : {IF version = 8 THEN 5 ELSE 0},
   keyIndex : {IF version >= 6 THEN "plain" ELSE "none"},
   executingIndex : CASE version < 6 -> {"none"}
                      [] version = 6 -> {"none", "unique"}
                      [] version > 6 -> {"unique"}]

Openers == [at : {"down", "migrating", "up"}, version : 0..9, statement : 0..5]
Down == [at |-> "down", version |-> 0, statement |-> 0]

MigrationsTypeOK ==
  /\ db \in Schemas
  /\ tokens \in [Tokens -> [status : Statuses, hash : Hashes] \cup {Absent}]
  /\ executions \in [Executions -> ExecutionRows \cup {Absent}]
  /\ lock \in Processes \cup {NoProcess}
  /\ opener \in [Processes -> Openers]
  /\ calm \in BOOLEAN

Init ==
  /\ \/ /\ db = NewDatabase
        /\ tokens = [t \in Tokens |-> Absent]
        /\ executions = [e \in Executions |-> Absent]
     \/ \E version \in 1..8 :
          /\ db \in LeftBy(version)
          /\ tokens \in [Tokens -> TokenRows(version) \cup {Absent}]
          /\ executions \in [Executions -> (IF version < 6 THEN {} ELSE ExecutionRows)
                                             \cup {Absent}]
          /\ db.executingIndex = "unique" => ~ExecutingClash(executions)
  /\ lock = NoProcess
  /\ opener = [p \in Processes |-> Down]
  /\ calm = FALSE

----------------------------------------------------------------------------
Reached(version, statement) ==
  [at |-> "migrating", version |-> version, statement |-> statement]

\* withExclusiveMigrationLock, if nobody has the file locked, and the version
\* that runApprovalsMigrations finds: an unversioned database that has the table counts as version 1.
Open(p) ==
  /\ opener[p].at = "down" /\ lock = NoProcess
  /\ lock' = p
  /\ opener' = [opener EXCEPT ![p] =
       Reached(IF db.version = 0 /\ "approvals" \in db.tables THEN 1 ELSE db.version, 0)]
  /\ UNCHANGED <<dbVars, calm>>

Runs(p, version, statement) ==
  /\ opener[p].at = "migrating"
  /\ opener[p].version = version /\ opener[p].statement = statement

\* Mutant: what failed or was rejected may be asked for again.
MigratedTokenReopens(version, token) ==
  [token EXCEPT !.status =
     IF version = 5 /\ token.status \notin {"approved", "expired"} THEN "pending" ELSE @]

\* The token that step version -> version + 1 copies.
MigratedToken(version, token) ==
  [status |->
     CASE version = 3 /\ token.status = "stuck" -> "failed"
       [] version = 4 /\ token.status = "failed" -> "failed_terminal"
       [] version = 4 /\ token.status = "reconciling" -> "unknown_outcome"
       [] version = 5 /\ token.status = "rejected" -> "expired"
       [] version = 5 /\ token.status \in
            {"executing", "unknown_outcome", "completed", "failed_terminal", "cancelled"}
            -> "consumed"
       [] version \in {3, 4} /\ token.status = "pending" /\ token.hash = "none" -> "expired"
       [] OTHER -> token.status,
   hash |-> IF version = 1 THEN "none" ELSE token.hash]

\* Steps 1 to 5, each one transaction.  Step 5 creates the executions table,
\* and fails when there is one.
RebuildApprovals(p, version) ==
  /\ version \in 1..5 /\ Runs(p, version, 0)
  /\ version = 5 => "executions" \notin db.tables
  /\ tokens' = [t \in Tokens |->
       IF tokens[t] = Absent THEN Absent ELSE MigratedToken(version, tokens[t])]
  /\ db' = IF version = 5
           THEN [db EXCEPT !.version = 6, !.tables = {"approvals", "executions"},
                           !.keyIndex = "plain", !.executingIndex = "unique"]
           ELSE [db EXCEPT !.version = version + 1]
  /\ opener' = [opener EXCEPT ![p] = Reached(version + 1, 0)]
  /\ UNCHANGED <<executions, lock, calm>>

\* The statements that commit one by one.
Statement(p, version, statement, newDb) ==
  /\ Runs(p, version, statement)
  /\ db' = newDb
  /\ opener' = [opener EXCEPT ![p] =
       IF newDb.version = db.version THEN Reached(version, statement + 1)
       ELSE Reached(newDb.version, 0)]
  /\ UNCHANGED <<tokens, executions, lock, calm>>

\* APPROVALS_SCHEMA_V9, of which the last index is the one that matters.
CreateDatabase(p) ==
  \/ Statement(p, 0, 0, [db EXCEPT !.tables = {"approvals"}])
  \/ Statement(p, 0, 1, [db EXCEPT !.tables = {"approvals", "executions"}, !.columns = 5])
  \/ Statement(p, 0, 2, [db EXCEPT !.keyIndex = "unique"])
  \/ Statement(p, 0, 3, [db EXCEPT !.version = 9])

IndexExecuting(p) ==
  \/ /\ db.executingIndex = "none" => ~ExecutingClash(executions)
     /\ Statement(p, 6, 0, [db EXCEPT !.executingIndex = "unique"])
  \/ Statement(p, 6, 1, [db EXCEPT !.version = 7])

\* Mutant: the version is set before the last column is added.
AddColumnsVersionFirst(p) ==
  \/ \E column \in 0..4 :
       /\ db.columns = column
       /\ Statement(p, 7, column,
            [db EXCEPT !.columns = column + 1, !.version = IF column = 3 THEN 8 ELSE @])
  \/ Statement(p, 7, 5, [db EXCEPT !.version = 8])

\* Adding a column that is there fails.
AddColumns(p) ==
  \/ \E column \in 0..4 :
       db.columns = column /\ Statement(p, 7, column, [db EXCEPT !.columns = column + 1])
  \/ Statement(p, 7, 5, [db EXCEPT !.version = 8])

\* Mutant: dropping an index that is not there fails.
IndexKeysOnce(p) ==
  \/ db.executingIndex # "none" /\ Statement(p, 8, 0, [db EXCEPT !.executingIndex = "none"])
  \/ Statement(p, 8, 1, [db EXCEPT !.keyIndex = "none"])
  \/ ~KeyClash(executions) /\ Statement(p, 8, 2, [db EXCEPT !.keyIndex = "unique"])
  \/ Statement(p, 8, 3, [db EXCEPT !.version = 9])

\* Mutant: the version is set before the index is created.
IndexKeysVersionFirst(p) ==
  \/ Statement(p, 8, 0, [db EXCEPT !.executingIndex = "none"])
  \/ Statement(p, 8, 1, [db EXCEPT !.keyIndex = "none"])
  \/ Statement(p, 8, 2, [db EXCEPT !.version = 9])
  \/ ~KeyClash(executions) /\ Statement(p, 9, 0, [db EXCEPT !.keyIndex = "unique"])

IndexKeys(p) ==
  \/ Statement(p, 8, 0, [db EXCEPT !.executingIndex = "none"])
  \/ Statement(p, 8, 1, [db EXCEPT !.keyIndex = "none"])
  \/ ~KeyClash(executions) /\ Statement(p, 8, 2, [db EXCEPT !.keyIndex = "unique"])
  \/ Statement(p, 8, 3, [db EXCEPT !.version = 9])

\* The migration is through.  NORMAL locking does not unlock a file in WAL mode.
Opened(p) ==
  /\ Runs(p, 9, 0)
  /\ opener' = [opener EXCEPT ![p].at = "up"]
  /\ UNCHANGED <<dbVars, lock, calm>>

\* The statement at hand fails: the transaction is rolled back with the
\* process, which exits.
StatementFails(p) ==
  \/ Runs(p, 5, 0) /\ "executions" \in db.tables
  \/ Runs(p, 6, 0) /\ db.executingIndex = "none" /\ ExecutingClash(executions)
  \/ \E column \in 0..4 : Runs(p, 7, column) /\ db.columns # column
  \/ Runs(p, 8, 2) /\ KeyClash(executions)

Leave(p) ==
  /\ opener' = [opener EXCEPT ![p] = Down]
  /\ lock' = NoProcess
  /\ UNCHANGED dbVars

Fail(p) == StatementFails(p) /\ Leave(p) /\ UNCHANGED calm

Crash(p) ==
  /\ opener[p].at = "migrating" /\ ~calm
  /\ Leave(p) /\ UNCHANGED calm

\* A server that was up stops or dies (external).
Exit(p) ==
  /\ opener[p].at = "up"
  /\ Leave(p) /\ UNCHANGED calm

\* Processes may stop dying in migrations, or never do (external).
CalmDown == ~calm /\ calm' = TRUE /\ UNCHANGED <<dbVars, lock, opener>>

Migrate(p) ==
  \/ \E version \in 1..5 : RebuildApprovals(p, version)
  \/ CreateDatabase(p) \/ IndexExecuting(p) \/ AddColumns(p) \/ IndexKeys(p)

Start(p) == Open(p) \/ Migrate(p) \/ Opened(p) \/ Fail(p)

Next ==
  \/ \E p \in Processes : Start(p) \/ Crash(p) \/ Exit(p)
  \/ CalmDown

\* A process goes on with its start, and is started again when it fails, dies
\* or found the database locked.
Spec == Init /\ [][Next]_vars /\ \A p \in Processes : WF_vars(Start(p))

----------------------------------------------------------------------------
\* A database that a process has opened is what the stores rely on, with the
\* unique index that beginExecution needs and no status they do not know.
Current ==
  /\ db.version = 9 /\ db.tables = {"approvals", "executions"} /\ db.columns = 5
  /\ db.keyIndex = "unique" /\ db.executingIndex = "none" /\ ~KeyClash(executions)
  /\ \A t \in Tokens : tokens[t] = Absent \/ tokens[t].status \in StatusesOf(9)

OpenedIsCurrent == \A p \in Processes : opener[p].at = "up" => Current

\* Why: what each version, and each statement of the steps in between, may
\* rely on.
NoTokens == \A t \in Tokens : tokens[t] = Absent
NoExecutions == \A e \in Executions : executions[e] = Absent
VersionOfRows == IF db.version = 0 THEN 1 ELSE db.version
VersionTells ==
  /\ \A t \in Tokens : tokens[t] = Absent \/ tokens[t].status \in StatusesOf(VersionOfRows)
  /\ db.version < 6 => NoExecutions /\ db.executingIndex = "none"
  /\ db.version = 0 /\ "approvals" \notin db.tables => db.tables = {} /\ NoTokens
  /\ db.version \in 1..5 => "approvals" \in db.tables
  /\ db.version >= 6 => db.tables = {"approvals", "executions"}
  /\ db.version = 8 => db.columns = 5
  /\ db.version = 9 => Current

Tells(p) ==
  opener[p].at = "migrating" =>
    LET version == opener[p].version
        statement == opener[p].statement IN
    /\ lock = p
    /\ \/ db.version = version
       \/ db.version = 0 /\ "approvals" \in db.tables /\ version = 1
    /\ version = 0 =>
         /\ NoTokens
         /\ statement >= 1 <=> "approvals" \in db.tables
         /\ statement >= 2 <=> "executions" \in db.tables
         /\ statement >= 2 => db.columns = 5
         /\ statement >= 3 => db.keyIndex = "unique"
    /\ version = 7 /\ statement > 0 => statement = db.columns
    /\ version = 8 /\ statement > 0 => db.executingIndex = "none"
    /\ version = 8 /\ statement > 2 => db.keyIndex = "unique" /\ ~KeyClash(executions)
StatementTells == \A p \in Processes : Tells(p)

OpenedIsLeftAlone ==
  \A p \in Processes : opener[p].at = "up" => db.version = 9 /\ lock = p

MigrationsInv ==
  MigrationsTypeOK /\ VersionTells /\ StatementTells /\ OpenedIsLeftAlone

Meaning(token) ==
  CASE token.status \in {"absent", "pending", "approved"} -> token.status
    [] token.status \in {"rejected", "expired"} -> "refused"
    [] OTHER -> "spent"

\* No migration, crash or second start changes what a token is good for: none
\* is lost, what was spent or refused is never granted again, and only a
\* pending token that has no request hash is taken back.
TokensKeepTheirMeaning ==
  [][\A t \in Tokens :
       \/ Meaning(tokens'[t]) = Meaning(tokens[t])
       \/ /\ tokens[t].status = "pending" /\ tokens[t].hash = "none"
          /\ tokens'[t].status = "expired"]_vars

\* The shapes of a database that no start of a server gets past: the tables of
\* version 9 under an older version and nobody there to finish their creation,
\* some of the columns of step 7 and nobody there to add the others, and two
\* executions with one key.
Stranded ==
  \/ /\ db.version \in 0..5 /\ "executions" \in db.tables
     /\ ~\E p \in Processes, n \in 2..3 : Runs(p, 0, n)
  \/ /\ db.version = 7 /\ db.columns > 0
     /\ ~\E p \in Processes : Runs(p, 7, db.columns)
  \/ db.version \in 6..8 /\ KeyClash(executions)

\* A process dies in one of the two windows without a transaction.
DiesHalfway(p) ==
  /\ Crash(p)
  /\ Runs(p, 0, 2) \/ Runs(p, 0, 3) \/ \E column \in 1..5 : Runs(p, 7, column)

\* Deaths at other statements, failures and restarts in any number are survived:
\* once processes no longer die in migrations, there is again and again a server
\* that is up, unless the database is stranded.  A stranded one is never opened
\* again; only two keys that clash from the start, or a death halfway through the
\* first creation or step 7, strand one (runApprovalsMigrations).
OpenedUnlessStranded ==
  /\ calm ~> (Stranded \/ \E p \in Processes : opener[p].at = "up")
  /\ [](Stranded => [](\A p \in Processes : opener[p].at # "up"))
  /\ [][Stranded' => Stranded \/ \E p \in Processes : DiesHalfway(p)]_vars
=============================================================================

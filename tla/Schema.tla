------------------------------- MODULE Schema -------------------------------
(***************************************************************************)
(* Opening the store (psst-store/lib.rs): processes of different builds    *)
(* open one SQLite file, enable WAL, and migrate it forward under an       *)
(* exclusive transaction guarded by a checksummed ledger.                  *)
(*                                                                         *)
(* A migration is its SQL text; SHA-256 of the text is taken as the text   *)
(* itself, which is what a collision-free checksum tells apart.  A process *)
(* may die at any step, a migration may fail on the data it finds, and     *)
(* another application may claim a file that has no application id yet.    *)
(***************************************************************************)
EXTENDS Integers, FiniteSets, FiniteSetsExt, Sequences

CONSTANTS
    Opener,   \* processes that open the file
    Plan,     \* Plan[o]: the migrations embedded in o's build, in order
    Nobody,   \* no process holds the write lock
    Other,    \* a process of another application
    Files     \* the files opening may find: [owner, wal, ledger, objects]

\* A content of the file.  The files opening may find are whole: their tables
\* are those of their ledger, which has one row per version, in any numbering.
Fields == {"owner", "wal", "ledger", "objects"}
Whole(content) == content.objects = {row[2] : row \in content.ledger}

Keyed(ledger) ==
    /\ IsFiniteSet(ledger)
    /\ \A row \in ledger : row = <<row[1], row[2]>> /\ row[1] \in Int
    /\ \A row, twin \in ledger : row[1] = twin[1] => row = twin

ASSUME ProcessAssumption == Nobody \notin Opener /\ Other \notin Opener /\ Nobody # Other
ASSUME FilesAssumption ==
    \A f \in Files : /\ f = [field \in Fields |-> f[field]]
                      /\ f.wal \in BOOLEAN
                      /\ Whole(f)
                      /\ Keyed(f.ledger)

VARIABLES
    file,    \* committed content: application id, journal mode, ledger, objects
    lock,    \* who holds SQLite's write lock
    draft,   \* draft[o]: the content of o's open transaction, or Nobody
    pc,      \* where each process is in Store::open
    answer   \* what open returned

schemaVars == <<file, lock, draft, pc, answer>>

Sql == UNION {{Plan[o][v] : v \in DOMAIN Plan[o]} : o \in Opener}
ASSUME PlanAssumption == \A o \in Opener : Plan[o] \in Seq(Sql)

Rows(plan) == {<<v, plan[v]>> : v \in DOMAIN plan}

SchemaInit == /\ file \in Files
              /\ lock = Nobody
              /\ draft = [o \in Opener |-> Nobody]
              /\ pc = [o \in Opener |-> "idle"]
              /\ answer = [o \in Opener |-> "none"]

Refuse(o, error) == /\ pc' = [pc EXCEPT ![o] = "refused"]
                    /\ answer' = [answer EXCEPT ![o] = error]

EndTransaction(o) == /\ draft' = [draft EXCEPT ![o] = Nobody]
                     /\ lock' = IF lock = o THEN Nobody ELSE lock

Goto(o, step) == pc' = [pc EXCEPT ![o] = step] /\ UNCHANGED answer

----------------------------------------------------------------------------
(* Store::open.                                                            *)

VerifyApplicationId(content) == content.owner \in {"unclaimed", "psst"}

\* Before WAL a write lock also keeps readers and the change of mode out.
Blocked == ~file.wal /\ lock # Nobody

\* The application id is read before anything is written; busy_timeout bounds
\* the wait of that read.
OpenFile(o) ==
    /\ pc[o] = "idle"
    /\ \/ ~Blocked /\ VerifyApplicationId(file) /\ Goto(o, "wal")
       \/ ~Blocked /\ ~VerifyApplicationId(file) /\ Refuse(o, "UnexpectedApplicationId")
       \/ Blocked /\ Refuse(o, "Database")
    /\ UNCHANGED <<file, lock, draft>>

\* Retried while the file is busy; a file in WAL mode keeps it without a lock.
EnableWal(o) ==
    /\ pc[o] = "wal"
    /\ ~Blocked
    /\ file' = [file EXCEPT !.wal = TRUE]
    /\ Goto(o, "begin")
    /\ UNCHANGED <<lock, draft>>

Versions(ledger) == {row[1] : row \in ledger}

\* One row of the ledger, when all rows before it are in order.
VerifyRow(plan, ledger, v) ==
    IF v > Len(plan) THEN "FutureSchema"
    ELSE IF v # 1 + Cardinality({w \in Versions(ledger) : w < v})
         THEN "InvalidMigrationLedger"
    ELSE IF <<v, plan[v]>> \notin ledger THEN "MigrationChecksumMismatch"
    ELSE "Ok"

\* The first row out of order decides.
VerifyMigrationLedger(plan, ledger) ==
    LET wrong == {v \in Versions(ledger) : VerifyRow(plan, ledger, v) # "Ok"}
    IN  IF wrong = {} THEN "Ok" ELSE VerifyRow(plan, ledger, Min(wrong))

MigrateVerdict(o) ==
    IF ~VerifyApplicationId(file) THEN "UnexpectedApplicationId"
    ELSE VerifyMigrationLedger(Plan[o], file.ledger)

\* BEGIN EXCLUSIVE, the second look at the application id, and the ledger.
BeginExclusive(o) ==
    /\ pc[o] = "begin"
    /\ lock = Nobody
    /\ \/ /\ MigrateVerdict(o) = "Ok"
          /\ lock' = o
          /\ draft' = [draft EXCEPT ![o] = file]
          /\ Goto(o, "migrate")
       \/ /\ MigrateVerdict(o) # "Ok"
          /\ Refuse(o, MigrateVerdict(o))
          /\ UNCHANGED <<lock, draft>>
    /\ UNCHANGED file

NextVersion(content) == 1 + Cardinality(content.ledger)

Migrated(content, v, sql) ==
    [content EXCEPT !.objects = @ \cup {sql}, !.ledger = @ \cup {<<v, sql>>}]

\* One migration: its SQL and its ledger row.
Apply(o) ==
    /\ pc[o] = "migrate"
    /\ NextVersion(draft[o]) <= Len(Plan[o])
    /\ LET v == NextVersion(draft[o])
       IN  draft' = [draft EXCEPT ![o] = Migrated(@, v, Plan[o][v])]
    /\ UNCHANGED <<file, lock, pc, answer>>

\* Its SQL fails on the stored data, or the disk is full: the whole transaction
\* rolls back.
ApplyFails(o) ==
    /\ pc[o] = "migrate"
    /\ EndTransaction(o)
    /\ Refuse(o, "Database")
    /\ UNCHANGED file

\* The application id is written with the last migration.
Commit(o) ==
    /\ pc[o] = "migrate"
    /\ NextVersion(draft[o]) > Len(Plan[o])
    /\ file' = [draft[o] EXCEPT !.owner = "psst"]
    /\ EndTransaction(o)
    /\ pc' = [pc EXCEPT ![o] = "open"]
    /\ answer' = [answer EXCEPT ![o] = "Ok"]

\* Faulty: waits for the lock as long as it takes.
WaitForever(o) == FALSE /\ UNCHANGED schemaVars

\* OPEN_BUSY_TIMEOUT passes while another process holds the lock.
GiveUp(o) ==
    /\ \/ pc[o] = "wal" /\ Blocked
       \/ pc[o] = "begin" /\ lock # Nobody
    /\ Refuse(o, "Database")
    /\ UNCHANGED <<file, lock, draft>>

\* Faulty: a schema that is at least the build's is ready.
ReadyOrNewer(o) == Max(Versions(file.ledger) \cup {0}) >= Len(Plan[o])

\* readiness: only the largest recorded version is compared.
Readiness(o) == Max(Versions(file.ledger) \cup {0}) = Len(Plan[o])

\* The process ends or dies, and may open the file again.
Exit(o) ==
    /\ pc[o] # "idle"
    /\ pc' = [pc EXCEPT ![o] = "idle"]
    /\ answer' = [answer EXCEPT ![o] = "none"]
    /\ EndTransaction(o)
    /\ UNCHANGED file

\* Another application writes to a file that is not yet psst's ...
OtherBegins ==
    /\ file.owner # "psst"
    /\ lock = Nobody
    /\ lock' = Other
    /\ UNCHANGED <<file, draft, pc, answer>>

\* ... and makes it its own.
OtherCommits ==
    /\ lock = Other
    /\ lock' = Nobody
    /\ file' = [file EXCEPT !.owner = "other"]
    /\ UNCHANGED <<draft, pc, answer>>

----------------------------------------------------------------------------
\* What an opener does of itself, in bounded time.
Step(o) == EnableWal(o) \/ BeginExclusive(o) \/ Apply(o) \/ Commit(o) \/ GiveUp(o)

SchemaNext == \/ \E o \in Opener : \/ OpenFile(o)
                                   \/ Step(o)
                                   \/ ApplyFails(o)
                                   \/ Exit(o)
              \/ OtherBegins
              \/ OtherCommits

SchemaSpec == SchemaInit /\ [][SchemaNext]_schemaVars

\* A started open runs on: nothing in it waits without a bound.
FairSchemaSpec == SchemaSpec /\ \A o \in Opener : WF_schemaVars(Step(o))

----------------------------------------------------------------------------
(* What opening promises.                                                  *)

\* The types of the variables; exactly the process that migrates holds the lock
\* and has an open transaction.
SchemaTypeOK ==
    /\ \A content \in ({file} \cup {draft[o] : o \in Opener}) \ {Nobody} :
          /\ DOMAIN content = Fields
          /\ content.owner \in {"unclaimed", "psst", "other"}
          /\ content.wal \in BOOLEAN
          /\ content.objects \subseteq Sql
    /\ pc \in [Opener -> {"idle", "wal", "begin", "migrate", "open", "refused"}]
    /\ \A o \in Opener : pc[o] = "migrate" <=> lock = o
    /\ \A o \in Opener : pc[o] = "migrate" <=> draft[o] # Nobody

\* At every moment, and so after a crash between any two statements of a
\* migration, the committed tables are exactly those of the committed ledger:
\* a failed migration leaves neither a version nor partial schema.
NeverHalfMigrated == Whole(file)

\* While a store is open its build's migrations are all recorded, in order and
\* with the build's own text, whatever other builds did to the file since; and
\* the file carries psst's application id.
OpenMeansCurrent ==
    \A o \in Opener : pc[o] = "open" =>
        /\ file.owner = "psst"
        /\ {row \in file.ledger : row[1] <= Len(Plan[o])} = Rows(Plan[o])

\* Migrations go forward only: no build, older, newer or with edited texts,
\* removes or rewrites what another one recorded.
ForwardOnly == [][/\ file.ledger \subseteq file'.ledger
                  /\ file.objects \subseteq file'.objects]_schemaVars

\* A file that another application claimed while psst was opening it gets no
\* table, no ledger row and no psst application id: migrate reads the id again
\* under the lock.
ForeignSchemaUntouched ==
    [][file.owner = "other" => file' = [file EXCEPT !.wal = @ \/ file'.wal]]_schemaVars

\* A store left open while a newer build upgraded the file is no longer ready:
\* readiness answers Ok only when the ledger is exactly the build's plan.
StaleStoreIsNotReady ==
    \A o \in Opener : pc[o] = "open" =>
        (Readiness(o) <=> file.ledger = Rows(Plan[o]))

\* The committed file is never half migrated, an open store has its build's
\* schema, and one that a newer build overtook is not ready (open, readiness).
StoresAreSound == NeverHalfMigrated /\ OpenMeansCurrent /\ StaleStoreIsNotReady

\* Store::open returns: a started open succeeds, is refused or dies, also when
\* other processes open the same file again and again.
OpenReturns ==
    \A o \in Opener : pc[o] \in {"wal", "begin", "migrate"}
                      ~> pc[o] \in {"open", "refused", "idle"}

\* A file of another application is not changed at all, its journal mode
\* included.
ForeignUntouched == [][file.owner = "other" => file' = file]_schemaVars
=============================================================================

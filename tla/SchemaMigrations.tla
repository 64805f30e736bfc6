-------------------------- MODULE SchemaMigrations --------------------------
(***************************************************************************)
(* The managed migrations of the backend's database: the schema, the       *)
(* ledger schema_migrations, and the processes that bring the schema up to *)
(* date (a deploy command or a development server) or roll one migration   *)
(* back.  MySQL commits every schema statement at once, nothing locks the  *)
(* migrations of one process against those of another, and a process may   *)
(* die between two statements.                                             *)
(***************************************************************************)
EXTENDS Naturals, SequencesExt

CONSTANTS
    Hosts,         \* the processes that may run at the same time
    MaxRollbacks,  \* bound: rollbacks an operator asks for
    MaxDeaths      \* bound: processes killed between two of their steps

VARIABLES
    schema,      \* the tables, columns and indexes that exist
    ledger,      \* the migrations recorded as executed
    businessRows,\* users, stalls, products or orders are stored
    duplicates,  \* the legacy rows a unique index would refuse
    settlement,  \* the settlement columns of the orders taken so far
    migration,   \* the migrations each process is carrying out
    overlapped,  \* two processes migrated at the same time
    rollbacks,   \* the rollbacks started
    deaths       \* the processes killed

schemaVars == <<schema, ledger, businessRows, duplicates, settlement>>
dataVars == <<businessRows, duplicates, settlement>>
-----------------------------------------------------------------------------
(* The migration files, in the order of their names.  A migration is a     *)
(* sequence of phases: each reads what exists and then adds what it found  *)
(* missing, one statement at a time.  An object <<m, p, i>> is the i-th    *)
(* table, column or index of phase p of migration m; a phase of several    *)
(* alike objects is represented by two.                                    *)

Migrations == <<"baseline", "order_indexes", "product_columns", "audit_columns",
                "one_stall_per_cashier", "settlement", "one_stall_per_chat">>
Names == ToSet(Migrations)

PhaseSizes(m) ==
    CASE m = "baseline" -> <<2>>
      [] m = "order_indexes" -> <<2>>
      [] m = "product_columns" -> <<2>>
      [] m = "audit_columns" -> <<2, 2>>
      [] m = "one_stall_per_cashier" -> <<1>>
      [] m = "settlement" -> <<1, 2>>
      [] m = "one_stall_per_chat" -> <<1, 1>>

Phase(m, p) == {<<m, p, i>> : i \in 1..PhaseSizes(m)[p]}
Objects(m) == UNION {Phase(m, p) : p \in 1..Len(PhaseSizes(m))}
AllObjects == UNION {Objects(m) : m \in Names}

\* The unique index a migration checks the rows for before it adds it.
UniqueOver(m) == CASE m = "one_stall_per_cashier" -> {"cashier"}
                   [] m = "one_stall_per_chat" -> {"chat"}
                   [] OTHER -> {}

Pending == Names \ ledger
LastExecuted == SelectLastInSeq(Migrations, LAMBDA m : m \in ledger)

\* pc: begin (read what is there), add, log, down (remove), done or failed
Idle == [pc |-> "idle", todo |-> {}, phase |-> 0, missing |-> {}]
Migrating(h) == migration[h].pc \in {"begin", "add", "log", "down"}
Ended(h) == migration[h].pc \in {"done", "failed"}

Init ==
    \* an empty database, one of before the managed migrations, or an old one
    /\ \/ schema = {} /\ businessRows = FALSE /\ duplicates = {}
       \/ /\ schema \in {Objects("baseline"), {<<"baseline", 1, 1>>}}
          /\ businessRows = TRUE
          /\ duplicates \in {{}, {"cashier"}, {"chat"}}
    /\ ledger = {}
    /\ settlement = "none"
    /\ migration = [h \in Hosts |-> Idle]
    /\ overlapped = FALSE
    /\ rollbacks = 0
    /\ deaths = 0
-----------------------------------------------------------------------------
\* Of a set of migrations, the one whose name comes first.
First(S) == Migrations[SelectInSeq(Migrations, LAMBDA m : m \in S)]
Current(h) == First(migration[h].todo)
Fail(h) == migration' = [migration EXCEPT ![h] = [Idle EXCEPT !.pc = "failed"]]
Missing(m, p) == Phase(m, p) \ schema
NoteOverlap(h) == overlapped' = (overlapped \/ \E g \in Hosts \ {h} : Migrating(g))

\* Umzug's up(): the pending migrations, read once.
StartUp(h) ==
    /\ migration' = [migration EXCEPT ![h] =
           [Idle EXCEPT !.pc = IF Pending = {} THEN "done" ELSE "begin",
                        !.todo = Pending]]
    /\ NoteOverlap(h)
    /\ UNCHANGED <<schemaVars, rollbacks>>

\* The baseline creates its tables only in an empty database and refuses one
\* that has some of them; the others need the tables they extend, and rows that
\* satisfy the index they add.
Refused(m) ==
    IF m = "baseline"
    THEN schema \cap Objects(m) \notin {{}, Objects(m)}
    ELSE ~(Objects("baseline") \subseteq schema) \/ UniqueOver(m) \cap duplicates # {}

Begin(h) ==
    /\ migration[h].pc = "begin"
    /\ IF Refused(Current(h)) THEN Fail(h)
       ELSE migration' = [migration EXCEPT ![h].pc = "add", ![h].phase = 1,
                                           ![h].missing = Missing(Current(h), 1)]
    /\ UNCHANGED <<schemaVars, overlapped, rollbacks>>

Lowest(S) == CHOOSE o \in S : \A q \in S : o[3] <= q[3]
Highest(S) == CHOOSE o \in S : \A q \in S : <<q[2], q[3]>> = <<o[2], o[3]>>
                                           \/ q[2] < o[2] \/ (q[2] = o[2] /\ q[3] < o[3])

\* createTable of Sequelize says IF NOT EXISTS; the baseline's CREATE TABLE, an
\* added column and an added index fail when the object appeared meanwhile.
Clashes(o) == o \in schema /\ o # <<"settlement", 1, 1>>

AddObject(h) ==
    /\ migration[h].pc = "add" /\ migration[h].missing # {}
    /\ LET o == Lowest(migration[h].missing) IN
       IF Clashes(o) THEN Fail(h) /\ UNCHANGED schema
       ELSE /\ schema' = schema \cup {o}
            /\ migration' = [migration EXCEPT ![h].missing = @ \ {o}]
    /\ UNCHANGED <<ledger, dataVars, overlapped, rollbacks>>

\* The next phase reads again.  After the last one the settlement migration
\* writes the new columns of every order that is stored.
EndPhase(h) ==
    /\ migration[h].pc = "add" /\ migration[h].missing = {}
    /\ LET m == Current(h)
           p == migration[h].phase
       IN  IF p < Len(PhaseSizes(m))
           THEN /\ migration' = [migration EXCEPT ![h].phase = p + 1,
                                                  ![h].missing = Missing(m, p + 1)]
                /\ UNCHANGED settlement
           ELSE /\ migration' = [migration EXCEPT ![h].pc = "log"]
                /\ settlement' = IF m = "settlement" /\ settlement = "recorded"
                                 THEN "overwritten" ELSE settlement
    /\ UNCHANGED <<schema, ledger, businessRows, duplicates, overlapped, rollbacks>>

\* The name is the ledger's primary key.
Log(h) ==
    /\ migration[h].pc = "log"
    /\ IF Current(h) \in ledger THEN Fail(h) /\ UNCHANGED ledger
       ELSE /\ ledger' = ledger \cup {Current(h)}
            /\ migration' = [migration EXCEPT ![h] =
                   IF @.todo = {Current(h)} THEN [Idle EXCEPT !.pc = "done"]
                   ELSE [Idle EXCEPT !.pc = "begin", !.todo = migration[h].todo \ {Current(h)}]]
    /\ UNCHANGED <<schema, dataVars, overlapped, rollbacks>>
-----------------------------------------------------------------------------
(* One migration back: its objects, last first, then its row. *)

\* The baseline counts the rows of its tables first.
KeepsBaseline == businessRows \/ ~(Objects("baseline") \subseteq schema)

StartDown(h) ==
    /\ rollbacks < MaxRollbacks
    /\ rollbacks' = rollbacks + 1
    /\ migration' = [migration EXCEPT ![h] =
           IF LastExecuted = 0 THEN [Idle EXCEPT !.pc = "done"]
           ELSE LET m == Migrations[LastExecuted]
                IN  IF m = "baseline" /\ KeepsBaseline THEN [Idle EXCEPT !.pc = "failed"]
                    ELSE [pc |-> "down", todo |-> {m}, phase |-> 0,
                          missing |-> Objects(m) \cap schema]]
    /\ NoteOverlap(h)
    /\ UNCHANGED schemaVars

\* The columns of the settlement go with what the orders hold in them.
RemoveObject(h) ==
    /\ migration[h].pc = "down" /\ migration[h].missing # {}
    /\ LET o == Highest(migration[h].missing) IN
       IF o \notin schema THEN Fail(h) /\ UNCHANGED <<schema, settlement>>
       ELSE /\ schema' = schema \ {o}
            /\ migration' = [migration EXCEPT ![h].missing = @ \ {o}]
            /\ settlement' = IF o[1] = "settlement" THEN "none" ELSE settlement
    /\ UNCHANGED <<ledger, businessRows, duplicates, overlapped, rollbacks>>

Unlog(h) ==
    /\ migration[h].pc = "down" /\ migration[h].missing = {}
    /\ ledger' = ledger \ {Current(h)}
    /\ migration' = [migration EXCEPT ![h] = [Idle EXCEPT !.pc = "done"]]
    /\ UNCHANGED <<schema, dataVars, overlapped, rollbacks>>

MigrationStep(h) ==
    Begin(h) \/ AddObject(h) \/ EndPhase(h) \/ Log(h) \/ RemoveObject(h) \/ Unlog(h)

\* An operator puts the refused rows right.
ResolveDuplicates ==
    /\ duplicates # {}
    /\ duplicates' = {}
    /\ UNCHANGED <<schema, ledger, businessRows, settlement, migration, overlapped, rollbacks>>
=============================================================================

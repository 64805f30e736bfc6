--------------------------- MODULE ServerProcess ---------------------------
(***************************************************************************)
(* The processes of the backend against one database: the deploy command   *)
(* that migrates it, and servers that start, serve, drain on a signal and  *)
(* close what they hold: requests, the dispatch worker and its runs, the   *)
(* rate-limit store and the database pool.                                 *)
(***************************************************************************)
EXTENDS SchemaMigrations

CONSTANTS
    MaxRequests   \* bound: requests a server works on at a time

VARIABLES
    production,  \* NODE_ENV is production
    host         \* the processes

vars == <<schemaVars, migration, overlapped, rollbacks, deaths, production, host>>
migrationVars == <<migration, overlapped, rollbacks>>

\* timer: the worker's interval is set; run: a worker run is in progress; late: a
\* webhook request that was answered first is still worked on; awaiting: what the
\* shutdown still waits for before it closes the rest.
Off == [pc |-> "off", requests |-> 0, late |-> FALSE, timer |-> FALSE, run |-> FALSE,
        awaiting |-> {}, store |-> FALSE, database |-> FALSE]

ServerInit ==
    /\ Init
    /\ production \in BOOLEAN
    /\ host = [h \in Hosts |-> Off]
-----------------------------------------------------------------------------
(* The migration command. *)

CommandUp(h) ==
    /\ host[h].pc = "off"
    /\ host' = [host EXCEPT ![h] = [Off EXCEPT !.pc = "command", !.database = TRUE]]
    /\ StartUp(h)
    /\ UNCHANGED <<deaths, production>>

CommandDown(h) ==
    /\ host[h].pc = "off"
    /\ host' = [host EXCEPT ![h] = [Off EXCEPT !.pc = "command", !.database = TRUE]]
    /\ StartDown(h)
    /\ UNCHANGED <<deaths, production>>

Gone(h) ==
    /\ host' = [host EXCEPT ![h] = Off]
    /\ migration' = [migration EXCEPT ![h] = Idle]

EndCommand(h) ==
    /\ host[h].pc = "command" /\ Ended(h)
    /\ Gone(h)
    /\ UNCHANGED <<schemaVars, overlapped, rollbacks, deaths, production>>
-----------------------------------------------------------------------------
(* startServer: a production server checks the ledger, any other migrates. *)

Start(h) ==
    /\ host[h].pc = "off"
    /\ host' = [host EXCEPT ![h] = [Off EXCEPT !.pc = "starting", !.database = TRUE]]
    /\ IF production THEN UNCHANGED <<schemaVars, migrationVars>> ELSE StartUp(h)
    /\ UNCHANGED <<deaths, production>>

\* Faulty variant: any ledger will do.
SchemaCurrentIfManaged(h) == IF production THEN ledger # {} ELSE migration[h].pc = "done"

\* assertDatabaseMigrationsCurrent, or the migrations have been applied.
SchemaCurrent(h) == IF production THEN Pending = {} ELSE migration[h].pc = "done"

\* The rate-limit store connects, expired sessions are deleted and outside
\* production the platform administrator is seeded.
OpenStore(h) ==
    /\ host[h].pc = "starting" /\ SchemaCurrent(h)
    /\ host' = [host EXCEPT ![h].pc = "opened", ![h].store = TRUE]
    /\ migration' = [migration EXCEPT ![h] = Idle]
    /\ businessRows' = (businessRows \/ ~production)
    /\ UNCHANGED <<schema, ledger, duplicates, settlement, overlapped, rollbacks,
                   deaths, production>>

\* The worker's timer is set and a first run begins at once.
Listen(h) ==
    /\ host[h].pc = "opened"
    /\ host' = [host EXCEPT ![h].pc = "ready", ![h].timer = TRUE, ![h].run = TRUE]
    /\ UNCHANGED <<schemaVars, migrationVars, deaths, production>>

\* Any error on the way ends the process: migrations pending or failed, no
\* store, no port.
FailStart(h) ==
    /\ host[h].pc \in {"starting", "opened"} /\ ~Migrating(h)
    /\ Gone(h)
    /\ UNCHANGED <<schemaVars, overlapped, rollbacks, deaths, production>>
-----------------------------------------------------------------------------
(* Serving. *)

\* rejectRequestsWhileDraining lets requests pass before the drain only.
Accept(h) ==
    /\ host[h].pc = "ready" /\ host[h].requests < MaxRequests
    /\ host' = [host EXCEPT ![h].requests = @ + 1]
    /\ UNCHANGED <<schemaVars, migrationVars, deaths, production>>

\* A request is answered when its work is done; one that settles an order has a
\* worker run requested.
Respond(h) ==
    /\ host[h].requests > 0
    /\ \/ /\ host' = [host EXCEPT ![h].requests = @ - 1]
          /\ UNCHANGED schemaVars
       \/ /\ host' = [host EXCEPT ![h].requests = @ - 1, ![h].run = TRUE]
          /\ Objects("settlement") \subseteq schema
          /\ settlement' = IF settlement = "none" THEN "recorded" ELSE settlement
          /\ businessRows' = TRUE
          /\ UNCHANGED <<schema, ledger, duplicates>>
    /\ UNCHANGED <<migrationVars, deaths, production>>

\* An update of Telegram is answered before anything is done about it.
AnswerFirst(h) ==
    /\ host[h].requests > 0
    /\ host' = [host EXCEPT ![h].requests = @ - 1, ![h].late = TRUE]
    /\ UNCHANGED <<schemaVars, migrationVars, deaths, production>>

\* It completes a ticket or connects a group, unless its statements fail.
EndLate(h) ==
    /\ host[h].late
    /\ host' = [host EXCEPT ![h].late = FALSE]
    /\ UNCHANGED <<schemaVars, migrationVars, deaths, production>>

WorkerTick(h) ==
    /\ host[h].timer /\ ~host[h].run
    /\ host' = [host EXCEPT ![h].run = TRUE]
    /\ UNCHANGED <<schemaVars, migrationVars, deaths, production>>

\* A run ends; the shutdown may be waiting for it.
EndRun(h) ==
    /\ host[h].run
    /\ host' = [host EXCEPT ![h].run = FALSE, ![h].awaiting = @ \ {"run"}]
    /\ UNCHANGED <<schemaVars, migrationVars, deaths, production>>
-----------------------------------------------------------------------------
(* createGracefulShutdown. *)

\* The drain begins: no new requests, no more ticks; the workers' stop awaits
\* the run of this moment, the HTTP server and the sockets their connections.
Signal(h) ==
    /\ host[h].pc = "ready"
    /\ host' = [host EXCEPT ![h].pc = "draining", ![h].timer = FALSE,
                   ![h].awaiting = {"http"} \cup (IF host[h].run THEN {"run"} ELSE {})]
    /\ UNCHANGED <<schemaVars, migrationVars, deaths, production>>

CloseTraffic(h) ==
    /\ "http" \in host[h].awaiting /\ host[h].requests = 0
    /\ host' = [host EXCEPT ![h].awaiting = @ \ {"http"}]
    /\ UNCHANGED <<schemaVars, migrationVars, deaths, production>>

\* Faulty variant: Promise.race in the place of Promise.allSettled.
AnyTrafficSettled(h) == host[h].awaiting # {"http", "run"}

\* Promise.allSettled of the workers, the sockets and the HTTP server.
TrafficSettled(h) == host[h].awaiting = {}

CloseStore(h) ==
    /\ host[h].pc = "draining" /\ TrafficSettled(h) /\ host[h].store
    /\ host' = [host EXCEPT ![h].store = FALSE]
    /\ UNCHANGED <<schemaVars, migrationVars, deaths, production>>

CloseDatabase(h) ==
    /\ host[h].pc = "draining" /\ ~host[h].store /\ host[h].database
    /\ host' = [host EXCEPT ![h].database = FALSE]
    /\ UNCHANGED <<schemaVars, migrationVars, deaths, production>>

\* process.exit, when everything is closed or when the grace period is over.
Exit(h) ==
    /\ host[h].pc = "draining"
    /\ Gone(h)
    /\ UNCHANGED <<schemaVars, overlapped, rollbacks, deaths, production>>

\* Killed: by the platform, or by a signal no handler waits for.
Die(h) ==
    /\ deaths < MaxDeaths /\ host[h].pc # "off"
    /\ deaths' = deaths + 1
    /\ Gone(h)
    /\ UNCHANGED <<schemaVars, overlapped, rollbacks, production>>
-----------------------------------------------------------------------------
Migrate(h) == MigrationStep(h) /\ UNCHANGED <<deaths, production, host>>
Repair == ResolveDuplicates /\ UNCHANGED <<deaths, production, host>>

Next ==
    \/ \E h \in Hosts :
          \/ CommandUp(h) \/ CommandDown(h) \/ EndCommand(h) \/ Migrate(h)
          \/ Start(h) \/ OpenStore(h) \/ Listen(h) \/ FailStart(h)
          \/ Accept(h) \/ Respond(h) \/ AnswerFirst(h) \/ EndLate(h)
          \/ WorkerTick(h) \/ EndRun(h)
          \/ Signal(h) \/ CloseTraffic(h) \/ CloseStore(h) \/ CloseDatabase(h)
          \/ Exit(h) \/ Die(h)
    \/ Repair

Spec == ServerInit /\ [][Next]_vars
-----------------------------------------------------------------------------
\* However migrations were cut short, retried or run side by side, a server
\* that takes requests finds every table, column and index its code relies on,
\* unless an operator rolled a migration back.
ServingSchemaComplete ==
    \A h \in Hosts :
        host[h].pc \in {"ready", "draining"} /\ rollbacks = 0 => AllObjects \subseteq schema

\* A settlement recorded for an order is not overwritten by a later migration,
\* unless two processes migrated side by side or a migration was rolled back.
SettlementsKept ==
    settlement = "overwritten" => overlapped \/ rollbacks > 0

\* A drain closes the rate-limit store and the database only when every request it
\* had let in is answered, the worker run it found has ended and no timer can start
\* another.  What goes on after an answer it does not wait for: the work on an update
\* of Telegram (late), and a worker run that a request asked for during the drain.
DrainedBeforeClosing ==
    \A h \in Hosts :
        host[h].pc = "draining" /\ ~host[h].store
            => host[h].requests = 0 /\ ~host[h].timer /\ host[h].awaiting = {}
=============================================================================

------------------------- MODULE ServerProcessProofs -------------------------
(***************************************************************************)
(* What holds of servers for any number of processes and of requests,      *)
(* however migrations and deaths interleave: a drain closes its stores     *)
(* once its requests are answered; a server finds its schema complete; a   *)
(* recorded settlement is not overwritten.                                 *)
(*                                                                         *)
(* DrainedBeforeClosing alone is not inductive: that no request is left    *)
(* when the store is closed rests on what the shutdown awaits, and that on *)
(* a process having its store when the signal comes.  Nothing is needed of *)
(* the schema: no step of a migration touches a process.                   *)
(*                                                                         *)
(* For the schema, Advanced says what a process that migrates has done     *)
(* already: everything not in the ledger is still on its list, and the     *)
(* phases behind it exist, whoever added them.                             *)
(***************************************************************************)
EXTENDS ServerProcess, TLAPS

Process ==
    [pc : {"off", "command", "starting", "opened", "ready", "draining"}, requests : Nat,
     late : BOOLEAN, timer : BOOLEAN, run : BOOLEAN, awaiting : SUBSET {"http", "run"},
     store : BOOLEAN, database : BOOLEAN]

\* What a process may look like at any moment.
Orderly(p) ==
    /\ p.timer => p.pc = "ready"
    /\ p.requests > 0 => p.pc \in {"ready", "draining"}
    /\ p.pc \in {"opened", "ready"} => p.store
    /\ p.pc = "draining" /\ "http" \notin p.awaiting => p.requests = 0
    /\ p.pc = "draining" /\ ~p.store => p.awaiting = {}

HostInv == host \in [Hosts -> Process] /\ \A h \in Hosts : Orderly(host[h])

LEMMA OffIsOrderly == Off \in Process /\ Orderly(Off) /\ Off.pc = "off" /\ Off.requests = 0
BY DEF Off, Process, Orderly

\* A step of one process leaves the others as they are.
LEMMA OneProcess ==
    ASSUME HostInv, NEW h \in Hosts, NEW p \in Process, Orderly(p),
           host' = [host EXCEPT ![h] = p]
    PROVE  HostInv'
BY DEF HostInv

LEMMA CommandSteps ==
    ASSUME HostInv, NEW h \in Hosts,
           CommandUp(h) \/ CommandDown(h) \/ EndCommand(h)
    PROVE  HostInv'
<1> DEFINE p == [Off EXCEPT !.pc = "command", !.database = TRUE]
<1>1. p \in Process /\ Orderly(p)
  BY OffIsOrderly DEF Process, Orderly
<1>2. CASE CommandUp(h) \/ CommandDown(h)
  <2>1. host' = [host EXCEPT ![h] = p]
    BY <1>2 DEF CommandUp, CommandDown
  <2> QED BY <1>1, <2>1, OneProcess
<1>3. CASE EndCommand(h)
  <2>1. host' = [host EXCEPT ![h] = Off]
    BY <1>3 DEF EndCommand, Gone
  <2> QED BY <2>1, OneProcess, OffIsOrderly
<1> QED BY <1>2, <1>3

LEMMA StartSteps ==
    ASSUME HostInv, NEW h \in Hosts,
           Start(h) \/ OpenStore(h) \/ Listen(h) \/ FailStart(h)
    PROVE  HostInv'
<1>0. host[h] \in Process /\ Orderly(host[h])
  BY DEF HostInv
<1>1. CASE Start(h)
  <2> DEFINE p == [Off EXCEPT !.pc = "starting", !.database = TRUE]
  <2>1. p \in Process /\ Orderly(p)
    BY OffIsOrderly DEF Process, Orderly
  <2>2. host' = [host EXCEPT ![h] = p]
    BY <1>1 DEF Start
  <2> QED BY <2>1, <2>2, OneProcess
<1>2. CASE OpenStore(h)
  <2> DEFINE p == [host[h] EXCEPT !.pc = "opened", !.store = TRUE]
  <2>1. p \in Process /\ Orderly(p)
    BY <1>0, <1>2 DEF OpenStore, Process, Orderly
  <2>2. host' = [host EXCEPT ![h] = p]
    BY <1>2 DEF OpenStore, HostInv, Process
  <2> QED BY <2>1, <2>2, OneProcess
<1>3. CASE Listen(h)
  <2> DEFINE p == [host[h] EXCEPT !.pc = "ready", !.timer = TRUE, !.run = TRUE]
  <2>1. p \in Process /\ Orderly(p)
    BY <1>0, <1>3 DEF Listen, Process, Orderly
  <2>2. host' = [host EXCEPT ![h] = p]
    BY <1>3 DEF Listen, HostInv, Process
  <2> QED BY <2>1, <2>2, OneProcess
<1>4. CASE FailStart(h)
  <2>1. host' = [host EXCEPT ![h] = Off]
    BY <1>4 DEF FailStart, Gone
  <2> QED BY <2>1, OneProcess, OffIsOrderly
<1> QED BY <1>1, <1>2, <1>3, <1>4

LEMMA ServingSteps ==
    ASSUME HostInv, NEW h \in Hosts,
           \/ Accept(h) \/ Respond(h) \/ AnswerFirst(h) \/ EndLate(h)
           \/ WorkerTick(h) \/ EndRun(h)
    PROVE  HostInv'
<1>0. host[h] \in Process /\ Orderly(host[h])
  BY DEF HostInv
<1>1. CASE Accept(h)
  <2> DEFINE p == [host[h] EXCEPT !.requests = @ + 1]
  <2>1. p \in Process /\ Orderly(p)
    BY <1>0, <1>1 DEF Accept, Process, Orderly
  <2>2. host' = [host EXCEPT ![h] = p]
    BY <1>1 DEF Accept, HostInv, Process
  <2> QED BY <2>1, <2>2, OneProcess
<1>2. CASE Respond(h)
  <2> DEFINE p == [host[h] EXCEPT !.requests = @ - 1]
             q == [host[h] EXCEPT !.requests = @ - 1, !.run = TRUE]
  <2>1. p \in Process /\ Orderly(p)
    BY <1>0, <1>2 DEF Respond, Process, Orderly
  <2>2. q \in Process /\ Orderly(q)
    <3>1. p \in Process /\ Orderly(p) /\ q = [p EXCEPT !.run = TRUE]
      BY <1>0, <2>1 DEF Process
    <3> HIDE DEF p, q
    <3> QED BY <3>1 DEF Process, Orderly
  <2>3. host' = [host EXCEPT ![h] = p] \/ host' = [host EXCEPT ![h] = q]
    BY <1>2 DEF Respond, HostInv, Process
  <2> QED BY <2>1, <2>2, <2>3, OneProcess
<1>3. CASE WorkerTick(h)
  <2> DEFINE p == [host[h] EXCEPT !.run = TRUE]
  <2>1. p \in Process /\ Orderly(p)
    BY <1>0, <1>3 DEF WorkerTick, Process, Orderly
  <2>2. host' = [host EXCEPT ![h] = p]
    BY <1>3 DEF WorkerTick, HostInv, Process
  <2> QED BY <2>1, <2>2, OneProcess
<1>4. CASE EndRun(h)
  <2> DEFINE p == [host[h] EXCEPT !.run = FALSE, !.awaiting = @ \ {"run"}]
  <2>1. p \in Process /\ Orderly(p)
    BY <1>0, <1>4 DEF EndRun, Process, Orderly
  <2>2. host' = [host EXCEPT ![h] = p]
    BY <1>4 DEF EndRun, HostInv, Process
  <2> QED BY <2>1, <2>2, OneProcess
<1>5. CASE AnswerFirst(h)
  <2> DEFINE p == [host[h] EXCEPT !.requests = @ - 1]
             q == [host[h] EXCEPT !.requests = @ - 1, !.late = TRUE]
  <2>1. p \in Process /\ Orderly(p)
    BY <1>0, <1>5 DEF AnswerFirst, Process, Orderly
  <2>2. q \in Process /\ Orderly(q)
    <3>1. p \in Process /\ Orderly(p) /\ q = [p EXCEPT !.late = TRUE]
      BY <1>0, <2>1 DEF Process
    <3> HIDE DEF p, q
    <3> QED BY <3>1 DEF Process, Orderly
  <2>3. host' = [host EXCEPT ![h] = q]
    BY <1>5 DEF AnswerFirst, HostInv, Process
  <2> QED BY <2>2, <2>3, OneProcess
<1>6. CASE EndLate(h)
  <2> DEFINE p == [host[h] EXCEPT !.late = FALSE]
  <2>1. p \in Process /\ Orderly(p)
    BY <1>0, <1>6 DEF EndLate, Process, Orderly
  <2>2. host' = [host EXCEPT ![h] = p]
    BY <1>6 DEF EndLate, HostInv, Process
  <2> QED BY <2>1, <2>2, OneProcess
<1> QED BY <1>1, <1>2, <1>3, <1>4, <1>5, <1>6

LEMMA ShutdownSteps ==
    ASSUME HostInv, NEW h \in Hosts,
           \/ Signal(h) \/ CloseTraffic(h) \/ CloseStore(h) \/ CloseDatabase(h)
           \/ Exit(h) \/ Die(h)
    PROVE  HostInv'
<1>0. host[h] \in Process /\ Orderly(host[h])
  BY DEF HostInv
<1>1. CASE Signal(h)
  <2> DEFINE waits == {"http"} \cup (IF host[h].run THEN {"run"} ELSE {})
             p == [host[h] EXCEPT !.pc = "draining", !.timer = FALSE, !.awaiting = waits]
  <2>1. p \in Process /\ Orderly(p)
    BY <1>0, <1>1 DEF Signal, Process, Orderly
  <2>2. host' = [host EXCEPT ![h] = p]
    BY <1>1 DEF Signal, HostInv, Process
  <2> QED BY <2>1, <2>2, OneProcess
<1>2. CASE CloseTraffic(h)
  <2> DEFINE p == [host[h] EXCEPT !.awaiting = @ \ {"http"}]
  <2>1. p \in Process /\ Orderly(p)
    BY <1>0, <1>2 DEF CloseTraffic, Process, Orderly
  <2>2. host' = [host EXCEPT ![h] = p]
    BY <1>2 DEF CloseTraffic, HostInv, Process
  <2> QED BY <2>1, <2>2, OneProcess
<1>3. CASE CloseStore(h)
  <2> DEFINE p == [host[h] EXCEPT !.store = FALSE]
  <2>1. p \in Process /\ Orderly(p)
    BY <1>0, <1>3 DEF CloseStore, TrafficSettled, Process, Orderly
  <2>2. host' = [host EXCEPT ![h] = p]
    BY <1>3 DEF CloseStore, HostInv, Process
  <2> QED BY <2>1, <2>2, OneProcess
<1>4. CASE CloseDatabase(h)
  <2> DEFINE p == [host[h] EXCEPT !.database = FALSE]
  <2>1. p \in Process /\ Orderly(p)
    BY <1>0, <1>4 DEF CloseDatabase, Process, Orderly
  <2>2. host' = [host EXCEPT ![h] = p]
    BY <1>4 DEF CloseDatabase, HostInv, Process
  <2> QED BY <2>1, <2>2, OneProcess
<1>5. CASE Exit(h) \/ Die(h)
  <2>1. host' = [host EXCEPT ![h] = Off]
    BY <1>5 DEF Exit, Die, Gone
  <2> QED BY <2>1, OneProcess, OffIsOrderly
<1> QED BY <1>1, <1>2, <1>3, <1>4, <1>5

LEMMA NextHolds == HostInv /\ [Next]_vars => HostInv'
<1> SUFFICES ASSUME HostInv, [Next]_vars PROVE HostInv'
  OBVIOUS
<1>1. CASE UNCHANGED vars
  BY <1>1 DEF HostInv, vars
<1>2. CASE Repair \/ \E h \in Hosts : Migrate(h)
  <2>1. UNCHANGED host
    BY <1>2 DEF Repair, Migrate
  <2> QED BY <2>1 DEF HostInv
<1>3. ASSUME NEW h \in Hosts, CommandUp(h) \/ CommandDown(h) \/ EndCommand(h)
      PROVE  HostInv'
  BY <1>3, CommandSteps
<1>4. ASSUME NEW h \in Hosts, Start(h) \/ OpenStore(h) \/ Listen(h) \/ FailStart(h)
      PROVE  HostInv'
  BY <1>4, StartSteps
<1>5. ASSUME NEW h \in Hosts,
             \/ Accept(h) \/ Respond(h) \/ AnswerFirst(h) \/ EndLate(h)
             \/ WorkerTick(h) \/ EndRun(h)
      PROVE  HostInv'
  BY <1>5, ServingSteps
<1>6. ASSUME NEW h \in Hosts,
             \/ Signal(h) \/ CloseTraffic(h) \/ CloseStore(h) \/ CloseDatabase(h)
             \/ Exit(h) \/ Die(h)
      PROVE  HostInv'
  BY <1>6, ShutdownSteps
<1> QED BY <1>1, <1>2, <1>3, <1>4, <1>5, <1>6 DEF Next

\* A drain closes the rate-limit store and the database only when every request it
\* had let in is answered, the worker run it found has ended and no timer can start
\* another, for any number of processes and requests.
THEOREM DrainsBeforeItCloses == Spec => []DrainedBeforeClosing
<1>1. ServerInit => HostInv
  BY OffIsOrderly DEF ServerInit, HostInv
<1>2. HostInv => DrainedBeforeClosing
  BY DEF HostInv, DrainedBeforeClosing, Orderly, Process
<1> QED BY <1>1, <1>2, NextHolds, PTL DEF Spec
-----------------------------------------------------------------------------
(* The schema under servers, while no operator rolls a migration back.      *)

LEMMA NamesAre ==
    Names = {"baseline", "order_indexes", "product_columns", "audit_columns",
             "one_stall_per_cashier", "settlement", "one_stall_per_chat"}
BY DEF Names, ToSet, Migrations

LEMMA FirstIsOne ==
    ASSUME NEW S \in SUBSET Names, S # {}
    PROVE  First(S) \in S
<1> DEFINE I == {i \in 1..Len(Migrations) : Migrations[i] \in S}
           Least(i) == \A j \in I : i <= j
<1>1. \E i \in I : TRUE
  <2>1. PICK m \in Names : m \in S
    OBVIOUS
  <2>2. \E i \in 1..Len(Migrations) : Migrations[i] = m
    BY NamesAre DEF Migrations
  <2> QED BY <2>1, <2>2
<1>2. I \subseteq 1..7
  BY DEF Migrations
<1>3. \E i \in I : Least(i)
  BY <1>1, <1>2
<1>4. Min(I) \in I
  BY <1>3 DEF Min
<1>5. First(S) = Migrations[Min(I)]
  BY <1>1 DEF First, SelectInSeq
<1> QED BY <1>4, <1>5

LEMMA SizesAreSequences ==
    ASSUME NEW m \in Names
    PROVE  Len(PhaseSizes(m)) \in Nat \ {0}
BY NamesAre DEF PhaseSizes

Progress == [pc : {"idle", "begin", "add", "log", "done", "failed"}, todo : SUBSET Names,
             phase : Nat, missing : SUBSET AllObjects]

\* What a process that migrates has brought about so far.
Advanced(h) ==
    LET g == migration[h]
        m == First(g.todo)
    IN
    /\ g.pc \in {"begin", "add", "log"} => g.todo # {} /\ Names \subseteq ledger \cup g.todo
    /\ g.pc = "add" =>
          /\ g.phase \in 1..Len(PhaseSizes(m))
          /\ \A p \in 1..Len(PhaseSizes(m)) : p < g.phase => Phase(m, p) \subseteq schema
          /\ Phase(m, g.phase) \subseteq schema \cup g.missing
    /\ g.pc = "log" => Objects(m) \subseteq schema
    /\ g.pc = "done" => Names \subseteq ledger

Serving(h) == host[h].pc \in {"opened", "ready", "draining"}

SchemaHolds ==
    /\ migration \in [Hosts -> Progress]
    /\ ledger \subseteq Names
    /\ \A m \in ledger : Objects(m) \subseteq schema
    /\ \A h \in Hosts : Advanced(h) /\ (Serving(h) => Names \subseteq ledger)

SchemaInv == rollbacks \in Nat /\ (rollbacks = 0 => SchemaHolds)

LEMMA PhaseIsInObjects ==
    ASSUME NEW m \in Names, NEW p \in 1..Len(PhaseSizes(m))
    PROVE  Phase(m, p) \subseteq AllObjects
BY DEF Objects, AllObjects

\* A step that only adds to schema and ledger keeps what the other processes,
\* and one that ends or forgets its migration, have brought about.
LEMMA OthersAdvance ==
    ASSUME NEW g \in Hosts, Advanced(g), schema \subseteq schema', ledger \subseteq ledger',
           \/ migration'[g] = migration[g]
           \/ migration'[g] = Idle
           \/ migration'[g].pc = "failed"
    PROVE  Advanced(g)'
BY DEF Advanced, Idle

LEMMA SchemaStep ==
    ASSUME SchemaHolds, NEW h \in Hosts, migration' \in [Hosts -> Progress],
           schema \subseteq schema', ledger \subseteq ledger', ledger' \subseteq Names,
           \A m \in ledger' : m \in ledger \/ Objects(m) \subseteq schema',
           \A g \in Hosts : g # h => migration'[g] = migration[g] /\ (Serving(g)' => Serving(g)),
           Advanced(h)', Serving(h)' => Names \subseteq ledger'
    PROVE  SchemaHolds'
<1>1. \A g \in Hosts : Advanced(g)'
  BY OthersAdvance DEF SchemaHolds
<1>2. \A g \in Hosts : Serving(g)' => Names \subseteq ledger'
  BY DEF SchemaHolds
<1> QED BY <1>1, <1>2 DEF SchemaHolds

\* The steps that leave schema and ledger alone and start no migration.
LEMMA ProcessSteps ==
    ASSUME SchemaHolds, NEW h \in Hosts, UNCHANGED <<schema, ledger>>,
           migration' = migration \/ migration' = [migration EXCEPT ![h] = Idle],
           \A g \in Hosts : Serving(g)' => Serving(g)
    PROVE  SchemaHolds'
<1>1. migration' \in [Hosts -> Progress]
  BY DEF SchemaHolds, Progress, Idle
<1>2. Advanced(h)'
  BY OthersAdvance DEF SchemaHolds
<1> QED BY <1>1, <1>2, SchemaStep DEF SchemaHolds

LEMMA StartingUp ==
    ASSUME SchemaHolds, NEW h \in Hosts, StartUp(h), ~Serving(h)',
           \A g \in Hosts : g # h => host'[g] = host[g]
    PROVE  SchemaHolds'
<1> DEFINE pc == IF Pending = {} THEN "done" ELSE "begin"
<1>1. /\ migration' = [migration EXCEPT ![h] = [Idle EXCEPT !.pc = pc, !.todo = Pending]]
      /\ UNCHANGED <<schema, ledger>> /\ Pending = Names \ ledger
  BY DEF StartUp, schemaVars, Pending
<1>2. migration' \in [Hosts -> Progress]
  BY <1>1 DEF SchemaHolds, Progress, Idle
<1>3. migration'[h].pc = pc /\ migration'[h].todo = Pending
  BY <1>1 DEF SchemaHolds, Idle
<1>4. Advanced(h)'
  BY <1>1, <1>3 DEF Advanced
<1> QED BY <1>1, <1>2, <1>4, SchemaStep DEF SchemaHolds, Serving

LEMMA MigratingSteps ==
    ASSUME SchemaHolds, NEW h \in Hosts, MigrationStep(h), UNCHANGED host
    PROVE  SchemaHolds'
<1> DEFINE m == Current(h)
           g == migration[h]
<1>1. /\ migration \in [Hosts -> Progress] /\ g \in Progress /\ ledger \subseteq Names
      /\ Advanced(h) /\ m = First(g.todo)
  BY DEF SchemaHolds, Current
<1>2. g.pc \in {"begin", "add", "log"}
  BY <1>1 DEF MigrationStep, Begin, AddObject, EndPhase, Log, RemoveObject, Unlog, Progress
<1>3. m \in g.todo /\ m \in Names /\ Len(PhaseSizes(m)) \in Nat \ {0}
  BY <1>1, <1>2, FirstIsOne, SizesAreSequences DEF Advanced, Progress
<1>4. \A f \in Hosts : Serving(f)' = Serving(f)
  BY DEF Serving
<1>5. CASE Fail(h) /\ UNCHANGED <<schema, ledger>>
  <2>1. migration' \in [Hosts -> Progress] /\ migration'[h].pc = "failed"
    BY <1>1, <1>5 DEF Fail, Progress, Idle
  <2>2. Advanced(h)'
    BY <1>1, <1>5, <2>1, OthersAdvance
  <2> QED BY <1>4, <1>5, <2>1, <2>2, SchemaStep DEF SchemaHolds, Fail
<1>6. CASE Begin(h) /\ ~Fail(h)
  <2>1. /\ g.pc = "begin" /\ UNCHANGED <<schema, ledger>>
        /\ migration' = [migration EXCEPT ![h].pc = "add", ![h].phase = 1,
                                          ![h].missing = Missing(m, 1)]
    BY <1>6 DEF Begin, schemaVars
  <2>2. Missing(m, 1) = Phase(m, 1) \ schema /\ Missing(m, 1) \subseteq AllObjects
    BY <1>3, PhaseIsInObjects DEF Missing
  <2>3. migration' \in [Hosts -> Progress]
    BY <1>1, <2>1, <2>2 DEF Progress
  <2>4. /\ migration'[h].pc = "add" /\ migration'[h].phase = 1
        /\ migration'[h].missing = Missing(m, 1) /\ migration'[h].todo = g.todo
    BY <1>1, <2>1 DEF Progress
  <2>5. Advanced(h)'
    BY <1>1, <1>3, <2>1, <2>2, <2>4 DEF Advanced
  <2> QED BY <1>4, <2>1, <2>3, <2>5, SchemaStep DEF SchemaHolds
<1>7. CASE AddObject(h) /\ ~Fail(h)
  <2>1. PICK o \in g.missing \cup {Lowest(g.missing)} :
          /\ g.pc = "add" /\ schema' = schema \cup {o} /\ UNCHANGED ledger
          /\ migration' = [migration EXCEPT ![h].missing = @ \ {o}]
    BY <1>7 DEF AddObject
  <2>2. migration' \in [Hosts -> Progress]
    BY <1>1, <2>1 DEF Progress
  <2>3. /\ migration'[h].pc = "add" /\ migration'[h].phase = g.phase
        /\ migration'[h].missing = g.missing \ {o} /\ migration'[h].todo = g.todo
    BY <1>1, <2>1 DEF Progress
  <2>4. Advanced(h)'
    BY <1>1, <2>1, <2>3 DEF Advanced
  <2> QED BY <1>4, <2>1, <2>2, <2>4, SchemaStep DEF SchemaHolds
<1>8. CASE EndPhase(h)
  <2>1. g.pc = "add" /\ g.missing = {} /\ UNCHANGED <<schema, ledger>>
    BY <1>8 DEF EndPhase
  <2>2. g.phase \in 1..Len(PhaseSizes(m)) /\ Phase(m, g.phase) \subseteq schema
    BY <1>1, <2>1 DEF Advanced
  <2>3. CASE g.phase < Len(PhaseSizes(m))
    <3>1. migration' = [migration EXCEPT ![h].phase = g.phase + 1,
                                         ![h].missing = Missing(m, g.phase + 1)]
      BY <1>8, <2>3 DEF EndPhase
    <3>2. g.phase + 1 \in 1..Len(PhaseSizes(m))
      BY <1>3, <2>2, <2>3
    <3>3. /\ Missing(m, g.phase + 1) = Phase(m, g.phase + 1) \ schema
          /\ Missing(m, g.phase + 1) \subseteq AllObjects
      BY <1>3, <3>2, PhaseIsInObjects DEF Missing
    <3>4. migration' \in [Hosts -> Progress]
      <4>1. g.phase + 1 \in Nat
        BY <1>1 DEF Progress
      <4> HIDE DEF m
      <4> QED BY <1>1, <3>1, <3>3, <4>1 DEF Progress
    <3>5. /\ migration'[h].pc = "add" /\ migration'[h].phase = g.phase + 1
          /\ migration'[h].missing = Missing(m, g.phase + 1) /\ migration'[h].todo = g.todo
      BY <1>1, <2>1, <3>1 DEF Progress
    <3>6. \A p \in 1..Len(PhaseSizes(m)) : p < g.phase + 1 => Phase(m, p) \subseteq schema
      BY <1>1, <1>3, <2>1, <2>2 DEF Advanced
    <3>7. Advanced(h)'
      BY <1>1, <2>1, <3>2, <3>3, <3>5, <3>6 DEF Advanced
    <3> QED BY <1>4, <2>1, <3>1, <3>4, <3>7, SchemaStep DEF SchemaHolds
  <2>4. CASE ~(g.phase < Len(PhaseSizes(m)))
    <3>1. migration' = [migration EXCEPT ![h].pc = "log"]
      BY <1>8, <2>4 DEF EndPhase
    <3>2. migration' \in [Hosts -> Progress]
      BY <1>1, <3>1 DEF Progress
    <3>3. migration'[h].pc = "log" /\ migration'[h].todo = g.todo
      BY <1>1, <3>1 DEF Progress
    <3>4. \A p \in 1..Len(PhaseSizes(m)) : Phase(m, p) \subseteq schema
      BY <1>1, <1>3, <2>1, <2>2, <2>4 DEF Advanced
    <3>5. Objects(m) \subseteq schema
      BY <3>4 DEF Objects
    <3>6. Advanced(h)'
      BY <1>1, <2>1, <3>3, <3>5 DEF Advanced
    <3> QED BY <1>4, <2>1, <3>1, <3>2, <3>6, SchemaStep DEF SchemaHolds
  <2> QED BY <2>3, <2>4
<1>9. CASE Log(h) /\ ~Fail(h)
  <2>1. g.pc = "log" /\ ledger' = ledger \cup {m} /\ UNCHANGED schema
    BY <1>9 DEF Log
  <2>2. Objects(m) \subseteq schema /\ Names \subseteq ledger \cup g.todo
    BY <1>1, <2>1 DEF Advanced
  <2>3. CASE g.todo = {m}
    <3>1. migration' = [migration EXCEPT ![h] = [Idle EXCEPT !.pc = "done"]]
      BY <1>9, <2>3 DEF Log
    <3>2. migration' \in [Hosts -> Progress] /\ migration'[h].pc = "done"
      BY <1>1, <3>1 DEF Progress, Idle
    <3>3. Names \subseteq ledger'
      BY <2>1, <2>2, <2>3
    <3>4. Advanced(h)'
      BY <3>2, <3>3 DEF Advanced
    <3> QED BY <1>1, <1>3, <1>4, <2>1, <2>2, <3>1, <3>2, <3>3, <3>4, SchemaStep DEF SchemaHolds
  <2>4. CASE g.todo # {m}
    <3>1. migration' = [migration EXCEPT ![h] =
                           [Idle EXCEPT !.pc = "begin", !.todo = g.todo \ {m}]]
      BY <1>9, <2>4 DEF Log
    <3>2. /\ migration' \in [Hosts -> Progress] /\ migration'[h].pc = "begin"
          /\ migration'[h].todo = g.todo \ {m}
      BY <1>1, <3>1 DEF Progress, Idle
    <3>3. g.todo \ {m} # {} /\ Names \subseteq ledger' \cup (g.todo \ {m})
      BY <1>3, <2>1, <2>2, <2>4
    <3>4. Advanced(h)'
      BY <3>2, <3>3 DEF Advanced
    <3>5. Serving(h)' => Names \subseteq ledger'
      BY <1>4, <2>1 DEF SchemaHolds
    <3> QED BY <1>1, <1>3, <1>4, <2>1, <2>2, <3>1, <3>2, <3>4, <3>5, SchemaStep DEF SchemaHolds
  <2> QED BY <2>3, <2>4
<1>10. CASE Fail(h)
  <2>1. UNCHANGED <<schema, ledger>>
    <3>1. migration'[h].pc = "failed"
      BY <1>1, <1>10 DEF Fail, Idle
    <3>2. CASE Begin(h) \/ EndPhase(h)
      BY <3>2 DEF Begin, EndPhase, schemaVars
    <3>3. CASE AddObject(h)
      <4>1. \A o : migration' = [migration EXCEPT ![h].missing = @ \ {o}] => migration'[h].pc = g.pc
        BY <1>1 DEF Progress
      <4> QED BY <1>2, <3>1, <3>3, <4>1 DEF AddObject
    <3>4. CASE Log(h)
      <4>1. \A todo : /\ migration' # [migration EXCEPT ![h] = [Idle EXCEPT !.pc = "done"]]
                      /\ migration' # [migration EXCEPT ![h] =
                                            [Idle EXCEPT !.pc = "begin", !.todo = todo]]
        BY <1>1, <3>1 DEF Idle
      <4> QED BY <3>4, <4>1 DEF Log
    <3> QED BY <1>2, <3>2, <3>3, <3>4 DEF MigrationStep, RemoveObject, Unlog
  <2> QED BY <1>5, <1>10, <2>1
<1>11. ~RemoveObject(h) /\ ~Unlog(h)
  BY <1>2 DEF RemoveObject, Unlog
<1> QED BY <1>6, <1>7, <1>8, <1>9, <1>10, <1>11 DEF MigrationStep

LEMMA RollbackSteps ==
    ASSUME [Next]_vars
    PROVE  UNCHANGED rollbacks \/ (rollbacks' = rollbacks + 1 /\ \E h \in Hosts : CommandDown(h))
<1>1. ASSUME NEW h \in Hosts, CommandDown(h)
      PROVE  rollbacks' = rollbacks + 1
  BY <1>1 DEF CommandDown, StartDown
<1>2. ASSUME NEW h \in Hosts, CommandUp(h) \/ EndCommand(h) \/ Start(h)
      PROVE  UNCHANGED rollbacks
  BY <1>2 DEF CommandUp, StartUp, EndCommand, Start, migrationVars
<1>3. ASSUME NEW h \in Hosts, Migrate(h)
      PROVE  UNCHANGED rollbacks
  <2>1. MigrationStep(h)
    BY <1>3 DEF Migrate
  <2> QED BY <2>1 DEF MigrationStep, Begin, AddObject, EndPhase, Log, RemoveObject, Unlog
<1>4. ASSUME NEW h \in Hosts,
             \/ OpenStore(h) \/ Listen(h) \/ FailStart(h) \/ Accept(h) \/ Respond(h)
             \/ AnswerFirst(h) \/ EndLate(h) \/ WorkerTick(h) \/ EndRun(h) \/ Signal(h)
             \/ CloseTraffic(h) \/ CloseStore(h) \/ CloseDatabase(h) \/ Exit(h) \/ Die(h)
      PROVE  UNCHANGED rollbacks
  BY <1>4 DEF OpenStore, Listen, FailStart, Accept, Respond, AnswerFirst, EndLate, WorkerTick,
              EndRun, Signal, CloseTraffic, CloseStore, CloseDatabase, Exit, Die, migrationVars
<1>5. CASE Repair \/ UNCHANGED vars
  BY <1>5 DEF Repair, ResolveDuplicates, vars, migrationVars
<1> QED BY <1>1, <1>2, <1>3, <1>4, <1>5 DEF Next

\* The steps after which no process serves that did not before.
LEMMA ServingRemains ==
    ASSUME HostInv, NEW h \in Hosts,
           \/ EndCommand(h) \/ Listen(h) \/ FailStart(h) \/ Accept(h) \/ Respond(h)
           \/ AnswerFirst(h) \/ EndLate(h) \/ WorkerTick(h) \/ EndRun(h) \/ Signal(h)
           \/ CloseTraffic(h) \/ CloseStore(h) \/ CloseDatabase(h) \/ Exit(h) \/ Die(h)
    PROVE  /\ \A g \in Hosts : Serving(g)' => Serving(g)
           /\ UNCHANGED <<schema, ledger>>
           /\ migration' = migration \/ migration' = [migration EXCEPT ![h] = Idle]
<1>1. /\ UNCHANGED <<schema, ledger>>
      /\ migration' = migration \/ migration' = [migration EXCEPT ![h] = Idle]
      /\ \A g \in Hosts : g # h => host'[g] = host[g]
  BY DEF HostInv, EndCommand, Listen, FailStart, Accept, Respond, AnswerFirst, EndLate,
         WorkerTick, EndRun, Signal, CloseTraffic, CloseStore, CloseDatabase, Exit, Die, Gone,
         schemaVars, migrationVars
<1>2. host[h] \in Process /\ host \in [Hosts -> Process]
  BY DEF HostInv
<1>3. Serving(h)' => Serving(h)
  <2>1. CASE EndCommand(h) \/ FailStart(h) \/ Exit(h) \/ Die(h)
    BY <1>2, <2>1 DEF EndCommand, FailStart, Exit, Die, Gone, Off, Serving
  <2>2. CASE Listen(h) \/ Signal(h)
    BY <1>2, <2>2 DEF Listen, Signal, Serving
  <2>3. CASE \/ Accept(h) \/ Respond(h) \/ AnswerFirst(h) \/ EndLate(h)
             \/ WorkerTick(h) \/ EndRun(h) \/ CloseTraffic(h) \/ CloseStore(h) \/ CloseDatabase(h)
    <3>1. host'[h].pc = host[h].pc
      BY <1>2, <2>3 DEF Accept, Respond, AnswerFirst, EndLate, WorkerTick, EndRun,
                        CloseTraffic, CloseStore, CloseDatabase, Process
    <3> QED BY <3>1 DEF Serving
  <2> QED BY <2>1, <2>2, <2>3
<1> QED BY <1>1, <1>3 DEF Serving

LEMMA SchemaNext ==
    ASSUME HostInv, SchemaInv, [Next]_vars
    PROVE  SchemaInv'
<1>1. rollbacks' \in Nat
  BY RollbackSteps DEF SchemaInv
<1> SUFFICES ASSUME rollbacks' = 0 PROVE SchemaHolds'
  BY <1>1 DEF SchemaInv
<1>2. SchemaHolds /\ UNCHANGED rollbacks /\ host \in [Hosts -> Process]
  BY RollbackSteps DEF SchemaInv, HostInv
<1>3. \A h \in Hosts : ~CommandDown(h)
  BY <1>2 DEF CommandDown, StartDown, SchemaInv
<1>4. ASSUME NEW h \in Hosts, CommandUp(h)
      PROVE  SchemaHolds'
  <2>1. StartUp(h) /\ host'[h].pc = "command" /\ \A g \in Hosts : g # h => host'[g] = host[g]
    BY <1>2, <1>4 DEF CommandUp, Off
  <2> QED BY <1>2, <2>1, StartingUp DEF Serving
<1>5. ASSUME NEW h \in Hosts, Start(h)
      PROVE  SchemaHolds'
  <2>1. host'[h].pc = "starting" /\ \A g \in Hosts : g # h => host'[g] = host[g]
    BY <1>2, <1>5 DEF Start, Off
  <2>2. CASE production
    <3>1. UNCHANGED <<schema, ledger, migration>>
      BY <1>5, <2>2 DEF Start, schemaVars, migrationVars
    <3>2. \A g \in Hosts : Serving(g)' => Serving(g)
      BY <2>1 DEF Serving
    <3> QED BY <1>2, <3>1, <3>2, ProcessSteps
  <2>3. CASE ~production
    <3>1. StartUp(h)
      BY <1>5, <2>3 DEF Start
    <3> QED BY <1>2, <2>1, <3>1, StartingUp DEF Serving
  <2> QED BY <2>2, <2>3
<1>6. ASSUME NEW h \in Hosts, OpenStore(h)
      PROVE  SchemaHolds'
  <2>1. /\ SchemaCurrent(h) /\ migration' = [migration EXCEPT ![h] = Idle]
        /\ UNCHANGED <<schema, ledger>> /\ \A g \in Hosts : g # h => host'[g] = host[g]
    BY <1>2, <1>6 DEF OpenStore
  <2>2. Names \subseteq ledger
    BY <1>2, <2>1 DEF SchemaCurrent, SchemaHolds, Advanced, Pending
  <2>3. migration' \in [Hosts -> Progress]
    BY <1>2, <2>1 DEF SchemaHolds, Progress, Idle
  <2>4. Advanced(h)'
    BY <1>2, <2>1, OthersAdvance DEF SchemaHolds
  <2> QED BY <1>2, <2>1, <2>2, <2>3, <2>4, SchemaStep DEF SchemaHolds, Serving
<1>7. ASSUME NEW h \in Hosts, Migrate(h)
      PROVE  SchemaHolds'
  BY <1>2, <1>7, MigratingSteps DEF Migrate
<1>8. ASSUME NEW h \in Hosts,
             \/ EndCommand(h) \/ Listen(h) \/ FailStart(h) \/ Accept(h) \/ Respond(h)
             \/ AnswerFirst(h) \/ EndLate(h) \/ WorkerTick(h) \/ EndRun(h) \/ Signal(h)
             \/ CloseTraffic(h) \/ CloseStore(h) \/ CloseDatabase(h) \/ Exit(h) \/ Die(h)
      PROVE  SchemaHolds'
  BY <1>2, <1>8, ServingRemains, ProcessSteps
<1>9. CASE Repair \/ UNCHANGED vars
  <2>1. UNCHANGED <<schema, ledger, migration, host>>
    BY <1>9 DEF Repair, ResolveDuplicates, vars, schemaVars
  <2> QED BY <1>2, <2>1 DEF SchemaHolds, Advanced, Serving
<1> QED BY <1>3, <1>4, <1>5, <1>6, <1>7, <1>8, <1>9 DEF Next

LEMMA SchemaInit == ServerInit => HostInv /\ SchemaInv
<1> SUFFICES ASSUME ServerInit PROVE HostInv /\ SchemaInv
  OBVIOUS
<1>1. HostInv
  BY OffIsOrderly DEF ServerInit, HostInv
<1>2. /\ migration = [h \in Hosts |-> Idle] /\ host = [h \in Hosts |-> Off]
      /\ ledger = {} /\ rollbacks = 0
  BY DEF ServerInit, Init
<1>3. SchemaHolds
  BY <1>2 DEF SchemaHolds, Advanced, Serving, Idle, Off, Progress
<1> QED BY <1>1, <1>2, <1>3 DEF SchemaInv

\* A server that takes requests finds every table, column and index its code relies
\* on, for any number of processes, deaths and repeated migrations, unless an
\* operator rolled a migration back.
THEOREM ServersFindTheirSchema == Spec => []ServingSchemaComplete
<1>1. HostInv /\ SchemaInv => ServingSchemaComplete
  <2> SUFFICES ASSUME SchemaInv, rollbacks = 0, NEW h \in Hosts,
                      host[h].pc \in {"ready", "draining"}
               PROVE  AllObjects \subseteq schema
    BY DEF ServingSchemaComplete
  <2>1. \A m \in Names : Objects(m) \subseteq schema
    BY DEF SchemaInv, SchemaHolds, Serving
  <2> QED BY <2>1 DEF AllObjects
<1> QED BY <1>1, SchemaInit, SchemaNext, NextHolds, PTL DEF Spec
-----------------------------------------------------------------------------
(* Settlements under migrations that neither overlap nor are rolled back.   *)

SettlementHolds ==
    /\ \A g, h \in Hosts : Migrating(g) /\ Migrating(h) => g = h
    /\ \A h \in Hosts : Migrating(h) => migration[h].todo \cap ledger = {}
    /\ settlement # "none" => Names \subseteq ledger
    /\ settlement # "overwritten"

SettlementInv == rollbacks = 0 /\ ~overlapped => SettlementHolds

\* An order is settled by a server, and a server has every migration.
LEMMA RecordedByServers ==
    ASSUME HostInv, SchemaHolds, SettlementHolds, UNCHANGED ledger, NEW h \in Hosts,
           migration' = migration \/ migration' = [migration EXCEPT ![h] = Idle],
           settlement' = settlement \/ Respond(h)
    PROVE  SettlementHolds'
<1>1. \A g \in Hosts : Migrating(g)' => Migrating(g) /\ migration'[g] = migration[g]
  BY DEF SchemaHolds, Migrating, Idle
<1>2. CASE settlement' = settlement
  BY <1>1, <1>2 DEF SettlementHolds
<1>3. CASE Respond(h) /\ settlement' # settlement
  <2>1. settlement' = "recorded" /\ host[h].requests > 0
    BY <1>3 DEF Respond, schemaVars
  <2>2. Names \subseteq ledger
    BY <2>1 DEF HostInv, Orderly, SchemaHolds, Serving
  <2> QED BY <1>1, <2>1, <2>2 DEF SettlementHolds
<1> QED BY <1>2, <1>3

LEMMA SettlementStartsUp ==
    ASSUME SchemaHolds, SettlementHolds, NEW h \in Hosts, StartUp(h), ~overlapped'
    PROVE  SettlementHolds'
<1>1. /\ UNCHANGED <<ledger, settlement>>
      /\ \A g \in Hosts : g # h => ~Migrating(g) /\ migration'[g] = migration[g]
      /\ migration'[h].todo = Names \ ledger
  BY DEF StartUp, NoteOverlap, SchemaHolds, schemaVars, Pending, Idle
<1>2. \A g \in Hosts : g # h => ~Migrating(g)'
  BY <1>1 DEF Migrating
<1> QED BY <1>1, <1>2 DEF SettlementHolds

LEMMA SettlementMigrates ==
    ASSUME SchemaHolds, SettlementHolds, NEW h \in Hosts, MigrationStep(h)
    PROVE  SettlementHolds'
<1> DEFINE m == Current(h)
           g == migration[h]
<1>1. /\ migration \in [Hosts -> Progress] /\ g \in Progress /\ Advanced(h)
      /\ m = First(g.todo)
  BY DEF SchemaHolds, Current
<1>2. g.pc \in {"begin", "add", "log"}
  BY <1>1 DEF MigrationStep, Begin, AddObject, EndPhase, Log, RemoveObject, Unlog, Progress
<1>3. m \in g.todo /\ m \in Names
  BY <1>1, <1>2, FirstIsOne DEF Advanced, Progress
<1>4. Migrating(h) /\ ~(Names \subseteq ledger) /\ settlement = "none"
  BY <1>2, <1>3 DEF Migrating, SettlementHolds
<1>5. settlement' = "none"
  BY <1>2, <1>4 DEF MigrationStep, Begin, AddObject, EndPhase, Log, RemoveObject, Unlog,
                    schemaVars, dataVars
<1>6. \A f \in Hosts : f # h => migration'[f] = migration[f] /\ ~Migrating(f)
  BY <1>1, <1>2, <1>4 DEF SettlementHolds, MigrationStep, Begin, AddObject, EndPhase, Log,
                          RemoveObject, Unlog, Fail
<1>7. \A f \in Hosts : f # h => ~Migrating(f)'
  BY <1>6 DEF Migrating
<1>8. Migrating(h)' => migration'[h].todo \cap ledger' = {}
  <2>1. CASE Fail(h)
    BY <1>1, <2>1 DEF Fail, Migrating, Idle
  <2>2. CASE UNCHANGED ledger /\ migration'[h].todo = g.todo
    BY <1>4, <2>2 DEF SettlementHolds
  <2>3. CASE Log(h) /\ ~Fail(h)
    <3>1. /\ ledger' = ledger \cup {m}
          /\ \/ migration' = [migration EXCEPT ![h] = [Idle EXCEPT !.pc = "done"]]
             \/ migration' = [migration EXCEPT ![h] =
                                [Idle EXCEPT !.pc = "begin", !.todo = g.todo \ {m}]]
      BY <2>3 DEF Log
    <3>2. migration'[h].todo \subseteq g.todo \ {m}
      BY <1>1, <3>1 DEF Idle
    <3> QED BY <1>4, <3>1, <3>2 DEF SettlementHolds
  <2>4. CASE Begin(h) \/ AddObject(h) \/ EndPhase(h)
    <3>1. UNCHANGED ledger
      BY <2>4 DEF Begin, AddObject, EndPhase, schemaVars
    <3>2. Fail(h) \/ migration'[h].todo = g.todo
      BY <1>1, <2>4 DEF Begin, AddObject, EndPhase, Progress
    <3> QED BY <2>1, <2>2, <3>1, <3>2
  <2> QED BY <1>2, <2>1, <2>3, <2>4 DEF MigrationStep, RemoveObject, Unlog
<1> QED BY <1>5, <1>7, <1>8 DEF SettlementHolds

LEMMA SettlementNext ==
    ASSUME HostInv, SchemaInv, SettlementInv, [Next]_vars
    PROVE  SettlementInv'
<1> SUFFICES ASSUME rollbacks' = 0, ~overlapped' PROVE SettlementHolds'
  BY DEF SettlementInv
<1>1. SchemaHolds /\ UNCHANGED rollbacks
  BY RollbackSteps DEF SchemaInv
<1>2. \A h \in Hosts : ~CommandDown(h)
  BY <1>1 DEF CommandDown, StartDown, SchemaInv
<1>3. ~overlapped
  BY <1>2 DEF Next, vars, migrationVars, CommandUp, StartUp, NoteOverlap, EndCommand, Migrate,
         MigrationStep, Begin, AddObject, EndPhase, Log, RemoveObject, Unlog, Start, OpenStore,
         Listen, FailStart, Accept, Respond, AnswerFirst, EndLate, WorkerTick, EndRun,
         Signal, CloseTraffic, CloseStore, CloseDatabase, Exit, Die, Repair, ResolveDuplicates
<1>4. SettlementHolds
  BY <1>1, <1>3 DEF SettlementInv
<1>5. ASSUME NEW h \in Hosts, CommandUp(h) \/ (Start(h) /\ ~production)
      PROVE  SettlementHolds'
  BY <1>1, <1>4, <1>5, SettlementStartsUp DEF CommandUp, Start
<1>6. ASSUME NEW h \in Hosts, Migrate(h)
      PROVE  SettlementHolds'
  BY <1>1, <1>4, <1>6, SettlementMigrates DEF Migrate
<1>7. ASSUME NEW h \in Hosts,
             \/ (Start(h) /\ production) \/ OpenStore(h)
             \/ EndCommand(h) \/ Listen(h) \/ FailStart(h) \/ Accept(h) \/ Respond(h)
             \/ AnswerFirst(h) \/ EndLate(h) \/ WorkerTick(h) \/ EndRun(h) \/ Signal(h)
             \/ CloseTraffic(h) \/ CloseStore(h) \/ CloseDatabase(h) \/ Exit(h) \/ Die(h)
      PROVE  SettlementHolds'
  <2>1. /\ UNCHANGED ledger
        /\ migration' = migration \/ migration' = [migration EXCEPT ![h] = Idle]
        /\ settlement' = settlement \/ Respond(h)
    BY <1>7 DEF Start, OpenStore, EndCommand, Listen, FailStart, Accept, Respond, AnswerFirst,
                EndLate, WorkerTick, EndRun, Signal, CloseTraffic, CloseStore, CloseDatabase,
                Exit, Die, Gone, schemaVars, migrationVars
  <2> QED BY <1>1, <1>4, <2>1, RecordedByServers
<1>8. CASE Repair \/ UNCHANGED vars
  <2>1. UNCHANGED <<ledger, settlement, migration>>
    BY <1>8 DEF Repair, ResolveDuplicates, vars, schemaVars
  <2> QED BY <1>4, <2>1 DEF SettlementHolds, Migrating
<1> QED BY <1>2, <1>5, <1>6, <1>7, <1>8 DEF Next

\* A settlement recorded for an order outlives every later start, retry and death,
\* unless two processes migrated side by side or a migration was rolled back.
THEOREM SettlementsSurvive == Spec => []SettlementsKept
<1>1. ServerInit => SettlementInv
  BY DEF ServerInit, Init, SettlementInv, SettlementHolds, Migrating, Idle
<1>2. SettlementInv /\ SchemaInv => SettlementsKept
  BY DEF SettlementInv, SettlementHolds, SettlementsKept, SchemaInv
<1> QED BY <1>1, <1>2, SchemaInit, SchemaNext, NextHolds, SettlementNext, PTL DEF Spec
=============================================================================

--------------------------- MODULE OrderPlacement ---------------------------
(***************************************************************************)
(* Placing an order: a terminal sends POST /orders with an idempotency     *)
(* key, possibly several times; the backend looks for an earlier order     *)
(* with that key, then creates the order in a transaction that locks the   *)
(* cashier's stall assignment.  Meanwhile managers assign and unassign the *)
(* same cashiers in transactions that lock the user row first and the      *)
(* assignment second.  The orders insert also locks the user row, through  *)
(* its foreign key, so the two lock in opposite orders and the database    *)
(* must break the deadlocks.                                               *)
(***************************************************************************)
EXTENDS Integers, Sequences, FiniteSets

CONSTANTS
    Requests,  \* POST /orders calls; a retry is another request with the key
    Admins,    \* assignment changes asked for by managers
    Cashiers,
    Stalls,
    Keys,      \* idempotency keys
    Bodies,    \* order contents, told apart by their fingerprint
    None,      \* no stall, no lock holder, no order
    MaxFaults  \* bound: requests that fail half-way or lose their answer

ASSUME NoneAssumption == None \notin Requests \cup Admins \cup Stalls
ASSUME DisjointAssumption == Requests \cap Admins = {}
ASSUME MaxFaultsAssumption == MaxFaults \in Nat

VARIABLES
    assignment, \* stall_staff: the committed stall of each cashier
    orders,     \* committed orders, named by the request that created them
    audit,      \* committed assignment audit rows, oldest first
    userLock,   \* X lock on the users row of each cashier
    userShared, \* S locks on it, taken by foreign keys
    staffLock,  \* X lock on the stall_staff row of each cashier
    staffGap,   \* gap locks where a row of a new cashier would go
    request,
    admin,
    faults      \* failures still to come

vars == <<assignment, orders, audit, userLock, userShared, staffLock, staffGap,
          request, admin, faults>>
locks == <<userLock, userShared, staffLock, staffGap>>
-----------------------------------------------------------------------------
Transactions == Requests \cup Admins
StallOrNone == Stalls \cup {None}

Order == [id : Requests, cashier : Cashiers, key : Keys, body : Bodies, stall : Stalls]
AuditRow == [cashier : Cashiers, before : StallOrNone, after : StallOrNone]

\* answer: the outcome, with the order it names
Outcomes == {"open", "created", "replayed", "key_reused", "assignment_changed",
             "unauthorized", "error"}
RequestMemory ==
    [pc : {"new", "lookup", "lock", "insert", "commit", "relookup", "answer", "done"},
     cashier : Cashiers \cup {None}, key : Keys \cup {None}, body : Bodies \cup {None},
     stall : StallOrNone, answer : Outcomes, order : Requests \cup {None}]
NewRequest == [pc |-> "new", cashier |-> None, key |-> None, body |-> None,
               stall |-> None, answer |-> "open", order |-> None]

AdminMemory ==
    [pc : {"new", "lock_user", "lock_staff", "replace", "commit", "done"},
     cashier : Cashiers \cup {None}, kind : {"assign", "unassign"},
     stall : StallOrNone, before : StallOrNone,
     answer : {"open", "changed", "unchanged", "not_found", "error"}]
NewAdmin == [pc |-> "new", cashier |-> None, kind |-> "assign", stall |-> None,
             before |-> None, answer |-> "open"]

TypeOK ==
    /\ assignment \in [Cashiers -> StallOrNone]
    /\ orders \subseteq Order
    /\ audit \in Seq(AuditRow)
    /\ userLock \in [Cashiers -> Admins \cup {None}]
    /\ userShared \in [Cashiers -> SUBSET Requests]
    /\ staffLock \in [Cashiers -> Transactions \cup {None}]
    /\ staffGap \subseteq Admins
    /\ request \in [Requests -> RequestMemory]
    /\ admin \in [Admins -> AdminMemory]
    /\ faults \in 0..MaxFaults

Init ==
    /\ assignment \in [Cashiers -> StallOrNone]
    /\ orders = {}
    /\ audit = << >>
    /\ userLock = [c \in Cashiers |-> None]
    /\ userShared = [c \in Cashiers |-> {}]
    /\ staffLock = [c \in Cashiers |-> None]
    /\ staffGap = {}
    /\ request = [r \in Requests |-> NewRequest]
    /\ admin = [a \in Admins |-> NewAdmin]
    /\ faults = MaxFaults
-----------------------------------------------------------------------------
(* The lock manager of the database (InnoDB). *)

\* Commit and rollback release everything a transaction holds.
Release(t) ==
    /\ userLock' = [c \in Cashiers |-> IF userLock[c] = t THEN None ELSE userLock[c]]
    /\ userShared' = [c \in Cashiers |-> userShared[c] \ {t}]
    /\ staffLock' = [c \in Cashiers |-> IF staffLock[c] = t THEN None ELSE staffLock[c]]
    /\ staffGap' = staffGap \ {t}

UserWriteBlockers(c, t) == (({userLock[c]} \ {None}) \cup userShared[c]) \ {t}
UserReadBlockers(c, t) == {userLock[c]} \ {None, t}
StaffBlockers(c, t) == {staffLock[c]} \ {None, t}
GapBlockers(t) == staffGap \ {t}
-----------------------------------------------------------------------------
(* createOrder. *)

Answer(r, outcome, id) ==
    request' = [request EXCEPT ![r].pc = "done", ![r].answer = outcome, ![r].order = id]

IsAssigned(c) == assignment[c] # None

\* The terminal sends the request; auth.middleware takes the verified stall
\* from the cashier's assignment.
Submit(r, c, k, b) ==
    /\ request[r].pc = "new"
    /\ request' = [request EXCEPT ![r] =
           [NewRequest EXCEPT
               !.pc = IF IsAssigned(c) THEN "lookup" ELSE "done",
               !.cashier = c, !.key = k, !.body = b, !.stall = assignment[c],
               !.answer = IF IsAssigned(c) THEN "open" ELSE "unauthorized"]]
    /\ UNCHANGED <<assignment, orders, audit, locks, admin, faults>>

SameKey(x, y) == x.cashier = y.cashier /\ x.key = y.key
Earlier(r) == {o \in orders : SameKey(o, request[r])}

\* Faulty variant: the fingerprint of the stored order is not compared.
SameRequestUnchecked(o, r) == TRUE

\* idempotency_fingerprint = fingerprint
SameRequest(o, r) == o.body = request[r].body

\* findIdempotentOrder, when it finds an order: replay it or refuse the key.
AnswerFrom(r, o) ==
    IF SameRequest(o, r) THEN Answer(r, "replayed", o.id)
                         ELSE Answer(r, "key_reused", None)

\* Outside the transaction.
Lookup(r) ==
    /\ request[r].pc = "lookup"
    /\ IF Earlier(r) # {}
       THEN \E o \in Earlier(r) : AnswerFrom(r, o)
       ELSE request' = [request EXCEPT ![r].pc = "lock"]
    /\ UNCHANGED <<assignment, orders, audit, locks, admin, faults>>

\* Faulty variant: the assignment is read without a lock.
HoldStaffUnlocked(r) == UNCHANGED staffLock

HoldStaff(r) == staffLock' = [staffLock EXCEPT ![request[r].cashier] = r]

\* SELECT ... FOR UPDATE of the assignment to the verified stall.
LockAssignmentRow(r) ==
    LET c == request[r].cashier IN
    /\ request[r].pc = "lock"
    /\ StaffBlockers(c, r) = {}
    /\ IF assignment[c] = request[r].stall
       THEN /\ HoldStaff(r)
            /\ request' = [request EXCEPT ![r].pc = "insert"]
       ELSE /\ Answer(r, "assignment_changed", None)
            /\ UNCHANGED staffLock
    /\ UNCHANGED <<assignment, orders, audit, userLock, userShared, staffGap, admin, faults>>

\* Faulty variant: no unique index on (cashier_id, idempotency_key).
KeyFreeUnindexed(r) == TRUE

\* uq_orders_cashier_idempotency
KeyFree(r) == Earlier(r) = {}

Inserting(r, q) ==
    q # r /\ request[q].pc = "commit" /\ SameKey(request[q], request[r])

\* INSERT INTO orders: waits for an uncommitted row with the same key, checks
\* the unique key and takes a shared lock on the cashier's users row.
InsertOrder(r) ==
    LET c == request[r].cashier IN
    /\ request[r].pc = "insert"
    /\ UserReadBlockers(c, r) = {}
    /\ \A q \in Requests : ~Inserting(r, q)
    /\ KeyFree(r)
    /\ userShared' = [userShared EXCEPT ![c] = @ \cup {r}]
    /\ request' = [request EXCEPT ![r].pc = "commit"]
    /\ UNCHANGED <<assignment, orders, audit, userLock, staffLock, staffGap, admin, faults>>

\* Faulty variant: the transaction is left open when the insert fails.
RollbackForgotten(r) == UNCHANGED locks

Rollback(r) == Release(r)

\* UniqueConstraintError: roll back, then look the winner up.
InsertRefused(r) ==
    /\ request[r].pc = "insert"
    /\ ~KeyFree(r)
    /\ Rollback(r)
    /\ request' = [request EXCEPT ![r].pc = "relookup"]
    /\ UNCHANGED <<assignment, orders, audit, admin, faults>>

Relookup(r) ==
    /\ request[r].pc = "relookup"
    /\ IF Earlier(r) # {}
       THEN \E o \in Earlier(r) : AnswerFrom(r, o)
       ELSE Answer(r, "error", None)
    /\ UNCHANGED <<assignment, orders, audit, locks, admin, faults>>

CommitOrder(r) ==
    /\ request[r].pc = "commit"
    /\ orders' = orders \cup {[id |-> r, cashier |-> request[r].cashier,
                               key |-> request[r].key, body |-> request[r].body,
                               stall |-> request[r].stall]}
    /\ Release(r)
    /\ request' = [request EXCEPT ![r].pc = "answer"]
    /\ UNCHANGED <<assignment, audit, admin, faults>>

AnswerCreated(r) ==
    /\ request[r].pc = "answer"
    /\ Answer(r, "created", r)
    /\ UNCHANGED <<assignment, orders, audit, locks, admin, faults>>

\* A statement or the reload after the commit throws, or the process stops: an
\* open transaction is rolled back and the terminal gets no order.
FailRequest(r) ==
    /\ request[r].pc \notin {"new", "done"}
    /\ faults > 0
    /\ faults' = faults - 1
    /\ Release(r)
    /\ Answer(r, "error", None)
    /\ UNCHANGED <<assignment, orders, audit, admin>>

RequestStep(r) ==
    \/ Lookup(r) \/ LockAssignmentRow(r) \/ InsertOrder(r) \/ InsertRefused(r)
    \/ Relookup(r) \/ CommitOrder(r) \/ AnswerCreated(r)
-----------------------------------------------------------------------------
(* assignStaffToStall and removeStaffFromStall. *)

Finish(a, outcome) ==
    admin' = [admin EXCEPT ![a].pc = "done", ![a].answer = outcome]

AskAssignment(a, c, kind, s) ==
    /\ admin[a].pc = "new"
    /\ admin' = [admin EXCEPT ![a] =
           [NewAdmin EXCEPT !.pc = "lock_user", !.cashier = c, !.kind = kind, !.stall = s]]
    /\ UNCHANGED <<assignment, orders, audit, locks, request, faults>>

\* Faulty variant: lockStaffUser does not wait for the row.
UserRowFreeUnlocked(a) == TRUE

UserRowFree(a) == UserWriteBlockers(admin[a].cashier, a) = {}

LockStaffUser(a) ==
    /\ admin[a].pc = "lock_user"
    /\ UserRowFree(a)
    /\ userLock' = [userLock EXCEPT ![admin[a].cashier] = a]
    /\ admin' = [admin EXCEPT ![a].pc = "lock_staff"]
    /\ UNCHANGED <<assignment, orders, audit, userShared, staffLock, staffGap, request, faults>>

\* Nothing to do: the row already names the stall, or there is none to remove.
NothingToChange(a) ==
    LET current == assignment[admin[a].cashier] IN
    IF admin[a].kind = "assign" THEN current = admin[a].stall
                                ELSE current # admin[a].stall

\* SELECT ... FOR UPDATE of the existing row, or of the gap where it would be.
ReadAssignment(a) ==
    LET c == admin[a].cashier IN
    /\ admin[a].pc = "lock_staff"
    /\ StaffBlockers(c, a) = {}
    /\ IF NothingToChange(a)
       THEN /\ Finish(a, IF admin[a].kind = "assign" THEN "unchanged" ELSE "not_found")
            /\ Release(a)
       ELSE /\ admin' = [admin EXCEPT ![a].pc = "replace", ![a].before = assignment[c]]
            /\ IF assignment[c] = None
               THEN staffGap' = staffGap \cup {a} /\ UNCHANGED staffLock
               ELSE staffLock' = [staffLock EXCEPT ![c] = a] /\ UNCHANGED staffGap
            /\ UNCHANGED <<userLock, userShared>>
    /\ UNCHANGED <<assignment, orders, audit, request, faults>>

\* DELETE of the old row and INSERT of the new one, locked until the commit; the
\* insert waits for the gap locks of others when the cashier had no row.
ReplaceRow(a) ==
    /\ admin[a].pc = "replace"
    /\ admin[a].before = None => GapBlockers(a) = {}
    /\ admin' = [admin EXCEPT ![a].pc = "commit"]
    /\ staffLock' = [staffLock EXCEPT ![admin[a].cashier] = a]
    /\ UNCHANGED <<assignment, orders, audit, userLock, userShared, staffGap,
                   request, faults>>

StallAfter(a) == IF admin[a].kind = "assign" THEN admin[a].stall ELSE None

\* Faulty variant: the two stalls are swapped in the audit row.
AuditEntrySwapped(a) == [cashier |-> admin[a].cashier, before |-> StallAfter(a),
                         after |-> admin[a].before]

AuditEntry(a) == [cashier |-> admin[a].cashier, before |-> admin[a].before,
                  after |-> StallAfter(a)]

CommitAssignment(a) ==
    /\ admin[a].pc = "commit"
    /\ assignment' = [assignment EXCEPT ![admin[a].cashier] = StallAfter(a)]
    /\ audit' = Append(audit, AuditEntry(a))
    /\ Finish(a, "changed")
    /\ Release(a)
    /\ UNCHANGED <<orders, request, faults>>

AdminStep(a) ==
    LockStaffUser(a) \/ ReadAssignment(a) \/ ReplaceRow(a) \/ CommitAssignment(a)
-----------------------------------------------------------------------------
(* Deadlock detection. *)

\* The transactions that keep t from its next step.
Blockers(t) ==
    IF t \in Requests
    THEN LET c == request[t].cashier IN
         CASE request[t].pc = "lock"   -> StaffBlockers(c, t)
           [] request[t].pc = "insert" -> UserReadBlockers(c, t)
                                          \cup {q \in Requests : Inserting(t, q)}
           [] OTHER -> {}
    ELSE LET c == admin[t].cashier IN
         CASE admin[t].pc = "lock_user"  -> UserWriteBlockers(c, t)
           [] admin[t].pc = "lock_staff" -> StaffBlockers(c, t)
           [] admin[t].pc = "replace" /\ admin[t].before = None -> GapBlockers(t)
           [] OTHER -> {}

\* Every member of a cycle waits for a member and is waited for by one.
Cycle(S) ==
    /\ S # {}
    /\ \A t \in S : Blockers(t) \cap S # {} /\ \E u \in S : t \in Blockers(u)

\* The database rolls one transaction of a cycle back; createOrder rethrows
\* the error and so does the assignment change.
DeadlockVictim(t) ==
    /\ \E S \in SUBSET Transactions : t \in S /\ Cycle(S)
    /\ Release(t)
    /\ IF t \in Requests
       THEN Answer(t, "error", None) /\ UNCHANGED admin
       ELSE Finish(t, "error") /\ UNCHANGED request
    /\ UNCHANGED <<assignment, orders, audit, faults>>
-----------------------------------------------------------------------------
Next ==
    \/ \E r \in Requests, c \in Cashiers, k \in Keys, b \in Bodies : Submit(r, c, k, b)
    \/ \E r \in Requests : RequestStep(r) \/ FailRequest(r)
    \/ \E a \in Admins, c \in Cashiers, kind \in {"assign", "unassign"}, s \in Stalls :
          AskAssignment(a, c, kind, s)
    \/ \E a \in Admins : AdminStep(a)
    \/ \E t \in Transactions : DeadlockVictim(t)

Spec == Init /\ [][Next]_vars

\* Started work goes on, locks are granted in order of arrival and the database
\* breaks deadlocks; nobody has to send a request.
Fairness ==
    /\ \A r \in Requests : SF_vars(RequestStep(r))
    /\ \A a \in Admins : SF_vars(AdminStep(a))
    /\ WF_vars(\E t \in Transactions : DeadlockVictim(t))

FairSpec == Spec /\ Fairness
-----------------------------------------------------------------------------
\* Retries of a checkout, in parallel or after a lost answer, never create a
\* second order for the cashier's key.
OneOrderPerKey ==
    \A x, y \in orders : SameKey(x, y) => x = y

\* Whoever is told of an order gets one that exists, was placed by the same
\* cashier and holds exactly what this request asked for.
AnswersAreOwnOrders ==
    \A r \in Requests : request[r].answer \in {"created", "replayed"} =>
        \E o \in orders : /\ o.id = request[r].order
                          /\ SameKey(o, request[r])
                          /\ o.body = request[r].body

\* Assignment changes of one cashier are serialized by the user row: they never
\* wait for each other in a circle ("so concurrent first assignments and
\* reassignments for the same Cashier are serialized", stall.repository.js).
AssignmentsSerialized ==
    \A a, b \in Admins :
        admin[a].cashier = admin[b].cashier /\ b \in Blockers(a) => a \notin Blockers(b)

\* The audit rows of a cashier form a chain that ends in the present
\* assignment: each change recorded the stall it really replaced.
AuditChain ==
    \A i \in DOMAIN audit :
        LET later == {j \in DOMAIN audit : j > i /\ audit[j].cashier = audit[i].cashier}
            next == CHOOSE j \in later : \A l \in later : j <= l
        IN  IF later = {} THEN audit[i].after = assignment[audit[i].cashier]
                          ELSE audit[i].after = audit[next].before

\* An order is committed only while its cashier is assigned to its stall, even
\* when the assignment changes after the request was authenticated.
OrderInAssignedStall ==
    [][\A o \in orders' \ orders : assignment[o.cashier] = o.stall]_vars

\* Every request and every assignment change is answered: nobody waits for a
\* lock for ever, whatever order the locks were taken in.
EveryoneAnswered ==
    /\ \A r \in Requests : request[r].pc # "new" ~> request[r].pc = "done"
    /\ \A a \in Admins : admin[a].pc # "new" ~> admin[a].pc = "done"
=============================================================================

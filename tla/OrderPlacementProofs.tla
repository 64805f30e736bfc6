------------------------ MODULE OrderPlacementProofs ------------------------
(***************************************************************************)
(* Orders and assignment changes, for any number of terminals, managers,   *)
(* cashiers and keys.  First what each step does to the memory of its      *)
(* request or change (the lemmas ...Moves); then four invariants: types,   *)
(* one order per key, the two row locks, the chain of audit rows.          *)
(***************************************************************************)
EXTENDS OrderPlacement, WellFoundedInduction, TLAPS

USE NoneAssumption, DisjointAssumption, MaxFaultsAssumption

\* A request that was sent, and an assignment change that was asked for, know whom
\* they are about; only a cashier with a stall gets past the authentication.
RequestsTyped ==
    /\ request \in [Requests -> RequestMemory]
    /\ \A r \in Requests : request[r].pc # "new" =>
          /\ request[r].cashier \in Cashiers /\ request[r].key \in Keys
          /\ request[r].body \in Bodies
          /\ request[r].pc # "done" => request[r].stall \in Stalls
    /\ \A r \in Requests : request[r].pc \notin {"done"} => request[r].answer = "open"

AdminsTyped ==
    /\ admin \in [Admins -> AdminMemory]
    /\ \A a \in Admins : admin[a].pc # "new" =>
          admin[a].cashier \in Cashiers /\ admin[a].stall \in Stalls

LocksTyped ==
    /\ userLock \in [Cashiers -> Admins \cup {None}]
    /\ userShared \in [Cashiers -> SUBSET Requests]
    /\ staffLock \in [Cashiers -> Transactions \cup {None}]
    /\ staffGap \subseteq Admins

StoreTyped ==
    /\ assignment \in [Cashiers -> StallOrNone]
    /\ orders \subseteq Order
    /\ audit \in Seq(AuditRow)
    /\ faults \in 0..MaxFaults

TypeInv == RequestsTyped /\ AdminsTyped /\ LocksTyped /\ StoreTyped

LEMMA TypeInvTypeOK == TypeInv => TypeOK
BY DEF TypeInv, TypeOK, RequestsTyped, AdminsTyped, LocksTyped, StoreTyped

LEMMA InitTyped == Init => TypeInv
<1> SUFFICES ASSUME Init PROVE TypeInv
  OBVIOUS
<1>1. NewRequest \in RequestMemory /\ NewRequest.pc = "new" /\ NewRequest.answer = "open"
  BY DEF NewRequest, RequestMemory, Outcomes, StallOrNone
<1>2. NewAdmin \in AdminMemory /\ NewAdmin.pc = "new"
  BY DEF NewAdmin, AdminMemory, StallOrNone
<1>3. RequestsTyped
  BY <1>1 DEF Init, RequestsTyped
<1>4. AdminsTyped
  BY <1>2 DEF Init, AdminsTyped
<1>5. LocksTyped
  BY DEF Init, LocksTyped, Transactions
<1>6. StoreTyped
  BY DEF Init, StoreTyped
<1> QED BY <1>3, <1>4, <1>5, <1>6 DEF TypeInv

\* What commit and rollback leave locked.
LEMMA Released ==
    ASSUME LocksTyped, NEW t \in Transactions, Release(t)
    PROVE  /\ LocksTyped'
           /\ \A c \in Cashiers : /\ userLock[c] # t => userLock'[c] = userLock[c]
                                  /\ userLock[c] = t => userLock'[c] = None
                                  /\ staffLock[c] # t => staffLock'[c] = staffLock[c]
                                  /\ staffLock[c] = t => staffLock'[c] = None
<1>1. /\ userLock' = [c \in Cashiers |-> IF userLock[c] = t THEN None ELSE userLock[c]]
      /\ userShared' = [c \in Cashiers |-> userShared[c] \ {t}]
      /\ staffLock' = [c \in Cashiers |-> IF staffLock[c] = t THEN None ELSE staffLock[c]]
      /\ staffGap' = staffGap \ {t}
  BY DEF Release
<1>2. userLock' \in [Cashiers -> Admins \cup {None}]
  BY <1>1 DEF LocksTyped
<1>3. staffLock' \in [Cashiers -> Transactions \cup {None}]
  BY <1>1 DEF LocksTyped
<1>4. userShared' \in [Cashiers -> SUBSET Requests]
  BY <1>1 DEF LocksTyped
<1>5. staffGap' \subseteq Admins
  BY <1>1 DEF LocksTyped
<1> QED BY <1>1, <1>2, <1>3, <1>4, <1>5 DEF LocksTyped
-----------------------------------------------------------------------------
(* What a step does to the memory of its request or its change. *)

RequestStates == {"new", "lookup", "lock", "insert", "commit", "relookup", "answer", "done"}
Open == RequestStates \ {"new", "done"}

\* Request r moves to p and keeps what it is about; while open it has no answer.
Moved(r, p) ==
    /\ request' \in [Requests -> RequestMemory]
    /\ \A q \in Requests : q # r => request'[q] = request[q]
    /\ request[r].pc \in Open
    /\ request'[r].pc = p
    /\ request'[r].cashier = request[r].cashier /\ request'[r].key = request[r].key
    /\ request'[r].body = request[r].body /\ request'[r].stall = request[r].stall
    /\ p # "done" => request'[r].answer = request[r].answer

LEMMA AnswerMoves ==
    ASSUME TypeInv, NEW r \in Requests, request[r].pc \in Open,
           NEW outcome \in Outcomes, NEW id \in Requests \cup {None}, Answer(r, outcome, id)
    PROVE  Moved(r, "done") /\ request'[r].answer = outcome /\ request'[r].order = id
<1>1. request \in [Requests -> RequestMemory]
  BY DEF TypeInv, RequestsTyped
<1> DEFINE x == [request[r] EXCEPT !.pc = "done", !.answer = outcome, !.order = id]
<1>2. /\ x \in RequestMemory /\ x.pc = "done" /\ x.answer = outcome /\ x.order = id
      /\ x.cashier = request[r].cashier /\ x.key = request[r].key
      /\ x.body = request[r].body /\ x.stall = request[r].stall
  BY <1>1 DEF RequestMemory
<1>3. request' = [request EXCEPT ![r] = x]
  BY <1>1 DEF Answer
<1> HIDE DEF x
<1>4. request'[r] = x /\ \A q \in Requests : q # r => request'[q] = request[q]
  BY <1>1, <1>3
<1>5. request' \in [Requests -> RequestMemory]
  BY <1>1, <1>2, <1>3
<1> QED BY <1>2, <1>4, <1>5 DEF Moved

LEMMA PcMoves ==
    ASSUME TypeInv, NEW r \in Requests, request[r].pc \in Open, NEW p \in Open,
           request' = [request EXCEPT ![r].pc = p]
    PROVE  Moved(r, p)
<1>1. request \in [Requests -> RequestMemory]
  BY DEF TypeInv, RequestsTyped
<1> DEFINE x == [request[r] EXCEPT !.pc = p]
<1>2. /\ x \in RequestMemory /\ x.pc = p /\ x.answer = request[r].answer
      /\ x.cashier = request[r].cashier /\ x.key = request[r].key
      /\ x.body = request[r].body /\ x.stall = request[r].stall
  BY <1>1 DEF RequestMemory, Open, RequestStates
<1>3. request' = [request EXCEPT ![r] = x]
  BY <1>1
<1> HIDE DEF x
<1>4. request'[r] = x /\ \A q \in Requests : q # r => request'[q] = request[q]
  BY <1>1, <1>3
<1>5. request' \in [Requests -> RequestMemory]
  BY <1>1, <1>2, <1>3
<1> QED BY <1>2, <1>4, <1>5 DEF Moved

LEMMA MovedTyped ==
    ASSUME TypeInv, NEW r \in Requests, NEW p \in Open \cup {"done"}, Moved(r, p)
    PROVE  RequestsTyped'
<1>1. request[r].pc \notin {"new", "done"} /\ p # "new"
  BY DEF Moved, Open
<1> QED BY <1>1 DEF TypeInv, RequestsTyped, Moved

LEMMA AnswerFromMoves ==
    ASSUME TypeInv, NEW r \in Requests, request[r].pc \in Open, NEW o \in orders,
           AnswerFrom(r, o)
    PROVE  /\ Moved(r, "done")
           /\ \/ /\ request'[r].answer = "replayed" /\ request'[r].order = o.id
                 /\ o.body = request[r].body
              \/ request'[r].answer = "key_reused"
<1>1. o.id \in Requests
  BY DEF TypeInv, StoreTyped, Order
<1>2. "replayed" \in Outcomes /\ "key_reused" \in Outcomes
  BY DEF Outcomes
<1>3. CASE SameRequest(o, r)
  <2>1. Answer(r, "replayed", o.id)
    BY <1>3 DEF AnswerFrom
  <2> QED BY <1>1, <1>2, <1>3, <2>1, AnswerMoves DEF SameRequest
<1>4. CASE ~SameRequest(o, r)
  <2>1. Answer(r, "key_reused", None)
    BY <1>4 DEF AnswerFrom
  <2> QED BY <1>2, <2>1, AnswerMoves
<1> QED BY <1>3, <1>4

LEMMA LookupMoves ==
    ASSUME TypeInv, NEW r \in Requests, Lookup(r) \/ Relookup(r)
    PROVE  /\ UNCHANGED <<assignment, orders, audit, locks, admin, faults>>
           /\ \/ Moved(r, "lock")
              \/ /\ Moved(r, "done")
                 /\ \/ request'[r].answer \in {"key_reused", "error"}
                    \/ \E o \in Earlier(r) : /\ request'[r].answer = "replayed"
                                             /\ request'[r].order = o.id
                                             /\ o.body = request[r].body
<1>1. request[r].pc \in Open /\ UNCHANGED <<assignment, orders, audit, locks, admin, faults>>
  BY DEF Lookup, Relookup, Open, RequestStates
<1>2. ASSUME NEW o \in Earlier(r), AnswerFrom(r, o)
      PROVE  /\ Moved(r, "done")
             /\ \/ request'[r].answer = "key_reused"
                \/ /\ request'[r].answer = "replayed" /\ request'[r].order = o.id
                   /\ o.body = request[r].body
  <2>1. o \in orders
    BY DEF Earlier
  <2> QED BY <1>1, <1>2, <2>1, AnswerFromMoves
<1>3. ASSUME request' = [request EXCEPT ![r].pc = "lock"]
      PROVE  Moved(r, "lock")
  <2>1. "lock" \in Open
    BY DEF Open, RequestStates
  <2> QED BY <1>1, <1>3, <2>1, PcMoves
<1>4. ASSUME Answer(r, "error", None)
      PROVE  Moved(r, "done") /\ request'[r].answer = "error"
  <2>1. "error" \in Outcomes
    BY DEF Outcomes
  <2> QED BY <1>1, <1>4, <2>1, AnswerMoves
<1>5. \/ \E o \in Earlier(r) : AnswerFrom(r, o)
      \/ request' = [request EXCEPT ![r].pc = "lock"]
      \/ Answer(r, "error", None)
  BY DEF Lookup, Relookup
<1> QED BY <1>1, <1>2, <1>3, <1>4, <1>5

LEMMA LockRowMoves ==
    ASSUME TypeInv, NEW r \in Requests, LockAssignmentRow(r)
    PROVE  /\ UNCHANGED <<assignment, orders, audit, userLock, userShared, staffGap, admin, faults>>
           /\ staffLock[request[r].cashier] \in {None, r}
           /\ \/ /\ Moved(r, "insert")
                 /\ staffLock' = [staffLock EXCEPT ![request[r].cashier] = r]
                 /\ assignment[request[r].cashier] = request[r].stall
              \/ /\ Moved(r, "done") /\ request'[r].answer = "assignment_changed"
                 /\ UNCHANGED staffLock
<1>1. request[r].pc \in Open /\ staffLock[request[r].cashier] \in {None, r}
      /\ UNCHANGED <<assignment, orders, audit, userLock, userShared, staffGap, admin, faults>>
  BY DEF LockAssignmentRow, Open, RequestStates, StaffBlockers
<1>2. "insert" \in Open /\ "assignment_changed" \in Outcomes
  BY DEF Open, RequestStates, Outcomes
<1>3. CASE assignment[request[r].cashier] = request[r].stall
  <2>1. /\ request' = [request EXCEPT ![r].pc = "insert"]
        /\ staffLock' = [staffLock EXCEPT ![request[r].cashier] = r]
    BY <1>3 DEF LockAssignmentRow, HoldStaff
  <2> QED BY <1>1, <1>2, <1>3, <2>1, PcMoves
<1>4. CASE assignment[request[r].cashier] # request[r].stall
  <2>1. Answer(r, "assignment_changed", None) /\ UNCHANGED staffLock
    BY <1>4 DEF LockAssignmentRow
  <2> QED BY <1>1, <1>2, <2>1, AnswerMoves
<1> QED BY <1>3, <1>4

LEMMA InsertMoves ==
    ASSUME TypeInv, NEW r \in Requests, InsertOrder(r)
    PROVE  /\ UNCHANGED <<assignment, orders, audit, userLock, staffLock, staffGap, admin, faults>>
           /\ Moved(r, "commit") /\ request[r].pc = "insert"
           /\ KeyFree(r) /\ \A q \in Requests : ~Inserting(r, q)
           /\ userShared' \in [Cashiers -> SUBSET Requests]
<1>1. request[r].pc \in Open /\ "commit" \in Open
  BY DEF InsertOrder, Open, RequestStates
<1>2. Moved(r, "commit")
  BY <1>1, PcMoves DEF InsertOrder
<1>3. userShared' \in [Cashiers -> SUBSET Requests]
  BY DEF InsertOrder, TypeInv, LocksTyped
<1> QED BY <1>2, <1>3 DEF InsertOrder

LEMMA RefusedMoves ==
    ASSUME TypeInv, NEW r \in Requests, InsertRefused(r)
    PROVE  /\ UNCHANGED <<assignment, orders, audit, admin, faults>>
           /\ Moved(r, "relookup") /\ Release(r)
<1>1. request[r].pc \in Open /\ "relookup" \in Open
  BY DEF InsertRefused, Open, RequestStates
<1>2. Moved(r, "relookup")
  BY <1>1, PcMoves DEF InsertRefused
<1> QED BY <1>2 DEF InsertRefused, Rollback

NewOrder(r) == [id |-> r, cashier |-> request[r].cashier, key |-> request[r].key,
                body |-> request[r].body, stall |-> request[r].stall]

LEMMA CommitOrderMoves ==
    ASSUME TypeInv, NEW r \in Requests, CommitOrder(r)
    PROVE  /\ UNCHANGED <<assignment, audit, admin, faults>>
           /\ Moved(r, "answer") /\ Release(r) /\ request[r].pc = "commit"
           /\ orders' = orders \cup {NewOrder(r)} /\ NewOrder(r) \in Order
<1>1. request[r].pc \in Open /\ "answer" \in Open /\ request[r].pc = "commit"
  BY DEF CommitOrder, Open, RequestStates
<1>2. Moved(r, "answer")
  BY <1>1, PcMoves DEF CommitOrder
<1>3. NewOrder(r) \in Order
  BY <1>1 DEF NewOrder, Order, TypeInv, RequestsTyped
<1> QED BY <1>1, <1>2, <1>3 DEF CommitOrder, NewOrder

LEMMA CreatedMoves ==
    ASSUME TypeInv, NEW r \in Requests, AnswerCreated(r)
    PROVE  /\ UNCHANGED <<assignment, orders, audit, locks, admin, faults>>
           /\ Moved(r, "done") /\ request[r].pc = "answer"
           /\ request'[r].answer = "created" /\ request'[r].order = r
<1>1. request[r].pc \in Open /\ "created" \in Outcomes
  BY DEF AnswerCreated, Open, RequestStates, Outcomes
<1>2. Answer(r, "created", r)
  BY DEF AnswerCreated
<1> QED BY <1>1, <1>2, AnswerMoves DEF AnswerCreated

LEMMA FailMoves ==
    ASSUME TypeInv, NEW r \in Requests, FailRequest(r)
    PROVE  /\ UNCHANGED <<assignment, orders, audit, admin>>
           /\ Moved(r, "done") /\ Release(r) /\ request'[r].answer = "error"
           /\ faults' \in 0..MaxFaults
<1>1. request[r].pc \in Open /\ "error" \in Outcomes
  BY DEF FailRequest, Open, RequestStates, Outcomes, TypeInv, RequestsTyped, RequestMemory
<1>2. Answer(r, "error", None)
  BY DEF FailRequest
<1>3. faults' \in 0..MaxFaults
  BY DEF FailRequest, TypeInv, StoreTyped
<1> QED BY <1>1, <1>2, <1>3, AnswerMoves DEF FailRequest

\* Request r is sent: what it is about is filled in, nothing else moves.
Sent(r) ==
    /\ request' \in [Requests -> RequestMemory]
    /\ \A q \in Requests : q # r => request'[q] = request[q]
    /\ request[r].pc = "new"
    /\ request'[r].pc \in {"lookup", "done"}
    /\ request'[r].answer \in {"open", "unauthorized"}
    /\ request'[r].pc = "lookup" => request'[r].answer = "open"
    /\ request'[r].cashier \in Cashiers /\ request'[r].key \in Keys
    /\ request'[r].body \in Bodies
    /\ request'[r].pc # "done" => request'[r].stall \in Stalls

LEMMA SubmitMoves ==
    ASSUME TypeInv, NEW r \in Requests, NEW c \in Cashiers, NEW k \in Keys, NEW b \in Bodies,
           Submit(r, c, k, b)
    PROVE  Sent(r) /\ UNCHANGED <<assignment, orders, audit, locks, admin, faults>>
<1>1. request \in [Requests -> RequestMemory] /\ assignment[c] \in StallOrNone
  BY DEF TypeInv, RequestsTyped, StoreTyped
<1>2. PICK p \in {"lookup", "done"}, ans \in {"open", "unauthorized"} :
          /\ p = IF IsAssigned(c) THEN "lookup" ELSE "done"
          /\ ans = IF IsAssigned(c) THEN "open" ELSE "unauthorized"
          /\ p = "lookup" => ans = "open" /\ assignment[c] \in Stalls
  BY <1>1 DEF IsAssigned, StallOrNone
<1> DEFINE x == [NewRequest EXCEPT !.pc = p, !.cashier = c, !.key = k, !.body = b,
                                   !.stall = assignment[c], !.answer = ans]
<1>3. /\ x \in RequestMemory /\ x.pc = p /\ x.answer = ans /\ x.stall = assignment[c]
      /\ x.cashier = c /\ x.key = k /\ x.body = b
  <2>1. NewRequest \in RequestMemory
    BY DEF NewRequest, RequestMemory, Outcomes, StallOrNone
  <2>2. ans \in Outcomes /\ assignment[c] \in StallOrNone
    BY <1>1 DEF Outcomes
  <2> QED BY <2>1, <2>2 DEF RequestMemory
<1>4. request' = [request EXCEPT ![r] = x]
  <2>1. p = (IF IsAssigned(c) THEN "lookup" ELSE "done")
        /\ ans = (IF IsAssigned(c) THEN "open" ELSE "unauthorized")
    BY <1>2
  <2> QED BY <2>1, Zenon DEF Submit
<1>5. request[r].pc = "new" /\ UNCHANGED <<assignment, orders, audit, locks, admin, faults>>
  BY DEF Submit
<1> HIDE DEF x
<1>6. request'[r] = x /\ \A q \in Requests : q # r => request'[q] = request[q]
  BY <1>1, <1>4
<1>7. request' \in [Requests -> RequestMemory]
  BY <1>1, <1>3, <1>4
<1> QED BY <1>2, <1>3, <1>5, <1>6, <1>7 DEF Sent

LEMMA SentTyped ==
    ASSUME TypeInv, NEW r \in Requests, Sent(r)
    PROVE  RequestsTyped'
<1>1. ASSUME NEW q \in Requests, request'[q].pc # "new"
      PROVE  /\ request'[q].cashier \in Cashiers /\ request'[q].key \in Keys
             /\ request'[q].body \in Bodies
             /\ request'[q].pc # "done" => request'[q].stall \in Stalls
  BY <1>1 DEF Sent, TypeInv, RequestsTyped
<1>2. ASSUME NEW q \in Requests, request'[q].pc # "done"
      PROVE  request'[q].answer = "open"
  BY <1>2 DEF Sent, TypeInv, RequestsTyped
<1> QED BY <1>1, <1>2 DEF Sent, RequestsTyped

AdminStates == {"new", "lock_user", "lock_staff", "replace", "commit", "done"}

\* Change a moves to p and keeps what it is about, and before unless it reads it.
Changed(a, p) ==
    /\ admin' \in [Admins -> AdminMemory]
    /\ \A b \in Admins : b # a => admin'[b] = admin[b]
    /\ admin[a].pc # "new"
    /\ admin'[a].pc = p
    /\ admin'[a].cashier = admin[a].cashier /\ admin'[a].stall = admin[a].stall

LEMMA ChangedTyped ==
    ASSUME TypeInv, NEW a \in Admins, NEW p \in AdminStates, Changed(a, p)
    PROVE  AdminsTyped'
BY DEF TypeInv, AdminsTyped, Changed

LEMMA FinishMoves ==
    ASSUME TypeInv, NEW a \in Admins, admin[a].pc # "new",
           NEW outcome \in {"changed", "unchanged", "not_found", "error"}, Finish(a, outcome)
    PROVE  Changed(a, "done")
<1>1. admin \in [Admins -> AdminMemory]
  BY DEF TypeInv, AdminsTyped
<1> DEFINE x == [admin[a] EXCEPT !.pc = "done", !.answer = outcome]
<1>2. /\ x \in AdminMemory /\ x.pc = "done"
      /\ x.cashier = admin[a].cashier /\ x.stall = admin[a].stall
  BY <1>1 DEF AdminMemory
<1>3. admin' = [admin EXCEPT ![a] = x]
  BY <1>1 DEF Finish
<1> HIDE DEF x
<1>4. admin'[a] = x /\ \A b \in Admins : b # a => admin'[b] = admin[b]
  BY <1>1, <1>3
<1>5. admin' \in [Admins -> AdminMemory]
  BY <1>1, <1>2, <1>3
<1> QED BY <1>2, <1>4, <1>5 DEF Changed

LEMMA AdminPcMoves ==
    ASSUME TypeInv, NEW a \in Admins, admin[a].pc # "new", NEW p \in AdminStates,
           NEW before \in StallOrNone,
           admin' = [admin EXCEPT ![a].pc = p, ![a].before = before]
    PROVE  Changed(a, p) /\ admin'[a].before = before
<1>1. admin \in [Admins -> AdminMemory]
  BY DEF TypeInv, AdminsTyped
<1> DEFINE x == [admin[a] EXCEPT !.pc = p, !.before = before]
<1>2. /\ x \in AdminMemory /\ x.pc = p /\ x.before = before
      /\ x.cashier = admin[a].cashier /\ x.stall = admin[a].stall
  BY <1>1 DEF AdminMemory, AdminStates
<1>3. admin' = [admin EXCEPT ![a] = x]
  BY <1>1
<1> HIDE DEF x
<1>4. admin'[a] = x /\ \A b \in Admins : b # a => admin'[b] = admin[b]
  BY <1>1, <1>3
<1>5. admin' \in [Admins -> AdminMemory]
  BY <1>1, <1>2, <1>3
<1> QED BY <1>2, <1>4, <1>5 DEF Changed

LEMMA OnlyAdminPcMoves ==
    ASSUME TypeInv, NEW a \in Admins, admin[a].pc # "new", NEW p \in AdminStates,
           admin' = [admin EXCEPT ![a].pc = p]
    PROVE  Changed(a, p) /\ admin'[a].before = admin[a].before
<1>1. admin \in [Admins -> AdminMemory]
  BY DEF TypeInv, AdminsTyped
<1> DEFINE x == [admin[a] EXCEPT !.pc = p]
<1>2. /\ x \in AdminMemory /\ x.pc = p /\ x.before = admin[a].before
      /\ x.cashier = admin[a].cashier /\ x.stall = admin[a].stall
  BY <1>1 DEF AdminMemory, AdminStates
<1>3. admin' = [admin EXCEPT ![a] = x]
  BY <1>1
<1> HIDE DEF x
<1>4. admin'[a] = x /\ \A b \in Admins : b # a => admin'[b] = admin[b]
  BY <1>1, <1>3
<1>5. admin' \in [Admins -> AdminMemory]
  BY <1>1, <1>2, <1>3
<1> QED BY <1>2, <1>4, <1>5 DEF Changed

\* Change a is asked for.
Asked(a) ==
    /\ admin' \in [Admins -> AdminMemory]
    /\ \A b \in Admins : b # a => admin'[b] = admin[b]
    /\ admin[a].pc = "new" /\ admin'[a].pc = "lock_user"
    /\ admin'[a].cashier \in Cashiers /\ admin'[a].stall \in Stalls

LEMMA AskMoves ==
    ASSUME TypeInv, NEW a \in Admins, NEW c \in Cashiers, NEW kind \in {"assign", "unassign"},
           NEW s \in Stalls, AskAssignment(a, c, kind, s)
    PROVE  Asked(a) /\ UNCHANGED <<assignment, orders, audit, locks, request, faults>>
<1>1. admin \in [Admins -> AdminMemory]
  BY DEF TypeInv, AdminsTyped
<1> DEFINE x == [NewAdmin EXCEPT !.pc = "lock_user", !.cashier = c, !.kind = kind, !.stall = s]
<1>2. /\ x \in AdminMemory /\ x.pc = "lock_user" /\ x.cashier = c /\ x.stall = s
  <2>1. NewAdmin \in AdminMemory
    BY DEF NewAdmin, AdminMemory, StallOrNone
  <2>2. s \in StallOrNone
    BY DEF StallOrNone
  <2> QED BY <2>1, <2>2 DEF AdminMemory
<1>3. admin' = [admin EXCEPT ![a] = x] /\ admin[a].pc = "new"
      /\ UNCHANGED <<assignment, orders, audit, locks, request, faults>>
  BY DEF AskAssignment
<1> HIDE DEF x
<1>4. admin'[a] = x /\ \A b \in Admins : b # a => admin'[b] = admin[b]
  BY <1>1, <1>3
<1>5. admin' \in [Admins -> AdminMemory]
  BY <1>1, <1>2, <1>3
<1> QED BY <1>2, <1>3, <1>4, <1>5 DEF Asked

LEMMA AskedTyped ==
    ASSUME TypeInv, NEW a \in Admins, Asked(a)
    PROVE  AdminsTyped'
BY DEF TypeInv, AdminsTyped, Asked

LEMMA LockUserMoves ==
    ASSUME TypeInv, NEW a \in Admins, LockStaffUser(a)
    PROVE  /\ UNCHANGED <<assignment, orders, audit, userShared, staffLock, staffGap, request, faults>>
           /\ Changed(a, "lock_staff") /\ admin[a].pc = "lock_user"
           /\ userLock[admin[a].cashier] \in {None, a}
           /\ userLock' = [userLock EXCEPT ![admin[a].cashier] = a]
<1>1. admin[a].pc = "lock_user" /\ "lock_staff" \in AdminStates
      /\ admin' = [admin EXCEPT ![a].pc = "lock_staff"]
  BY DEF LockStaffUser, AdminStates
<1>2. Changed(a, "lock_staff")
  BY <1>1, OnlyAdminPcMoves
<1>3. userLock[admin[a].cashier] \in {None, a}
  BY DEF LockStaffUser, UserRowFree, UserWriteBlockers
<1> QED BY <1>1, <1>2, <1>3 DEF LockStaffUser

\* What the read of the assignment locks and remembers.
LEMMA ReadMoves ==
    ASSUME TypeInv, NEW a \in Admins, ReadAssignment(a)
    PROVE  /\ UNCHANGED <<assignment, orders, audit, request, faults>>
           /\ admin[a].pc = "lock_staff" /\ staffLock[admin[a].cashier] \in {None, a}
           /\ \/ Changed(a, "done") /\ Release(a)
              \/ /\ Changed(a, "replace") /\ UNCHANGED <<userLock, userShared>>
                 /\ admin'[a].before = assignment[admin[a].cashier]
                 /\ \/ /\ assignment[admin[a].cashier] = None
                       /\ staffGap' = staffGap \cup {a} /\ UNCHANGED staffLock
                    \/ /\ staffLock' = [staffLock EXCEPT ![admin[a].cashier] = a]
                       /\ UNCHANGED staffGap
<1>1. /\ admin[a].pc = "lock_staff" /\ staffLock[admin[a].cashier] \in {None, a}
      /\ UNCHANGED <<assignment, orders, audit, request, faults>>
  BY DEF ReadAssignment, StaffBlockers
<1>2. CASE NothingToChange(a)
  <2>1. PICK outcome \in {"unchanged", "not_found"} : Finish(a, outcome)
    BY <1>2 DEF ReadAssignment
  <2>2. Release(a)
    BY <1>2 DEF ReadAssignment
  <2>3. Changed(a, "done")
    BY <1>1, <2>1, FinishMoves
  <2> QED BY <1>1, <2>2, <2>3
<1>3. CASE ~NothingToChange(a)
  <2>1. admin' = [admin EXCEPT ![a].pc = "replace", ![a].before = assignment[admin[a].cashier]]
    BY <1>3 DEF ReadAssignment
  <2>2. assignment[admin[a].cashier] \in StallOrNone /\ "replace" \in AdminStates
    BY <1>1 DEF TypeInv, StoreTyped, AdminsTyped, AdminStates
  <2>3. Changed(a, "replace") /\ admin'[a].before = assignment[admin[a].cashier]
    BY <1>1, <2>1, <2>2, AdminPcMoves
  <2>4. UNCHANGED <<userLock, userShared>>
    BY <1>3 DEF ReadAssignment
  <2>5. CASE assignment[admin[a].cashier] = None
    <3>1. staffGap' = staffGap \cup {a} /\ UNCHANGED staffLock
      BY <1>3, <2>5 DEF ReadAssignment
    <3> QED BY <1>1, <2>3, <2>4, <2>5, <3>1
  <2>6. CASE assignment[admin[a].cashier] # None
    <3>1. staffLock' = [staffLock EXCEPT ![admin[a].cashier] = a] /\ UNCHANGED staffGap
      BY <1>3, <2>6 DEF ReadAssignment
    <3> QED BY <1>1, <2>3, <2>4, <3>1
  <2> QED BY <2>5, <2>6
<1> QED BY <1>2, <1>3

LEMMA ReplaceMoves ==
    ASSUME TypeInv, NEW a \in Admins, ReplaceRow(a)
    PROVE  /\ UNCHANGED <<assignment, orders, audit, userLock, userShared, staffGap, request, faults>>
           /\ Changed(a, "commit") /\ admin[a].pc = "replace"
           /\ admin'[a].before = admin[a].before
           /\ staffLock' = [staffLock EXCEPT ![admin[a].cashier] = a]
<1>1. admin[a].pc = "replace" /\ "commit" \in AdminStates
      /\ admin' = [admin EXCEPT ![a].pc = "commit"]
  BY DEF ReplaceRow, AdminStates
<1>2. Changed(a, "commit") /\ admin'[a].before = admin[a].before
  BY <1>1, OnlyAdminPcMoves
<1> QED BY <1>1, <1>2 DEF ReplaceRow

LEMMA CommitAssignmentMoves ==
    ASSUME TypeInv, NEW a \in Admins, CommitAssignment(a)
    PROVE  /\ UNCHANGED <<orders, request, faults>>
           /\ Changed(a, "done") /\ Release(a) /\ admin[a].pc = "commit"
           /\ assignment' = [assignment EXCEPT ![admin[a].cashier] = StallAfter(a)]
           /\ StallAfter(a) \in StallOrNone
           /\ audit' = Append(audit, AuditEntry(a)) /\ AuditEntry(a) \in AuditRow
<1>1. admin[a].pc = "commit" /\ Finish(a, "changed")
  BY DEF CommitAssignment
<1>2. Changed(a, "done")
  BY <1>1, FinishMoves
<1>3. /\ admin[a].cashier \in Cashiers /\ admin[a].stall \in Stalls
      /\ admin[a].before \in StallOrNone
  BY <1>1 DEF TypeInv, AdminsTyped, AdminMemory
<1>4. StallAfter(a) \in StallOrNone
  BY <1>3 DEF StallAfter, StallOrNone
<1>5. AuditEntry(a) \in AuditRow
  BY <1>3, <1>4 DEF AuditEntry, AuditRow
<1> QED BY <1>1, <1>2, <1>4, <1>5 DEF CommitAssignment

LEMMA VictimMoves ==
    ASSUME TypeInv, NEW t \in Transactions, DeadlockVictim(t)
    PROVE  /\ UNCHANGED <<assignment, orders, audit, faults>>
           /\ Release(t)
           /\ \/ /\ t \in Requests /\ Moved(t, "done") /\ request'[t].answer = "error"
                 /\ UNCHANGED admin
              \/ t \in Admins /\ Changed(t, "done") /\ UNCHANGED request
<1>1. Blockers(t) # {} /\ Release(t) /\ UNCHANGED <<assignment, orders, audit, faults>>
  BY DEF DeadlockVictim, Cycle
<1>2. CASE t \in Requests
  <2>1. request[t].pc \in {"lock", "insert"}
    BY <1>1, <1>2 DEF Blockers
  <2>2. Answer(t, "error", None) /\ UNCHANGED admin
    BY <1>2 DEF DeadlockVictim
  <2>3. request[t].pc \in Open /\ "error" \in Outcomes
    BY <2>1 DEF Open, RequestStates, Outcomes
  <2>4. Moved(t, "done") /\ request'[t].answer = "error"
    BY <1>2, <2>2, <2>3, AnswerMoves
  <2> QED BY <1>1, <1>2, <2>2, <2>4
<1>3. CASE t \notin Requests
  <2>1. t \in Admins
    BY <1>3 DEF Transactions
  <2>2. admin[t].pc # "new"
    BY <1>1, <1>3 DEF Blockers
  <2>3. Finish(t, "error") /\ UNCHANGED request
    BY <1>3 DEF DeadlockVictim
  <2>4. Changed(t, "done")
    BY <2>1, <2>2, <2>3, FinishMoves
  <2> QED BY <1>1, <2>1, <2>3, <2>4
<1> QED BY <1>2, <1>3
-----------------------------------------------------------------------------
(* Types. *)

\* The steps of the specification, one by one.
LEMMA Steps ==
    ASSUME Next
    PROVE  \/ \E r \in Requests, c \in Cashiers, k \in Keys, b \in Bodies : Submit(r, c, k, b)
           \/ \E r \in Requests : Lookup(r) \/ Relookup(r)
           \/ \E r \in Requests : LockAssignmentRow(r)
           \/ \E r \in Requests : InsertOrder(r)
           \/ \E r \in Requests : InsertRefused(r)
           \/ \E r \in Requests : CommitOrder(r)
           \/ \E r \in Requests : AnswerCreated(r)
           \/ \E r \in Requests : FailRequest(r)
           \/ \E a \in Admins, c \in Cashiers, kind \in {"assign", "unassign"}, s \in Stalls :
                 AskAssignment(a, c, kind, s)
           \/ \E a \in Admins : LockStaffUser(a)
           \/ \E a \in Admins : ReadAssignment(a)
           \/ \E a \in Admins : ReplaceRow(a)
           \/ \E a \in Admins : CommitAssignment(a)
           \/ \E t \in Transactions : DeadlockVictim(t)
BY Zenon DEF Next, RequestStep, AdminStep

LEMMA NextTyped == TypeInv /\ [Next]_vars => TypeInv'
<1> SUFFICES ASSUME TypeInv, [Next]_vars PROVE TypeInv'
  OBVIOUS
<1>1. RequestsTyped /\ AdminsTyped /\ LocksTyped /\ StoreTyped
  BY DEF TypeInv
<1>2. UNCHANGED request => RequestsTyped'
  BY <1>1 DEF RequestsTyped
<1>3. UNCHANGED admin => AdminsTyped'
  BY <1>1 DEF AdminsTyped
<1>4. UNCHANGED locks => LocksTyped'
  BY <1>1 DEF LocksTyped, locks
<1>5. UNCHANGED <<assignment, orders, audit, faults>> => StoreTyped'
  BY <1>1 DEF StoreTyped
<1>6. ASSUME NEW r \in Requests, NEW p \in RequestStates \ {"new"}, Moved(r, p)
      PROVE  RequestsTyped'
  BY <1>6, MovedTyped DEF Open
<1>7. ASSUME NEW c \in Cashiers, NEW t \in Transactions,
             staffLock' = [staffLock EXCEPT ![c] = t],
             UNCHANGED <<userLock, userShared, staffGap>>
      PROVE  LocksTyped'
  BY <1>1, <1>7 DEF LocksTyped
<1>8. ASSUME NEW p \in AdminStates, NEW a \in Admins, Changed(a, p)
      PROVE  AdminsTyped'
  BY <1>8, ChangedTyped
<1>9. /\ "lock" \in RequestStates \ {"new"} /\ "insert" \in RequestStates \ {"new"}
      /\ "commit" \in RequestStates \ {"new"} /\ "relookup" \in RequestStates \ {"new"}
      /\ "answer" \in RequestStates \ {"new"} /\ "done" \in RequestStates \ {"new"}
      /\ "lock_staff" \in AdminStates /\ "replace" \in AdminStates
      /\ "commit" \in AdminStates /\ "done" \in AdminStates
  BY DEF RequestStates, AdminStates
<1>10. Requests \subseteq Transactions /\ Admins \subseteq Transactions
  BY DEF Transactions
<1>11. ASSUME NEW r \in Requests, NEW c \in Cashiers, NEW k \in Keys, NEW b \in Bodies,
              Submit(r, c, k, b)
       PROVE  TypeInv'
  <2>1. Sent(r) /\ UNCHANGED <<assignment, orders, audit, locks, admin, faults>>
    BY <1>11, SubmitMoves
  <2>2. RequestsTyped'
    BY <2>1, SentTyped
  <2> QED BY <1>3, <1>4, <1>5, <2>1, <2>2 DEF TypeInv
<1>12. ASSUME NEW r \in Requests, Lookup(r) \/ Relookup(r)
       PROVE  TypeInv'
  <2>1. UNCHANGED <<assignment, orders, audit, locks, admin, faults>>
        /\ (Moved(r, "lock") \/ Moved(r, "done"))
    BY <1>12, LookupMoves
  <2>2. RequestsTyped'
    BY <1>6, <1>9, <2>1
  <2> QED BY <1>3, <1>4, <1>5, <2>1, <2>2 DEF TypeInv
<1>13. ASSUME NEW r \in Requests, LockAssignmentRow(r)
       PROVE  TypeInv'
  <2>1. /\ UNCHANGED <<assignment, orders, audit, userLock, userShared, staffGap, admin, faults>>
        /\ \/ /\ Moved(r, "insert")
              /\ staffLock' = [staffLock EXCEPT ![request[r].cashier] = r]
           \/ Moved(r, "done") /\ UNCHANGED staffLock
    BY <1>13, LockRowMoves
  <2>2. request[r].cashier \in Cashiers
    BY <1>1, <2>1 DEF Moved, Open, RequestStates, RequestsTyped
  <2>3. RequestsTyped'
    BY <1>6, <1>9, <2>1
  <2>4. LocksTyped'
    BY <1>4, <1>7, <1>10, <2>1, <2>2 DEF locks
  <2> QED BY <1>3, <1>5, <2>1, <2>3, <2>4 DEF TypeInv
<1>14. ASSUME NEW r \in Requests, InsertOrder(r)
       PROVE  TypeInv'
  <2>1. /\ UNCHANGED <<assignment, orders, audit, userLock, staffLock, staffGap, admin, faults>>
        /\ Moved(r, "commit") /\ userShared' \in [Cashiers -> SUBSET Requests]
    BY <1>14, InsertMoves
  <2>2. RequestsTyped'
    BY <1>6, <1>9, <2>1
  <2>3. LocksTyped'
    BY <1>1, <2>1 DEF LocksTyped
  <2> QED BY <1>3, <1>5, <2>1, <2>2, <2>3 DEF TypeInv
<1>15. ASSUME NEW r \in Requests, InsertRefused(r)
       PROVE  TypeInv'
  <2>1. /\ UNCHANGED <<assignment, orders, audit, admin, faults>>
        /\ Moved(r, "relookup") /\ Release(r)
    BY <1>15, RefusedMoves
  <2>2. RequestsTyped' /\ LocksTyped'
    BY <1>1, <1>6, <1>9, <1>10, <2>1, Released
  <2> QED BY <1>3, <1>5, <2>1, <2>2 DEF TypeInv
<1>16. ASSUME NEW r \in Requests, CommitOrder(r)
       PROVE  TypeInv'
  <2>1. /\ UNCHANGED <<assignment, audit, admin, faults>>
        /\ Moved(r, "answer") /\ Release(r)
        /\ orders' = orders \cup {NewOrder(r)} /\ NewOrder(r) \in Order
    BY <1>16, CommitOrderMoves
  <2>2. RequestsTyped' /\ LocksTyped'
    BY <1>1, <1>6, <1>9, <1>10, <2>1, Released
  <2>3. StoreTyped'
    BY <1>1, <2>1 DEF StoreTyped
  <2> QED BY <1>3, <2>1, <2>2, <2>3 DEF TypeInv
<1>17. ASSUME NEW r \in Requests, AnswerCreated(r)
       PROVE  TypeInv'
  <2>1. UNCHANGED <<assignment, orders, audit, locks, admin, faults>> /\ Moved(r, "done")
    BY <1>17, CreatedMoves
  <2>2. RequestsTyped'
    BY <1>6, <1>9, <2>1
  <2> QED BY <1>3, <1>4, <1>5, <2>1, <2>2 DEF TypeInv
<1>18. ASSUME NEW r \in Requests, FailRequest(r)
       PROVE  TypeInv'
  <2>1. /\ UNCHANGED <<assignment, orders, audit, admin>>
        /\ Moved(r, "done") /\ Release(r) /\ faults' \in 0..MaxFaults
    BY <1>18, FailMoves
  <2>2. RequestsTyped' /\ LocksTyped'
    BY <1>1, <1>6, <1>9, <1>10, <2>1, Released
  <2>3. StoreTyped'
    BY <1>1, <2>1 DEF StoreTyped
  <2> QED BY <1>3, <2>1, <2>2, <2>3 DEF TypeInv
<1>19. ASSUME NEW a \in Admins, NEW c \in Cashiers, NEW kind \in {"assign", "unassign"},
              NEW s \in Stalls, AskAssignment(a, c, kind, s)
       PROVE  TypeInv'
  <2>1. Asked(a) /\ UNCHANGED <<assignment, orders, audit, locks, request, faults>>
    BY <1>19, AskMoves
  <2>2. AdminsTyped'
    BY <2>1, AskedTyped
  <2> QED BY <1>2, <1>4, <1>5, <2>1, <2>2 DEF TypeInv
<1>20. ASSUME NEW a \in Admins, admin[a].pc # "new"
       PROVE  admin[a].cashier \in Cashiers
  BY <1>1, <1>20 DEF AdminsTyped
<1>21. ASSUME NEW a \in Admins, LockStaffUser(a)
       PROVE  TypeInv'
  <2>1. /\ UNCHANGED <<assignment, orders, audit, userShared, staffLock, staffGap, request, faults>>
        /\ Changed(a, "lock_staff") /\ userLock' = [userLock EXCEPT ![admin[a].cashier] = a]
    BY <1>21, LockUserMoves
  <2>2. AdminsTyped'
    BY <1>8, <1>9, <2>1
  <2>3. LocksTyped'
    BY <1>1, <2>1 DEF LocksTyped
  <2> QED BY <1>2, <1>5, <2>1, <2>2, <2>3 DEF TypeInv
<1>22. ASSUME NEW a \in Admins, ReadAssignment(a)
       PROVE  TypeInv'
  <2>1. /\ UNCHANGED <<assignment, orders, audit, request, faults>>
        /\ \/ Changed(a, "done") /\ Release(a)
           \/ /\ Changed(a, "replace") /\ UNCHANGED <<userLock, userShared>>
              /\ \/ staffGap' = staffGap \cup {a} /\ UNCHANGED staffLock
                 \/ /\ staffLock' = [staffLock EXCEPT ![admin[a].cashier] = a]
                    /\ UNCHANGED staffGap
    BY <1>22, ReadMoves
  <2>2. AdminsTyped'
    BY <1>8, <1>9, <2>1
  <2>3. CASE Release(a)
    BY <1>1, <1>2, <1>5, <1>10, <2>1, <2>2, <2>3, Released DEF TypeInv
  <2>4. CASE /\ UNCHANGED <<userLock, userShared, staffLock>>
             /\ staffGap' = staffGap \cup {a}
    <3>1. LocksTyped'
      BY <1>1, <2>4 DEF LocksTyped
    <3> QED BY <1>2, <1>5, <2>1, <2>2, <3>1 DEF TypeInv
  <2>5. CASE /\ UNCHANGED <<userLock, userShared, staffGap>>
             /\ staffLock' = [staffLock EXCEPT ![admin[a].cashier] = a]
    <3>1. LocksTyped'
      BY <1>1, <1>10, <2>5 DEF LocksTyped
    <3> QED BY <1>2, <1>5, <2>1, <2>2, <3>1 DEF TypeInv
  <2> QED BY <2>1, <2>3, <2>4, <2>5
<1>23. ASSUME NEW a \in Admins, ReplaceRow(a)
       PROVE  TypeInv'
  <2>1. /\ UNCHANGED <<assignment, orders, audit, userLock, userShared, staffGap, request, faults>>
        /\ Changed(a, "commit") /\ staffLock' = [staffLock EXCEPT ![admin[a].cashier] = a]
    BY <1>23, ReplaceMoves
  <2>2. AdminsTyped'
    BY <1>8, <1>9, <2>1
  <2>3. LocksTyped'
    BY <1>1, <1>10, <2>1 DEF LocksTyped
  <2> QED BY <1>2, <1>5, <2>1, <2>2, <2>3 DEF TypeInv
<1>24. ASSUME NEW a \in Admins, CommitAssignment(a)
       PROVE  TypeInv'
  <2>1. /\ UNCHANGED <<orders, request, faults>>
        /\ Changed(a, "done") /\ Release(a)
        /\ assignment' = [assignment EXCEPT ![admin[a].cashier] = StallAfter(a)]
        /\ StallAfter(a) \in StallOrNone
        /\ audit' = Append(audit, AuditEntry(a)) /\ AuditEntry(a) \in AuditRow
    BY <1>24, CommitAssignmentMoves
  <2>2. AdminsTyped' /\ LocksTyped'
    BY <1>1, <1>8, <1>9, <1>10, <2>1, Released
  <2>3. assignment' \in [Cashiers -> StallOrNone]
    BY <1>1, <2>1 DEF StoreTyped
  <2>4. audit' \in Seq(AuditRow)
    BY <1>1, <2>1 DEF StoreTyped
  <2>5. StoreTyped'
    BY <1>1, <2>1, <2>3, <2>4 DEF StoreTyped
  <2> QED BY <1>2, <2>1, <2>2, <2>5 DEF TypeInv
<1>25. ASSUME NEW t \in Transactions, DeadlockVictim(t)
       PROVE  TypeInv'
  <2>1. /\ UNCHANGED <<assignment, orders, audit, faults>> /\ Release(t)
        /\ \/ t \in Requests /\ Moved(t, "done") /\ UNCHANGED admin
           \/ t \in Admins /\ Changed(t, "done") /\ UNCHANGED request
    BY <1>25, VictimMoves
  <2>2. LocksTyped' /\ StoreTyped'
    BY <1>1, <1>5, <2>1, Released
  <2>3. RequestsTyped' /\ AdminsTyped'
    BY <1>2, <1>3, <1>6, <1>8, <1>9, <2>1
  <2> QED BY <2>2, <2>3 DEF TypeInv
<1>26. CASE UNCHANGED vars
  BY <1>2, <1>3, <1>4, <1>5, <1>26 DEF vars, locks, TypeInv
<1> QED BY <1>11, <1>12, <1>13, <1>14, <1>15, <1>16, <1>17, <1>18, <1>19, <1>21, <1>22,
           <1>23, <1>24, <1>25, <1>26, Steps

\* Type correctness for any numbers of requests, changes, cashiers and stalls.
THEOREM TypeCorrect == Spec => []TypeOK
<1>1. Spec => []TypeInv
  BY InitTyped, NextTyped, PTL DEF Spec
<1> QED BY <1>1, TypeInvTypeOK, PTL
-----------------------------------------------------------------------------
(* One order per key. *)

\* A request about to commit is alone with its key: no stored order has it and no
\* other open transaction inserted it.
CommittersAlone ==
    /\ \A r \in Requests : request[r].pc = "commit" =>
          \A o \in orders : ~SameKey(o, request[r])
    /\ \A r, q \in Requests : r # q /\ request[r].pc = "commit" /\ request[q].pc = "commit"
          => ~SameKey(request[r], request[q])

\* A request that committed finds its own order.
CommittedStored ==
    \A r \in Requests : request[r].pc = "answer" =>
        \E o \in orders : /\ o.id = r /\ SameKey(o, request[r])
                          /\ o.body = request[r].body

OrderInv == CommittersAlone /\ CommittedStored /\ OneOrderPerKey /\ AnswersAreOwnOrders

LEMMA InitOrders == Init => OrderInv
<1> SUFFICES ASSUME Init PROVE OrderInv
  OBVIOUS
<1>1. orders = {} /\ \A r \in Requests : request[r].pc = "new" /\ request[r].answer = "open"
  BY DEF Init, NewRequest
<1> QED BY <1>1 DEF OrderInv, CommittersAlone, CommittedStored, OneOrderPerKey,
                    AnswersAreOwnOrders

\* The order that the answer of r names is stored and is its own.
Named(r) ==
    \E o \in orders : /\ o.id = request'[r].order /\ SameKey(o, request[r])
                      /\ o.body = request[r].body

\* What a step does to requests and orders.
Waits(r) ==
    /\ UNCHANGED orders
    /\ Moved(r, "lock") \/ Moved(r, "insert") \/ Moved(r, "relookup")

Ends(r) ==
    /\ UNCHANGED orders
    /\ Moved(r, "done")
    /\ request'[r].answer \in {"created", "replayed"} => Named(r)

Inserts(r) ==
    /\ UNCHANGED orders
    /\ Moved(r, "commit")
    /\ KeyFree(r) /\ \A q \in Requests : ~Inserting(r, q)

Stores(r) ==
    /\ orders' = orders \cup {NewOrder(r)} /\ NewOrder(r) \in Order
    /\ Moved(r, "answer") /\ request[r].pc = "commit"

LEMMA OrderSteps ==
    ASSUME TypeInv, OrderInv, [Next]_vars
    PROVE  \/ UNCHANGED <<request, orders>>
           \/ \E r \in Requests :
                \/ Sent(r) /\ UNCHANGED orders
                \/ Waits(r) \/ Ends(r) \/ Inserts(r) \/ Stores(r)
<1>1. ASSUME NEW r \in Requests, NEW c \in Cashiers, NEW k \in Keys, NEW b \in Bodies,
             Submit(r, c, k, b)
      PROVE  Sent(r) /\ UNCHANGED orders
  BY <1>1, SubmitMoves
<1>2. ASSUME NEW r \in Requests, Lookup(r) \/ Relookup(r)
      PROVE  Waits(r) \/ Ends(r)
  <2>1. /\ UNCHANGED orders
        /\ \/ Moved(r, "lock")
           \/ /\ Moved(r, "done")
              /\ \/ request'[r].answer \in {"key_reused", "error"}
                 \/ \E o \in Earlier(r) : /\ request'[r].answer = "replayed"
                                          /\ request'[r].order = o.id
                                          /\ o.body = request[r].body
    BY <1>2, LookupMoves
  <2> QED BY <2>1 DEF Waits, Ends, Named, Earlier
<1>3. ASSUME NEW r \in Requests, LockAssignmentRow(r)
      PROVE  Waits(r) \/ Ends(r)
  <2>1. UNCHANGED orders /\ \/ Moved(r, "insert")
                            \/ Moved(r, "done") /\ request'[r].answer = "assignment_changed"
    BY <1>3, LockRowMoves
  <2> QED BY <2>1 DEF Waits, Ends
<1>4. ASSUME NEW r \in Requests, InsertOrder(r)
      PROVE  Inserts(r)
  BY <1>4, InsertMoves DEF Inserts
<1>5. ASSUME NEW r \in Requests, InsertRefused(r)
      PROVE  Waits(r)
  BY <1>5, RefusedMoves DEF Waits
<1>6. ASSUME NEW r \in Requests, CommitOrder(r)
      PROVE  Stores(r)
  BY <1>6, CommitOrderMoves DEF Stores
<1>7. ASSUME NEW r \in Requests, AnswerCreated(r)
      PROVE  Ends(r)
  <2>1. /\ UNCHANGED orders /\ Moved(r, "done") /\ request[r].pc = "answer"
        /\ request'[r].order = r
    BY <1>7, CreatedMoves
  <2>2. Named(r)
    BY <2>1 DEF OrderInv, CommittedStored, Named
  <2> QED BY <2>1, <2>2 DEF Ends
<1>8. ASSUME NEW r \in Requests, FailRequest(r)
      PROVE  Ends(r)
  <2>1. UNCHANGED orders /\ Moved(r, "done") /\ request'[r].answer = "error"
    BY <1>8, FailMoves
  <2> QED BY <2>1 DEF Ends
<1>9. ASSUME NEW a \in Admins, NEW c \in Cashiers, NEW kind \in {"assign", "unassign"},
             NEW s \in Stalls, AskAssignment(a, c, kind, s)
      PROVE  UNCHANGED <<request, orders>>
  BY <1>9, AskMoves
<1>10. ASSUME NEW a \in Admins, LockStaffUser(a) \/ ReadAssignment(a) \/ ReplaceRow(a)
                                 \/ CommitAssignment(a)
       PROVE  UNCHANGED <<request, orders>>
  BY <1>10, LockUserMoves, ReadMoves, ReplaceMoves, CommitAssignmentMoves
<1>11. ASSUME NEW t \in Transactions, DeadlockVictim(t)
       PROVE  \/ UNCHANGED <<request, orders>>
              \/ t \in Requests /\ Ends(t)
  <2>1. UNCHANGED orders
        /\ \/ t \in Requests /\ Moved(t, "done") /\ request'[t].answer = "error"
           \/ UNCHANGED request
    BY <1>11, VictimMoves
  <2> QED BY <2>1 DEF Ends
<1>12. CASE UNCHANGED vars
  BY <1>12 DEF vars
<1>13. ASSUME Next
       PROVE  \/ UNCHANGED <<request, orders>>
              \/ \E r \in Requests :
                   \/ Sent(r) /\ UNCHANGED orders
                   \/ Waits(r) \/ Ends(r) \/ Inserts(r) \/ Stores(r)
  BY <1>1, <1>2, <1>3, <1>4, <1>5, <1>6, <1>7, <1>8, <1>9, <1>10, <1>11, <1>13, Steps, Zenon
<1> QED BY <1>12, <1>13

LEMMA NextOrders == TypeInv /\ OrderInv /\ [Next]_vars => OrderInv'
<1> SUFFICES ASSUME TypeInv, OrderInv, [Next]_vars PROVE OrderInv'
  OBVIOUS
<1>1. CommittersAlone /\ CommittedStored /\ OneOrderPerKey /\ AnswersAreOwnOrders
  BY DEF OrderInv
<1>2. \A q \in Requests : request[q].answer \in {"created", "replayed"} => request[q].pc = "done"
  BY DEF TypeInv, RequestsTyped
<1>3. CASE UNCHANGED <<request, orders>>
  BY <1>1, <1>3 DEF OrderInv, CommittersAlone, CommittedStored, OneOrderPerKey,
                    AnswersAreOwnOrders, SameKey
<1>4. ASSUME NEW r \in Requests, Sent(r) /\ UNCHANGED orders
      PROVE  OrderInv'
  <2>1. /\ UNCHANGED orders /\ request'[r].pc \notin {"commit", "answer"}
        /\ request'[r].answer \notin {"created", "replayed"}
        /\ \A q \in Requests : q # r => request'[q] = request[q]
    BY <1>4 DEF Sent
  <2>2. CommittersAlone'
    BY <1>1, <2>1 DEF CommittersAlone, SameKey
  <2>3. CommittedStored'
    BY <1>1, <2>1 DEF CommittedStored, SameKey
  <2>4. OneOrderPerKey'
    BY <1>1, <2>1 DEF OneOrderPerKey, SameKey
  <2>5. AnswersAreOwnOrders'
    BY <1>1, <2>1 DEF AnswersAreOwnOrders, SameKey
  <2> QED BY <2>2, <2>3, <2>4, <2>5 DEF OrderInv
<1>5. ASSUME NEW r \in Requests, Waits(r)
      PROVE  OrderInv'
  <2>1. /\ UNCHANGED orders /\ request'[r].pc \notin {"commit", "answer"}
        /\ request'[r].answer \notin {"created", "replayed"}
        /\ \A q \in Requests : q # r => request'[q] = request[q]
    BY <1>2, <1>5 DEF Waits, Moved, Open
  <2>2. CommittersAlone'
    BY <1>1, <2>1 DEF CommittersAlone, SameKey
  <2>3. CommittedStored'
    BY <1>1, <2>1 DEF CommittedStored, SameKey
  <2>4. OneOrderPerKey'
    BY <1>1, <2>1 DEF OneOrderPerKey, SameKey
  <2>5. AnswersAreOwnOrders'
    BY <1>1, <2>1 DEF AnswersAreOwnOrders, SameKey
  <2> QED BY <2>2, <2>3, <2>4, <2>5 DEF OrderInv
<1>6. ASSUME NEW r \in Requests, Ends(r)
      PROVE  OrderInv'
  <2>1. /\ UNCHANGED orders /\ request'[r].pc = "done"
        /\ request'[r].cashier = request[r].cashier /\ request'[r].key = request[r].key
        /\ request'[r].body = request[r].body
        /\ request'[r].answer \in {"created", "replayed"} => Named(r)
        /\ \A q \in Requests : q # r => request'[q] = request[q]
    BY <1>6 DEF Ends, Moved
  <2>2. CommittersAlone'
    BY <1>1, <2>1 DEF CommittersAlone, SameKey
  <2>3. CommittedStored'
    BY <1>1, <2>1 DEF CommittedStored, SameKey
  <2>4. OneOrderPerKey'
    BY <1>1, <2>1 DEF OneOrderPerKey, SameKey
  <2>5. ASSUME NEW q \in Requests, request'[q].answer \in {"created", "replayed"}
        PROVE  \E o \in orders' : /\ o.id = request'[q].order
                                  /\ SameKey(o, request'[q])
                                  /\ o.body = request'[q].body
    <3>1. CASE q = r
      BY <2>1, <2>5, <3>1 DEF Named, SameKey
    <3>2. CASE q # r
      BY <1>1, <2>1, <2>5, <3>2 DEF AnswersAreOwnOrders
    <3> QED BY <3>1, <3>2
  <2>6. AnswersAreOwnOrders'
    BY <2>5 DEF AnswersAreOwnOrders, SameKey
  <2> QED BY <2>2, <2>3, <2>4, <2>6 DEF OrderInv
<1>7. ASSUME NEW r \in Requests, Inserts(r)
      PROVE  OrderInv'
  <2>1. /\ UNCHANGED orders /\ request'[r].pc = "commit"
        /\ request'[r].cashier = request[r].cashier /\ request'[r].key = request[r].key
        /\ request'[r].answer \notin {"created", "replayed"}
        /\ \A q \in Requests : q # r => request'[q] = request[q]
    BY <1>2, <1>7 DEF Inserts, Moved, Open
  <2>2. /\ \A o \in orders : ~SameKey(o, request[r])
        /\ \A q \in Requests : q # r /\ request[q].pc = "commit" =>
              ~SameKey(request[q], request[r])
    BY <1>7 DEF Inserts, KeyFree, Earlier, Inserting
  <2>3. CommittersAlone'
    <3>1. ASSUME NEW q \in Requests, request'[q].pc = "commit", NEW o \in orders
          PROVE  ~(o.cashier = request'[q].cashier /\ o.key = request'[q].key)
      BY <1>1, <2>1, <2>2, <3>1 DEF CommittersAlone, SameKey
    <3>2. ASSUME NEW q \in Requests, NEW p \in Requests, p # q,
                 request'[q].pc = "commit", request'[p].pc = "commit"
          PROVE  ~(request'[p].cashier = request'[q].cashier
                   /\ request'[p].key = request'[q].key)
      BY <1>1, <2>1, <2>2, <3>2 DEF CommittersAlone, SameKey
    <3> QED BY <2>1, <3>1, <3>2 DEF CommittersAlone, SameKey
  <2>4. CommittedStored'
    BY <1>1, <2>1 DEF CommittedStored, SameKey
  <2>5. OneOrderPerKey'
    BY <1>1, <2>1 DEF OneOrderPerKey, SameKey
  <2>6. AnswersAreOwnOrders'
    BY <1>1, <2>1 DEF AnswersAreOwnOrders, SameKey
  <2> QED BY <2>3, <2>4, <2>5, <2>6 DEF OrderInv
<1>8. ASSUME NEW r \in Requests, Stores(r)
      PROVE  OrderInv'
  <2> DEFINE new == NewOrder(r)
  <2>1. /\ orders' = orders \cup {new}
        /\ new.id = r /\ new.cashier = request[r].cashier /\ new.key = request[r].key
        /\ new.body = request[r].body
    BY <1>8 DEF Stores, NewOrder
  <2>2. /\ request[r].pc = "commit" /\ request'[r].pc = "answer"
        /\ request'[r].cashier = request[r].cashier /\ request'[r].key = request[r].key
        /\ request'[r].body = request[r].body
        /\ request'[r].answer \notin {"created", "replayed"}
        /\ \A q \in Requests : q # r => request'[q] = request[q]
    BY <1>2, <1>8 DEF Stores, Moved, Open
  <2> HIDE DEF new
  <2>3. CommittersAlone'
    <3>1. ASSUME NEW q \in Requests, request'[q].pc = "commit", NEW o \in orders'
          PROVE  ~(o.cashier = request'[q].cashier /\ o.key = request'[q].key)
      BY <1>1, <2>1, <2>2, <3>1 DEF CommittersAlone, SameKey
    <3>2. ASSUME NEW q \in Requests, NEW p \in Requests, p # q,
                 request'[q].pc = "commit", request'[p].pc = "commit"
          PROVE  ~(request'[p].cashier = request'[q].cashier
                   /\ request'[p].key = request'[q].key)
      BY <1>1, <2>2, <3>2 DEF CommittersAlone, SameKey
    <3> QED BY <3>1, <3>2 DEF CommittersAlone, SameKey
  <2>4. ASSUME NEW q \in Requests, request'[q].pc = "answer"
        PROVE  \E o \in orders' : /\ o.id = q /\ SameKey(o, request'[q])
                                  /\ o.body = request'[q].body
    <3>1. CASE q = r
      BY <2>1, <2>2, <3>1 DEF SameKey
    <3>2. CASE q # r
      BY <1>1, <2>1, <2>2, <2>4, <3>2 DEF CommittedStored
    <3> QED BY <3>1, <3>2
  <2>5. CommittedStored'
    BY <2>4 DEF CommittedStored, SameKey
  <2>6. ASSUME NEW x \in orders', NEW y \in orders', SameKey(x, y)
        PROVE  x = y
    <3>1. \A o \in orders : ~SameKey(o, new)
      BY <1>1, <2>1, <2>2 DEF CommittersAlone, SameKey
    <3> QED BY <1>1, <2>1, <2>6, <3>1 DEF OneOrderPerKey, SameKey
  <2>7. OneOrderPerKey'
    BY <2>6 DEF OneOrderPerKey, SameKey
  <2>8. ASSUME NEW q \in Requests, request'[q].answer \in {"created", "replayed"}
        PROVE  \E o \in orders' : /\ o.id = request'[q].order /\ SameKey(o, request'[q])
                                  /\ o.body = request'[q].body
    BY <1>1, <2>1, <2>2, <2>8 DEF AnswersAreOwnOrders
  <2>9. AnswersAreOwnOrders'
    BY <2>8 DEF AnswersAreOwnOrders, SameKey
  <2> QED BY <2>3, <2>5, <2>7, <2>9 DEF OrderInv
<1> QED BY <1>3, <1>4, <1>5, <1>6, <1>7, <1>8, OrderSteps

LEMMA OrdersHold == Spec => []OrderInv
BY InitTyped, NextTyped, InitOrders, NextOrders, PTL DEF Spec

\* However often and however concurrently a checkout is sent, its key gets one order.
THEOREM RetriesAreSafe == Spec => []OneOrderPerKey
<1>1. OrderInv => OneOrderPerKey
  BY DEF OrderInv
<1> QED BY <1>1, OrdersHold, PTL

\* Whoever is told of an order gets his own, stored and as he asked for it.
THEOREM AnswersAreTrue == Spec => []AnswersAreOwnOrders
<1>1. OrderInv => AnswersAreOwnOrders
  BY DEF OrderInv
<1> QED BY <1>1, OrdersHold, PTL
-----------------------------------------------------------------------------
(* The two row locks keep assignment changes and orders apart. *)

\* A change holds the users row of its cashier from the first lock on, remembers
\* the assignment it found, and holds its row when there is one to replace.
ChangesHoldLocks ==
    \A a \in Admins :
        /\ admin[a].pc \in {"lock_staff", "replace", "commit"} => userLock[admin[a].cashier] = a
        /\ admin[a].pc \in {"replace", "commit"} =>
              admin[a].before = assignment[admin[a].cashier]
        /\ admin[a].pc = "replace" /\ admin[a].before # None
              => staffLock[admin[a].cashier] = a
        /\ admin[a].pc = "commit" => staffLock[admin[a].cashier] = a

\* A request in its transaction holds the row that assigns its cashier.
RequestsHoldRow ==
    \A r \in Requests : request[r].pc \in {"insert", "commit"} =>
        /\ staffLock[request[r].cashier] = r
        /\ assignment[request[r].cashier] = request[r].stall

LockInv == ChangesHoldLocks /\ RequestsHoldRow

LEMMA InitLocks == Init => LockInv
<1> SUFFICES ASSUME Init PROVE LockInv
  OBVIOUS
<1>1. (\A r \in Requests : request[r].pc = "new") /\ \A a \in Admins : admin[a].pc = "new"
  BY DEF Init, NewRequest, NewAdmin
<1> QED BY <1>1 DEF LockInv, ChangesHoldLocks, RequestsHoldRow

\* Commit and rollback take the locks of nobody else.
LEMMA ReleaseKeepsLocks ==
    ASSUME TypeInv, LockInv, NEW t \in Transactions, Release(t), UNCHANGED assignment,
           \/ /\ t \in Requests /\ UNCHANGED admin
              /\ \E p \in {"done", "relookup", "answer"} : Moved(t, p)
           \/ t \in Admins /\ UNCHANGED request /\ Changed(t, "done")
    PROVE  LockInv'
<1>1. \A c \in Cashiers : /\ userLock[c] # t => userLock'[c] = userLock[c]
                          /\ staffLock[c] # t => staffLock'[c] = staffLock[c]
  BY Released DEF TypeInv
<1>2. \A r \in Requests : request[r].pc \in {"insert", "commit"} => request[r].cashier \in Cashiers
  BY DEF TypeInv, RequestsTyped
<1>3. \A a \in Admins : admin[a].pc \in {"lock_staff", "replace", "commit"} =>
         admin[a].cashier \in Cashiers
  BY DEF TypeInv, AdminsTyped
<1>4. ASSUME NEW r \in Requests, request'[r].pc \in {"insert", "commit"}
      PROVE  r # t /\ request'[r] = request[r]
  BY <1>4 DEF Moved
<1>5. ASSUME NEW a \in Admins, admin'[a].pc \in {"lock_staff", "replace", "commit"}
      PROVE  a # t /\ admin'[a] = admin[a]
  BY <1>5 DEF Changed
<1>6. RequestsHoldRow'
  BY <1>1, <1>2, <1>4 DEF LockInv, RequestsHoldRow
<1>7. ChangesHoldLocks'
  <2> SUFFICES ASSUME NEW a \in Admins,
                      admin'[a].pc \in {"lock_staff", "replace", "commit"}
               PROVE  /\ userLock'[admin'[a].cashier] = a
                      /\ admin'[a].pc \in {"replace", "commit"} =>
                            admin'[a].before = assignment'[admin'[a].cashier]
                      /\ admin'[a].pc = "replace" /\ admin'[a].before # None
                            => staffLock'[admin'[a].cashier] = a
                      /\ admin'[a].pc = "commit" => staffLock'[admin'[a].cashier] = a
    BY Zenon DEF ChangesHoldLocks
  <2>1. admin'[a] = admin[a] /\ a # t /\ admin[a].cashier \in Cashiers
    BY <1>3, <1>5
  <2> QED BY <1>1, <2>1 DEF LockInv, ChangesHoldLocks
<1> QED BY <1>6, <1>7 DEF LockInv

LEMMA NextLocks == TypeInv /\ LockInv /\ [Next]_vars => LockInv'
<1> SUFFICES ASSUME TypeInv, LockInv, [Next]_vars PROVE LockInv'
  OBVIOUS
<1>1. ChangesHoldLocks /\ RequestsHoldRow
  BY DEF LockInv
<1>2. \A r \in Requests : request[r].pc \in Open => request[r].cashier \in Cashiers
  BY DEF TypeInv, RequestsTyped, Open
<1>3. \A a \in Admins : admin[a].pc # "new" => admin[a].cashier \in Cashiers
  BY DEF TypeInv, AdminsTyped
<1>4. \A r \in Requests : request[r].pc \in {"insert", "commit"} => request[r].cashier \in Cashiers
  BY <1>2 DEF Open, RequestStates
<1>5. userLock \in [Cashiers -> Admins \cup {None}]
      /\ staffLock \in [Cashiers -> Transactions \cup {None}]
      /\ assignment \in [Cashiers -> StallOrNone]
  BY DEF TypeInv, LocksTyped, StoreTyped
<1>6. Requests \subseteq Transactions /\ Admins \subseteq Transactions
  BY DEF Transactions
<1>7. UNCHANGED <<assignment, userLock, staffLock, admin>> => ChangesHoldLocks'
  BY <1>1 DEF ChangesHoldLocks
<1>8. UNCHANGED <<assignment, staffLock, request>> => RequestsHoldRow'
  BY <1>1 DEF RequestsHoldRow
<1>9. ASSUME NEW r \in Requests, UNCHANGED <<assignment, staffLock>>,
             \A q \in Requests : q # r => request'[q] = request[q],
             request'[r].pc \notin {"insert", "commit"}
      PROVE  RequestsHoldRow'
  BY <1>1, <1>9 DEF RequestsHoldRow
<1>10. ASSUME NEW r \in Requests, NEW c \in Cashiers, NEW k \in Keys, NEW b \in Bodies,
              Submit(r, c, k, b)
       PROVE  LockInv'
  <2>1. Sent(r) /\ UNCHANGED <<assignment, userLock, staffLock, admin>>
    BY <1>10, SubmitMoves DEF locks
  <2>2. /\ \A q \in Requests : q # r => request'[q] = request[q]
        /\ request'[r].pc \notin {"insert", "commit"}
    BY <2>1 DEF Sent
  <2> QED BY <1>7, <1>9, <2>1, <2>2 DEF LockInv
<1>11. ASSUME NEW r \in Requests, Lookup(r) \/ Relookup(r) \/ AnswerCreated(r)
       PROVE  LockInv'
  <2>1. UNCHANGED <<assignment, locks, admin>> /\ (Moved(r, "lock") \/ Moved(r, "done"))
    BY <1>11, LookupMoves, CreatedMoves
  <2>2. /\ \A q \in Requests : q # r => request'[q] = request[q]
        /\ request'[r].pc \notin {"insert", "commit"}
    BY <2>1 DEF Moved
  <2> QED BY <1>7, <1>9, <2>1, <2>2 DEF LockInv, locks
<1>12. ASSUME NEW r \in Requests, LockAssignmentRow(r)
       PROVE  LockInv'
  <2>1. /\ UNCHANGED <<assignment, userLock, admin>>
        /\ staffLock[request[r].cashier] \in {None, r}
        /\ \/ /\ Moved(r, "insert")
              /\ staffLock' = [staffLock EXCEPT ![request[r].cashier] = r]
              /\ assignment[request[r].cashier] = request[r].stall
           \/ Moved(r, "done") /\ UNCHANGED staffLock
    BY <1>12, LockRowMoves
  <2>2. CASE Moved(r, "done") /\ UNCHANGED staffLock
    <3>1. /\ \A q \in Requests : q # r => request'[q] = request[q]
          /\ request'[r].pc \notin {"insert", "commit"}
      BY <2>2 DEF Moved
    <3> QED BY <1>7, <1>9, <2>1, <2>2, <3>1 DEF LockInv
  <2>3. CASE /\ Moved(r, "insert")
             /\ staffLock' = [staffLock EXCEPT ![request[r].cashier] = r]
             /\ assignment[request[r].cashier] = request[r].stall
    <3> DEFINE c == request[r].cashier
    <3>1. /\ c \in Cashiers /\ \A q \in Requests : q # r => request'[q] = request[q]
          /\ request'[r].cashier = c /\ request'[r].stall = request[r].stall
      BY <1>2, <2>3 DEF Moved
    <3>2. staffLock'[c] = r /\ \A d \in Cashiers : d # c => staffLock'[d] = staffLock[d]
      BY <1>5, <2>3, <3>1
    <3>3. \A d \in Cashiers, t \in Transactions :
             t # r /\ staffLock[d] = t => staffLock'[d] = t
      <4>1. None \notin Transactions
        BY DEF Transactions
      <4> QED BY <2>1, <3>2, <4>1
    <3> HIDE DEF c
    <3>4. RequestsHoldRow'
      <4>1. assignment'[c] = request'[r].stall
        BY <2>1, <2>3, <3>1 DEF c
      <4>2. ASSUME NEW q \in Requests, q # r, request'[q].pc \in {"insert", "commit"}
            PROVE  /\ staffLock'[request'[q].cashier] = q
                   /\ assignment'[request'[q].cashier] = request'[q].stall
        BY <1>1, <1>4, <1>6, <2>1, <3>1, <3>3, <4>2 DEF RequestsHoldRow
      <4> QED BY <3>1, <3>2, <4>1, <4>2 DEF RequestsHoldRow
    <3>5. ChangesHoldLocks'
      <4>1. \A a \in Admins : admin'[a] = admin[a] /\ a # r
        BY <2>1
      <4> QED BY <1>1, <1>3, <1>6, <2>1, <3>3, <4>1 DEF ChangesHoldLocks
    <3> QED BY <3>4, <3>5 DEF LockInv
  <2> QED BY <2>1, <2>2, <2>3
<1>13. ASSUME NEW r \in Requests, InsertOrder(r)
       PROVE  LockInv'
  <2>1. /\ UNCHANGED <<assignment, userLock, staffLock, admin>>
        /\ Moved(r, "commit") /\ request[r].pc = "insert"
    BY <1>13, InsertMoves
  <2>2. /\ \A q \in Requests : q # r => request'[q] = request[q]
        /\ request'[r].cashier = request[r].cashier /\ request'[r].stall = request[r].stall
    BY <2>1 DEF Moved
  <2>3. RequestsHoldRow'
    BY <1>1, <2>1, <2>2 DEF RequestsHoldRow
  <2> QED BY <1>7, <2>1, <2>3 DEF LockInv
<1>14. ASSUME NEW r \in Requests, InsertRefused(r) \/ CommitOrder(r) \/ FailRequest(r)
       PROVE  LockInv'
  <2>1. /\ UNCHANGED <<assignment, admin>> /\ Release(r)
        /\ \E p \in {"done", "relookup", "answer"} : Moved(r, p)
    BY <1>14, RefusedMoves, CommitOrderMoves, FailMoves
  <2> QED BY <1>6, <2>1, ReleaseKeepsLocks
<1>15. ASSUME NEW t \in Transactions, DeadlockVictim(t)
       PROVE  LockInv'
  <2>1. /\ UNCHANGED assignment /\ Release(t)
        /\ \/ t \in Requests /\ Moved(t, "done") /\ UNCHANGED admin
           \/ t \in Admins /\ Changed(t, "done") /\ UNCHANGED request
    BY <1>15, VictimMoves
  <2> QED BY <2>1, ReleaseKeepsLocks
<1>16. ASSUME NEW a \in Admins, NEW c \in Cashiers, NEW kind \in {"assign", "unassign"},
              NEW s \in Stalls, AskAssignment(a, c, kind, s)
       PROVE  LockInv'
  <2>1. Asked(a) /\ UNCHANGED <<assignment, userLock, staffLock, request>>
    BY <1>16, AskMoves DEF locks
  <2>2. ChangesHoldLocks'
    BY <1>1, <2>1 DEF ChangesHoldLocks, Asked
  <2> QED BY <1>8, <2>1, <2>2 DEF LockInv
<1>17. ASSUME NEW a \in Admins, LockStaffUser(a)
       PROVE  LockInv'
  <2>1. /\ UNCHANGED <<assignment, staffLock, request>>
        /\ Changed(a, "lock_staff") /\ admin[a].pc = "lock_user"
        /\ userLock[admin[a].cashier] \in {None, a}
        /\ userLock' = [userLock EXCEPT ![admin[a].cashier] = a]
    BY <1>17, LockUserMoves
  <2>2. /\ admin[a].cashier \in Cashiers /\ admin'[a].cashier = admin[a].cashier
        /\ admin'[a].pc = "lock_staff"
        /\ \A b \in Admins : b # a => admin'[b] = admin[b]
    BY <1>3, <2>1 DEF Changed
  <2>3. /\ userLock'[admin[a].cashier] = a
        /\ \A b \in Admins, c \in Cashiers : b # a /\ userLock[c] = b => userLock'[c] = b
    BY <1>5, <2>1, <2>2
  <2>4. ASSUME NEW b \in Admins, b # a, admin[b].pc \in {"lock_staff", "replace", "commit"}
        PROVE  userLock'[admin[b].cashier] = b
    BY <1>1, <1>3, <2>3, <2>4 DEF ChangesHoldLocks
  <2>5. ChangesHoldLocks'
    BY <1>1, <2>1, <2>2, <2>3, <2>4 DEF ChangesHoldLocks
  <2> QED BY <1>8, <2>1, <2>5 DEF LockInv
<1>18. ASSUME NEW a \in Admins, UNCHANGED request, UNCHANGED userLock, UNCHANGED assignment,
              admin[a].pc \in {"lock_staff", "replace"},
              staffLock' = [staffLock EXCEPT ![admin[a].cashier] = a],
              \A r \in Requests : request[r].pc \in {"insert", "commit"}
                                     => request[r].cashier # admin[a].cashier,
              NEW p \in {"replace", "commit"}, Changed(a, p),
              admin'[a].before = assignment[admin[a].cashier]
       PROVE  LockInv'
  <2>1. /\ admin[a].cashier \in Cashiers /\ admin'[a].cashier = admin[a].cashier
        /\ admin'[a].pc = p
        /\ \A b \in Admins : b # a => admin'[b] = admin[b]
    BY <1>3, <1>18 DEF Changed
  <2>2. /\ staffLock'[admin[a].cashier] = a
        /\ \A c \in Cashiers : c # admin[a].cashier => staffLock'[c] = staffLock[c]
    BY <1>5, <1>18, <2>1
  <2>3. userLock[admin[a].cashier] = a
    BY <1>1, <1>18 DEF ChangesHoldLocks
  <2>4. RequestsHoldRow'
    BY <1>1, <1>4, <1>18, <2>2 DEF RequestsHoldRow
  <2>5. ASSUME NEW b \in Admins, b # a, admin[b].pc \in {"lock_staff", "replace", "commit"}
        PROVE  staffLock'[admin[b].cashier] = staffLock[admin[b].cashier]
    BY <1>1, <1>3, <2>2, <2>3, <2>5 DEF ChangesHoldLocks
  <2>6. ChangesHoldLocks'
    <3>1. ASSUME NEW b \in Admins, b # a,
                 admin'[b].pc \in {"lock_staff", "replace", "commit"}
          PROVE  /\ userLock'[admin'[b].cashier] = b
                 /\ admin'[b].pc \in {"replace", "commit"} =>
                       admin'[b].before = assignment'[admin'[b].cashier]
                 /\ admin'[b].pc = "replace" /\ admin'[b].before # None
                       => staffLock'[admin'[b].cashier] = b
                 /\ admin'[b].pc = "commit" => staffLock'[admin'[b].cashier] = b
      BY <1>1, <1>18, <2>1, <2>5, <3>1 DEF ChangesHoldLocks
    <3>2. /\ userLock'[admin'[a].cashier] = a
          /\ admin'[a].before = assignment'[admin'[a].cashier]
          /\ staffLock'[admin'[a].cashier] = a
      BY <1>18, <2>1, <2>2, <2>3
    <3> QED BY <3>1, <3>2, Zenon DEF ChangesHoldLocks
  <2> QED BY <2>4, <2>6 DEF LockInv
<1>19. ASSUME NEW a \in Admins, ReadAssignment(a)
       PROVE  LockInv'
  <2>1. /\ UNCHANGED <<assignment, request>>
        /\ admin[a].pc = "lock_staff" /\ staffLock[admin[a].cashier] \in {None, a}
        /\ \/ Changed(a, "done") /\ Release(a)
           \/ /\ Changed(a, "replace") /\ UNCHANGED userLock
              /\ admin'[a].before = assignment[admin[a].cashier]
              /\ \/ assignment[admin[a].cashier] = None /\ UNCHANGED staffLock
                 \/ staffLock' = [staffLock EXCEPT ![admin[a].cashier] = a]
    BY <1>19, ReadMoves
  <2>2. CASE Changed(a, "done") /\ Release(a)
    BY <1>6, <2>1, <2>2, ReleaseKeepsLocks
  <2>3. CASE /\ Changed(a, "replace") /\ UNCHANGED <<userLock, staffLock>>
             /\ admin'[a].before = assignment[admin[a].cashier]
             /\ assignment[admin[a].cashier] = None
    <3>1. /\ admin'[a].cashier = admin[a].cashier /\ admin'[a].pc = "replace"
          /\ \A b \in Admins : b # a => admin'[b] = admin[b]
      BY <2>3 DEF Changed
    <3>2. userLock[admin[a].cashier] = a
      BY <1>1, <2>1 DEF ChangesHoldLocks
    <3>3. ChangesHoldLocks'
      BY <1>1, <2>1, <2>3, <3>1, <3>2 DEF ChangesHoldLocks
    <3> QED BY <1>8, <2>1, <2>3, <3>3 DEF LockInv
  <2>4. CASE /\ Changed(a, "replace") /\ UNCHANGED userLock
             /\ admin'[a].before = assignment[admin[a].cashier]
             /\ staffLock' = [staffLock EXCEPT ![admin[a].cashier] = a]
    <3>1. \A r \in Requests : request[r].pc \in {"insert", "commit"}
                                 => request[r].cashier # admin[a].cashier
      BY <1>1, <2>1 DEF RequestsHoldRow
    <3> QED BY <1>18, <2>1, <2>4, <3>1
  <2> QED BY <2>1, <2>2, <2>3, <2>4
<1>20. ASSUME NEW a \in Admins, ReplaceRow(a)
       PROVE  LockInv'
  <2>1. /\ UNCHANGED <<assignment, userLock, request>>
        /\ Changed(a, "commit") /\ admin[a].pc = "replace"
        /\ admin'[a].before = admin[a].before
        /\ staffLock' = [staffLock EXCEPT ![admin[a].cashier] = a]
    BY <1>20, ReplaceMoves
  <2>2. admin[a].before = assignment[admin[a].cashier]
    BY <1>1, <2>1 DEF ChangesHoldLocks
  <2>3. ASSUME NEW r \in Requests, request[r].pc \in {"insert", "commit"},
               request[r].cashier = admin[a].cashier
        PROVE  FALSE
    <3>1. staffLock[admin[a].cashier] = r /\ assignment[admin[a].cashier] = request[r].stall
      BY <1>1, <2>3 DEF RequestsHoldRow
    <3>2. request[r].stall # None
      BY <2>3 DEF TypeInv, RequestsTyped
    <3> QED BY <1>1, <2>1, <2>2, <3>1, <3>2 DEF ChangesHoldLocks
  <2> QED BY <1>18, <2>1, <2>2, <2>3
<1>21. ASSUME NEW a \in Admins, CommitAssignment(a)
       PROVE  LockInv'
  <2> DEFINE c == admin[a].cashier
  <2>1. /\ UNCHANGED request /\ Changed(a, "done") /\ Release(a) /\ admin[a].pc = "commit"
        /\ assignment' = [assignment EXCEPT ![c] = StallAfter(a)]
    BY <1>21, CommitAssignmentMoves
  <2>2. /\ c \in Cashiers /\ admin'[a].pc = "done"
        /\ \A b \in Admins : b # a => admin'[b] = admin[b]
    BY <1>3, <2>1 DEF Changed
  <2>3. \A d \in Cashiers : /\ userLock[d] # a => userLock'[d] = userLock[d]
                            /\ staffLock[d] # a => staffLock'[d] = staffLock[d]
    BY <1>6, <2>1, Released DEF TypeInv
  <2>4. staffLock[c] = a /\ userLock[c] = a
    BY <1>1, <2>1 DEF ChangesHoldLocks
  <2>5. \A d \in Cashiers : d # c => assignment'[d] = assignment[d]
    BY <1>5, <2>1, <2>2
  <2> HIDE DEF c
  <2>6. RequestsHoldRow'
    <3>1. ASSUME NEW r \in Requests, request[r].pc \in {"insert", "commit"}
          PROVE  /\ staffLock'[request[r].cashier] = r
                 /\ assignment'[request[r].cashier] = request[r].stall
      BY <1>1, <1>4, <2>3, <2>4, <2>5, <3>1 DEF RequestsHoldRow
    <3> QED BY <2>1, <3>1 DEF RequestsHoldRow
  <2>7. ChangesHoldLocks'
    <3>1. ASSUME NEW b \in Admins, b # a, admin[b].pc \in {"lock_staff", "replace", "commit"}
          PROVE  /\ admin[b].cashier \in Cashiers /\ admin[b].cashier # c
                 /\ userLock'[admin[b].cashier] = userLock[admin[b].cashier]
      BY <1>1, <1>3, <2>3, <2>4, <3>1 DEF ChangesHoldLocks
    <3>2. ASSUME NEW b \in Admins, admin'[b].pc \in {"lock_staff", "replace", "commit"}
          PROVE  /\ userLock'[admin'[b].cashier] = b
                 /\ admin'[b].pc \in {"replace", "commit"} =>
                       admin'[b].before = assignment'[admin'[b].cashier]
                 /\ admin'[b].pc = "replace" /\ admin'[b].before # None
                       => staffLock'[admin'[b].cashier] = b
                 /\ admin'[b].pc = "commit" => staffLock'[admin'[b].cashier] = b
      <4>1. b # a /\ admin'[b] = admin[b]
        BY <2>2, <3>2
      <4> QED BY <1>1, <2>3, <2>5, <3>1, <3>2, <4>1 DEF ChangesHoldLocks
    <3> QED BY <3>2, Zenon DEF ChangesHoldLocks
  <2> QED BY <2>6, <2>7 DEF LockInv
<1>22. CASE UNCHANGED vars
  BY <1>7, <1>8, <1>22 DEF LockInv, vars, locks
<1> QED BY <1>10, <1>11, <1>12, <1>13, <1>14, <1>15, <1>16, <1>17, <1>19, <1>20, <1>21,
           <1>22, Steps

\* A request that passed the assignment check with its row locked commits while the
\* cashier still has that stall, whatever managers do meanwhile.
THEOREM OrdersKeepToTheirStall == Spec => OrderInAssignedStall
<1>1. Spec => [](TypeInv /\ OrderInv /\ LockInv)
  BY InitTyped, NextTyped, InitOrders, NextOrders, InitLocks, NextLocks, PTL DEF Spec
<1>2. TypeInv /\ OrderInv /\ LockInv /\ [Next]_vars
        => [\A o \in orders' \ orders : assignment[o.cashier] = o.stall]_vars
  <2> SUFFICES ASSUME TypeInv, OrderInv, LockInv, [Next]_vars, NEW o \in orders' \ orders
               PROVE  assignment[o.cashier] = o.stall
    OBVIOUS
  <2>1. PICK r \in Requests : Stores(r)
    BY OrderSteps DEF Waits, Ends, Inserts
  <2>2. o = NewOrder(r) /\ request[r].pc = "commit"
    BY <2>1 DEF Stores
  <2>3. assignment[request[r].cashier] = request[r].stall
    BY <2>2 DEF LockInv, RequestsHoldRow
  <2> QED BY <2>2, <2>3 DEF NewOrder
<1> QED BY <1>1, <1>2, PTL DEF OrderInAssignedStall, Spec
-----------------------------------------------------------------------------
(* The audit rows of the assignments. *)

\* The later rows of the cashier of row i.
Later(i) == {j \in DOMAIN audit : j > i /\ audit[j].cashier = audit[i].cashier}

\* A row without a successor tells the present assignment; a row with one tells
\* what its successor replaced.
RowsLinked ==
    \A i \in DOMAIN audit :
        /\ Later(i) = {} => audit[i].after = assignment[audit[i].cashier]
        /\ \A m \in Later(i) :
              (\A l \in Later(i) : m <= l) => audit[i].after = audit[m].before

\* A set of numbers has a least one.
LEMMA Least ==
    ASSUME NEW T, T \subseteq Nat, T # {}
    PROVE  \E x \in T : \A y \in T : x <= y
<1> DEFINE R == {p \in Nat \X Nat : p[1] < p[2]}
<1>1. OpToRel(<, Nat) = R
  BY DEF OpToRel
<1>2. IsWellFoundedOn(OpToRel(<, Nat), Nat)
  BY NatLessThanWellFounded
<1>3. IsWellFoundedOn(R, Nat)
  BY <1>1, <1>2
<1> HIDE DEF R
<1>4. \E x \in T : \A y \in T : ~(<<y, x>> \in R)
  BY <1>3, WFMin
<1> USE DEF R
<1>5. \A x, y \in Nat : ~(<<y, x>> \in R) => x <= y
  OBVIOUS
<1> QED BY <1>4, <1>5

LEMMA LinkedChain ==
    ASSUME TypeInv, RowsLinked
    PROVE  AuditChain
<1> SUFFICES ASSUME NEW i \in DOMAIN audit
             PROVE  IF Later(i) = {} THEN audit[i].after = assignment[audit[i].cashier]
                    ELSE audit[i].after
                         = audit[CHOOSE j \in Later(i) : \A l \in Later(i) : j <= l].before
  BY Zenon DEF AuditChain, Later
<1>1. Later(i) \subseteq Nat
  BY DEF TypeInv, StoreTyped, Later
<1>2. CASE Later(i) = {}
  BY <1>2 DEF RowsLinked
<1>3. CASE Later(i) # {}
  <2>1. \E j \in Later(i) : \A l \in Later(i) : j <= l
    BY <1>1, <1>3, Least
  <2> DEFINE m == CHOOSE j \in Later(i) : \A l \in Later(i) : j <= l
  <2>2. m \in Later(i) /\ \A l \in Later(i) : m <= l
    BY <2>1, Zenon
  <2> HIDE DEF m
  <2>3. audit[i].after = audit[m].before
    BY <2>2 DEF RowsLinked
  <2> QED BY <1>3, <2>3 DEF m
<1> QED BY <1>2, <1>3

LEMMA NextRows == TypeInv /\ LockInv /\ RowsLinked /\ [Next]_vars => RowsLinked'
<1> SUFFICES ASSUME TypeInv, LockInv, RowsLinked, [Next]_vars PROVE RowsLinked'
  OBVIOUS
<1>1. CASE UNCHANGED <<assignment, audit>>
  BY <1>1 DEF RowsLinked, Later
<1>2. ASSUME NEW a \in Admins, CommitAssignment(a)
      PROVE  RowsLinked'
  <2> DEFINE c == admin[a].cashier
             row == AuditEntry(a)
             n == Len(audit)
  <2>1. /\ admin[a].pc = "commit" /\ assignment' = [assignment EXCEPT ![c] = StallAfter(a)]
        /\ audit' = Append(audit, row) /\ row \in AuditRow
    BY <1>2, CommitAssignmentMoves
  <2>2. row.cashier = c /\ row.after = StallAfter(a) /\ row.before = assignment[c]
    BY <2>1 DEF AuditEntry, LockInv, ChangesHoldLocks
  <2>3. /\ c \in Cashiers /\ assignment \in [Cashiers -> StallOrNone] /\ audit \in Seq(AuditRow)
    BY <2>1 DEF TypeInv, AdminsTyped, StoreTyped
  <2>4. /\ assignment'[c] = row.after
        /\ \A d \in Cashiers : d # c => assignment'[d] = assignment[d]
    BY <2>1, <2>2, <2>3
  <2> HIDE DEF row, c
  <2>5. /\ n \in Nat /\ DOMAIN audit = 1..n /\ DOMAIN audit' = 1..(n + 1)
        /\ audit'[n + 1] = row /\ \A i \in 1..n : audit'[i] = audit[i]
        /\ \A i \in 1..n : audit[i].cashier \in Cashiers
    <3>1. n \in Nat /\ DOMAIN audit = 1..n
      BY <2>3
    <3>2. \A i \in 1..n : audit[i] \in AuditRow
      BY <2>3, <3>1
    <3>3. \A i \in 1..n : audit[i].cashier \in Cashiers
      BY <3>2 DEF AuditRow
    <3>4. DOMAIN audit' = 1..(n + 1)
      BY <2>1, <2>3
    <3>5. audit'[n + 1] = row /\ \A i \in 1..n : audit'[i] = audit[i]
      BY <2>1, <2>3
    <3> QED BY <3>1, <3>3, <3>4, <3>5
  <2> HIDE DEF n
  <2>6. ASSUME NEW i \in 1..n
        PROVE  Later(i)' = Later(i) \cup IF audit[i].cashier = c THEN {n + 1} ELSE {}
    BY <2>2, <2>5 DEF Later
  <2>7. ASSUME NEW i \in 1..n
        PROVE  Later(i) \subseteq 1..n
    BY <2>5 DEF Later
  <2>8. ASSUME NEW i \in DOMAIN audit', Later(i)' = {}
        PROVE  audit'[i].after = assignment'[audit'[i].cashier]
    <3>1. CASE i = n + 1
      BY <2>2, <2>4, <2>5, <3>1
    <3>2. CASE i \in 1..n
      <4>1. Later(i) = {} /\ audit[i].cashier # c
        BY <2>6, <2>8, <3>2
      <4> QED BY <2>4, <2>5, <3>2, <4>1 DEF RowsLinked
    <3> QED BY <2>5, <3>1, <3>2
  <2>9. ASSUME NEW i \in DOMAIN audit', NEW m \in Later(i)', \A l \in Later(i)' : m <= l
        PROVE  audit'[i].after = audit'[m].before
    <3>1. CASE i = n + 1
      BY <2>5, <3>1 DEF Later
    <3>2. CASE i \in 1..n
      <4>1. CASE m \in Later(i)
        <5>1. \A l \in Later(i) : m <= l
          BY <2>6, <2>9, <3>2
        <5>2. m \in 1..n
          BY <2>7, <3>2, <4>1
        <5> QED BY <2>5, <3>2, <4>1, <5>1, <5>2 DEF RowsLinked
      <4>2. CASE m \notin Later(i)
        <5>1. m = n + 1 /\ audit[i].cashier = c
          BY <2>6, <3>2, <4>2
        <5>2. Later(i) = {}
          BY <2>5, <2>6, <2>7, <2>9, <3>2, <5>1
        <5> QED BY <2>2, <2>5, <3>2, <5>1, <5>2 DEF RowsLinked
      <4> QED BY <4>1, <4>2
    <3> QED BY <2>5, <3>1, <3>2
  <2> QED BY <2>8, <2>9 DEF RowsLinked
<1>3. CASE UNCHANGED vars
  BY <1>1, <1>3 DEF vars
<1>4. ASSUME Next, ~ \E a \in Admins : CommitAssignment(a)
      PROVE  UNCHANGED <<assignment, audit>>
  BY <1>4, Steps, SubmitMoves, LookupMoves, LockRowMoves, InsertMoves, RefusedMoves,
     CommitOrderMoves, CreatedMoves, FailMoves, AskMoves, LockUserMoves, ReadMoves,
     ReplaceMoves, VictimMoves
<1> QED BY <1>1, <1>2, <1>3, <1>4

\* The audit rows of every cashier tell his assignments without a gap, however many
\* managers change them at once.
THEOREM AuditIsGapless == Spec => []AuditChain
<1>1. Init => RowsLinked
  BY DEF Init, RowsLinked
<1>2. Spec => [](TypeInv /\ LockInv /\ RowsLinked)
  BY <1>1, InitTyped, NextTyped, InitLocks, NextLocks, NextRows, PTL DEF Spec
<1>3. TypeInv /\ RowsLinked => AuditChain
  BY LinkedChain
<1> QED BY <1>2, <1>3, PTL
-----------------------------------------------------------------------------
(* Assignment changes of one cashier do not wait for each other in a circle. *)

\* Only a change that read the assignment holds its row or a gap.
ReadersHold ==
    /\ \A a \in Admins, c \in Cashiers : staffLock[c] = a =>
          admin[a].cashier = c /\ admin[a].pc \in {"replace", "commit"}
    /\ \A a \in staffGap : admin[a].pc \in {"replace", "commit"}

LEMMA NextReaders == TypeInv /\ LockInv /\ ReadersHold /\ [Next]_vars => ReadersHold'
<1> SUFFICES ASSUME TypeInv, LockInv, ReadersHold, [Next]_vars PROVE ReadersHold'
  OBVIOUS
<1>1. /\ staffLock \in [Cashiers -> Transactions \cup {None}] /\ staffGap \subseteq Admins
      /\ Requests \subseteq Transactions /\ Admins \subseteq Transactions
  BY DEF TypeInv, LocksTyped, Transactions
<1>2. CASE UNCHANGED <<staffLock, staffGap, admin>>
  BY <1>2 DEF ReadersHold
<1>3. ASSUME NEW t \in Transactions, Release(t),
             \/ t \in Requests /\ UNCHANGED admin
             \/ t \in Admins /\ Changed(t, "done")
      PROVE  ReadersHold'
  <2>1. \A c \in Cashiers : /\ staffLock[c] # t => staffLock'[c] = staffLock[c]
                            /\ staffLock[c] = t => staffLock'[c] = None
    BY <1>3, Released DEF TypeInv
  <2>2. staffGap' = staffGap \ {t}
    BY <1>3 DEF Release
  <2>3. \A a \in Admins : a # t => admin'[a] = admin[a]
    BY <1>3 DEF Changed
  <2> QED BY <1>1, <2>1, <2>2, <2>3 DEF ReadersHold
<1>4. ASSUME NEW r \in Requests, LockAssignmentRow(r)
      PROVE  ReadersHold'
  <2>1. /\ UNCHANGED <<staffGap, admin>> /\ request[r].pc = "lock"
        /\ \/ staffLock' = [staffLock EXCEPT ![request[r].cashier] = r]
           \/ UNCHANGED staffLock
    BY <1>4, LockRowMoves DEF LockAssignmentRow
  <2>2. request[r].cashier \in Cashiers
    BY <2>1 DEF TypeInv, RequestsTyped
  <2>3. \A c \in Cashiers : staffLock'[c] = r \/ staffLock'[c] = staffLock[c]
    BY <1>1, <2>1, <2>2
  <2> QED BY <2>1, <2>3 DEF ReadersHold
<1>5. ASSUME NEW a \in Admins, Asked(a) \/ Changed(a, "lock_staff"),
             admin[a].pc \in {"new", "lock_user"}, UNCHANGED <<staffLock, staffGap>>
      PROVE  ReadersHold'
  <2>1. \A b \in Admins : b # a => admin'[b] = admin[b]
    BY <1>5 DEF Asked, Changed
  <2> QED BY <1>1, <1>5, <2>1 DEF ReadersHold
<1>6. ASSUME NEW a \in Admins, NEW p \in {"replace", "commit"}, Changed(a, p),
             \/ UNCHANGED staffLock
             \/ staffLock' = [staffLock EXCEPT ![admin[a].cashier] = a],
             UNCHANGED staffGap \/ staffGap' = staffGap \cup {a}
      PROVE  ReadersHold'
  <2>1. /\ admin'[a].cashier = admin[a].cashier /\ admin'[a].pc = p /\ admin[a].pc # "new"
        /\ \A b \in Admins : b # a => admin'[b] = admin[b]
    BY <1>6 DEF Changed
  <2>2. admin[a].cashier \in Cashiers
    BY <2>1 DEF TypeInv, AdminsTyped
  <2>3. ASSUME NEW b \in Admins, NEW c \in Cashiers, staffLock'[c] = b
        PROVE  admin'[b].cashier = c /\ admin'[b].pc \in {"replace", "commit"}
    <3>1. staffLock[c] = b \/ (b = a /\ c = admin[a].cashier)
      BY <1>1, <1>6, <2>2, <2>3
    <3> QED BY <2>1, <3>1 DEF ReadersHold
  <2>4. ASSUME NEW b \in staffGap'
        PROVE  admin'[b].pc \in {"replace", "commit"}
    BY <1>1, <1>6, <2>1 DEF ReadersHold
  <2> QED BY <2>3, <2>4 DEF ReadersHold
<1>7. ASSUME NEW r \in Requests, Lookup(r) \/ Relookup(r) \/ AnswerCreated(r) \/ InsertOrder(r)
      PROVE  ReadersHold'
  BY <1>2, <1>7, LookupMoves, CreatedMoves, InsertMoves DEF locks
<1>8. ASSUME NEW r \in Requests, InsertRefused(r) \/ CommitOrder(r) \/ FailRequest(r)
      PROVE  ReadersHold'
  BY <1>1, <1>3, <1>8, RefusedMoves, CommitOrderMoves, FailMoves
<1>9. ASSUME NEW r \in Requests, NEW c \in Cashiers, NEW k \in Keys, NEW b \in Bodies,
             Submit(r, c, k, b)
      PROVE  ReadersHold'
  BY <1>2, <1>9, SubmitMoves DEF locks
<1>10. ASSUME NEW a \in Admins, NEW c \in Cashiers, NEW kind \in {"assign", "unassign"},
              NEW s \in Stalls, AskAssignment(a, c, kind, s)
       PROVE  ReadersHold'
  <2>1. Asked(a) /\ UNCHANGED <<staffLock, staffGap>>
    BY <1>10, AskMoves DEF locks
  <2> QED BY <1>5, <2>1 DEF Asked
<1>11. ASSUME NEW a \in Admins, LockStaffUser(a)
       PROVE  ReadersHold'
  BY <1>5, <1>11, LockUserMoves
<1>12. ASSUME NEW a \in Admins, ReadAssignment(a)
       PROVE  ReadersHold'
  <2>1. \/ Changed(a, "done") /\ Release(a)
        \/ /\ Changed(a, "replace")
           /\ \/ staffGap' = staffGap \cup {a} /\ UNCHANGED staffLock
              \/ /\ staffLock' = [staffLock EXCEPT ![admin[a].cashier] = a]
                 /\ UNCHANGED staffGap
    BY <1>12, ReadMoves
  <2> QED BY <1>1, <1>3, <1>6, <2>1
<1>13. ASSUME NEW a \in Admins, ReplaceRow(a)
       PROVE  ReadersHold'
  BY <1>6, <1>13, ReplaceMoves
<1>14. ASSUME NEW a \in Admins, CommitAssignment(a)
       PROVE  ReadersHold'
  BY <1>1, <1>3, <1>14, CommitAssignmentMoves
<1>15. ASSUME NEW t \in Transactions, DeadlockVictim(t)
       PROVE  ReadersHold'
  BY <1>3, <1>15, VictimMoves
<1>16. CASE UNCHANGED vars
  BY <1>2, <1>16 DEF vars, locks
<1> QED BY <1>4, <1>7, <1>8, <1>9, <1>10, <1>11, <1>12, <1>13, <1>14, <1>15, <1>16, Steps

LEMMA NoCircle == TypeInv /\ LockInv /\ ReadersHold => AssignmentsSerialized
<1> SUFFICES ASSUME TypeInv, LockInv, ReadersHold, NEW a \in Admins, NEW b \in Admins,
                    admin[a].cashier = admin[b].cashier, b \in Blockers(a), a \in Blockers(b)
             PROVE  FALSE
  BY DEF AssignmentsSerialized
<1> DEFINE c == admin[a].cashier
<1>1. a \notin Requests /\ b \notin Requests
  OBVIOUS
<1>2. ASSUME NEW x \in Admins, NEW y \in Admins, y \in Blockers(x)
      PROVE  /\ x # y
             /\ \/ /\ admin[x].pc = "lock_user" /\ y = userLock[admin[x].cashier]
                \/ admin[x].pc = "lock_staff" /\ y = staffLock[admin[x].cashier]
                \/ admin[x].pc = "replace" /\ y \in staffGap
  <2>1. \/ admin[x].pc = "lock_user" /\ y \in UserWriteBlockers(admin[x].cashier, x)
        \/ admin[x].pc = "lock_staff" /\ y \in StaffBlockers(admin[x].cashier, x)
        \/ admin[x].pc = "replace" /\ y \in GapBlockers(x)
    BY <1>2 DEF Blockers
  <2>2. admin[x].cashier \in Cashiers
    BY <2>1 DEF TypeInv, AdminsTyped
  <2>3. y \notin userShared[admin[x].cashier]
    BY <2>2 DEF TypeInv, LocksTyped
  <2> QED BY <2>1, <2>3 DEF UserWriteBlockers, StaffBlockers, GapBlockers
<1>3. ASSUME NEW x \in Admins, admin[x].cashier = c,
             admin[x].pc \in {"lock_staff", "replace", "commit"}
      PROVE  userLock[c] = x
  BY <1>3 DEF LockInv, ChangesHoldLocks
<1>4. ASSUME NEW x \in Admins, NEW y \in Admins, y \in Blockers(x), admin[x].cashier = c,
             admin[y].cashier = c
      PROVE  userLock[c] = y /\ admin[x].pc = "lock_user"
  <2>1. CASE admin[x].pc = "lock_user"
    BY <1>2, <1>4, <2>1
  <2>2. CASE admin[x].pc # "lock_user"
    <3>1. admin[x].pc \in {"lock_staff", "replace"} /\ c \in Cashiers
      BY <1>2, <1>4, <2>2 DEF TypeInv, AdminsTyped
    <3>2. admin[y].pc \in {"replace", "commit"}
      BY <1>2, <1>4, <2>2, <3>1 DEF ReadersHold
    <3>3. userLock[c] = x /\ userLock[c] = y
      BY <1>3, <1>4, <3>1, <3>2
    <3> QED BY <1>2, <1>4, <3>3
  <2> QED BY <2>1, <2>2
<1> QED BY <1>2, <1>4

\* Concurrent first assignments and reassignments of one cashier wait for each other
\* in order, never in a circle.
THEOREM ChangesAreSerialized == Spec => []AssignmentsSerialized
<1>1. Init => ReadersHold
  BY DEF Init, ReadersHold
<1>2. Spec => [](TypeInv /\ LockInv /\ ReadersHold)
  BY <1>1, InitTyped, NextTyped, InitLocks, NextLocks, NextReaders, PTL DEF Spec
<1> QED BY <1>2, NoCircle, PTL
=============================================================================

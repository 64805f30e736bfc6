----------------------- MODULE KitchenDispatchProofs -----------------------
(***************************************************************************)
(* For any number of orders, processes, requests and chats, and however    *)
(* often the environment interferes: the rows and the workers' memory stay *)
(* well formed, and while no dispatch outlasts the lock timeout no order   *)
(* is worked on by two workers.  From this: what tickets, outbox and       *)
(* messages say of each other, and when an unknown send is not repeated.   *)
(***************************************************************************)
EXTENDS KitchenDispatch, SequenceTheorems, FiniteSetTheorems, TLAPS

\* Where a worker holds a ticket row: the row must exist.
HoldsRow == {"fail_pending", "calling", "reload", "save_sent", "save_failed"}

WorkerRefs ==
    \A w \in Workers :
        /\ worker[w].pc # "idle" => worker[w].order \in Orders
        /\ worker[w].pc \in HoldsRow =>
               worker[w].ticket \in 1..Len(tickets[worker[w].order])

HandlerRefs ==
    \A h \in Handlers :
        /\ handler[h].pc # "idle" => handler[h].order \in Orders
        /\ handler[h].pc = "complete" =>
               handler[h].ticket \in 1..Len(tickets[handler[h].order])
        /\ handler[h].pc \in {"complete", "edit"} =>
               handler[h].message \in 1..Len(kitchen)

\* Type correctness is inductive only together with the references into the
\* ticket and message sequences.
TypeInv == TypeOK /\ WorkerRefs /\ HandlerRefs
-----------------------------------------------------------------------------
(* What the steps are made of. *)

LEMMA JobTypes ==
    ASSUME NEW j \in JobRow
    PROVE  /\ \A s \in JobStatus, w \in Workers \cup {NoOne}, b \in BOOLEAN :
                 [j EXCEPT !.status = s, !.lockedBy = w, !.stale = b] \in JobRow
           /\ \A s \in JobStatus, b \in BOOLEAN, c \in BOOLEAN :
                 [j EXCEPT !.status = s, !.lockedBy = NoOne, !.due = b, !.stale = c] \in JobRow
BY DEF JobRow

LEMMA IdleTypes == IdleWorker \in WorkerMemory /\ IdleHandler \in HandlerMemory
BY DEF IdleWorker, WorkerMemory, WorkerPC, IdleHandler, HandlerMemory

LEMMA LatestType ==
    ASSUME TypeOK, NEW o \in Orders
    PROVE  /\ LatestStatus(o) \in TicketStatus \cup {"none"}
           /\ LatestStatus(o) # "none" => Len(tickets[o]) \in 1..Len(tickets[o])
<1>1. tickets[o] \in Seq(TicketRow)
  BY DEF TypeOK
<1>2. CASE tickets[o] = << >>
  BY <1>2 DEF LatestStatus
<1>3. CASE tickets[o] # << >>
  <2>1. Len(tickets[o]) \in 1..Len(tickets[o])
    BY <1>1, <1>3
  <2>2. tickets[o][Len(tickets[o])] \in TicketRow
    BY <1>1, <2>1
  <2> QED
    BY <1>3, <2>1, <2>2 DEF LatestStatus, TicketRow
<1> QED
  BY <1>2, <1>3

\* Saving the row in hand changes that row and no length.
LEMMA SaveTicketKeeps ==
    ASSUME TypeInv, NEW w \in Workers, worker[w].pc \in HoldsRow,
           NEW row \in TicketRow, SaveTicket(w, row)
    PROVE  /\ tickets' \in [Orders -> Seq(TicketRow)]
           /\ \A o \in Orders : Len(tickets'[o]) = Len(tickets[o])
<1> DEFINE o == worker[w].order
           k == worker[w].ticket
<1>1. o \in Orders /\ k \in 1..Len(tickets[o]) /\ tickets[o] \in Seq(TicketRow)
  BY DEF TypeInv, TypeOK, WorkerRefs, HoldsRow
<1>2. tickets' = [tickets EXCEPT ![o] = [tickets[o] EXCEPT ![k] = row]]
  BY <1>1 DEF SaveTicket, TypeInv, TypeOK
<1> HIDE DEF o, k
<1>3. /\ [tickets[o] EXCEPT ![k] = row] \in Seq(TicketRow)
      /\ Len([tickets[o] EXCEPT ![k] = row]) = Len(tickets[o])
  BY <1>1, ExceptSeq
<1> QED
  BY <1>1, <1>2, <1>3 DEF TypeInv, TypeOK

LEMMA InHandType ==
    ASSUME TypeInv, NEW w \in Workers, worker[w].pc \in HoldsRow
    PROVE  InHand(w) \in TicketRow
<1>1. /\ worker[w].order \in Orders
      /\ worker[w].ticket \in 1..Len(tickets[worker[w].order])
      /\ tickets[worker[w].order] \in Seq(TicketRow)
  BY DEF TypeInv, TypeOK, WorkerRefs, HoldsRow
<1> QED
  BY <1>1 DEF InHand

LEMMA RowWithType ==
    ASSUME TypeInv, NEW w \in Workers, worker[w].pc \in HoldsRow,
           NEW s \in TicketStatus
    PROVE  RowWith(w, s) \in TicketRow
<1>1. InHand(w) \in TicketRow /\ worker[w] \in WorkerMemory
  BY InHandType DEF TypeInv, TypeOK
<1> QED
  BY <1>1 DEF RowWith, TicketRow, WorkerMemory

LEMMA NextIdType ==
    ASSUME TypeOK, NEW c
    PROVE  NextId(c) \in Nat
<1>1. kitchen \in Seq(Message)
  BY DEF TypeOK
<1>2. DOMAIN kitchen = 1..Len(kitchen) /\ Len(kitchen) \in Nat
  BY <1>1
<1>3. IsFiniteSet(1..Len(kitchen))
  BY <1>2, FS_Interval
<1>4. {m \in DOMAIN kitchen : kitchen[m].chat = c} \in SUBSET (1..Len(kitchen))
  BY <1>2
<1>5. IsFiniteSet({m \in DOMAIN kitchen : kitchen[m].chat = c})
  BY <1>3, <1>4, FS_Subset
<1> QED
  BY <1>5, FS_CardinalityType DEF NextId

LEMMA DeliverKeeps ==
    ASSUME TypeInv, NEW w \in Workers, worker[w].pc = "calling", Deliver(w)
    PROVE  kitchen' \in Seq(Message) /\ Len(kitchen') = Len(kitchen) + 1
<1> DEFINE c == InHand(w).chat
           m == [order |-> worker[w].order, chat |-> c, id |-> NextId(c), button |-> TRUE]
<1>1. worker[w].order \in Orders
  BY DEF TypeInv, WorkerRefs
<1>2. c \in Chats
  BY InHandType DEF HoldsRow, TicketRow
<1>3. NextId(c) \in Nat
  BY NextIdType DEF TypeInv
<1>4. m \in Message
  BY <1>1, <1>2, <1>3 DEF Message
<1>5. kitchen' = Append(kitchen, m) /\ kitchen \in Seq(Message)
  BY DEF Deliver, TypeInv, TypeOK
<1> HIDE DEF m
<1> QED
  BY <1>4, <1>5, AppendProperties
-----------------------------------------------------------------------------
(* Type correctness. *)

LEMMA TypeInit == Init => TypeInv
<1> SUFFICES ASSUME Init PROVE TypeInv
  OBVIOUS
<1>1. TypeOK
  <2>1. job \in [Orders -> JobRow]
    BY DEF Init, JobRow, JobStatus
  <2>2. tickets \in [Orders -> Seq(TicketRow)] /\ kitchen \in Seq(Message)
    BY DEF Init
  <2>3. budget \in Budget
    BY BoundsAssumption DEF Init, Budget
  <2> QED
    BY <2>1, <2>2, <2>3, IdleTypes DEF Init, TypeOK
<1>2. WorkerRefs /\ HandlerRefs
  BY DEF Init, WorkerRefs, HandlerRefs, IdleWorker, IdleHandler, HoldsRow
<1> QED
  BY <1>1, <1>2 DEF TypeInv

\* A step that leaves the sequences alone and only sends workers on keeps the
\* references: a worker that newly holds a row holds an existing one.
LEMMA WorkerMoves ==
    ASSUME TypeInv, NEW w \in Workers, NEW new \in WorkerMemory,
           worker' = [worker EXCEPT ![w] = new],
           new.pc # "idle" => new.order \in Orders,
           new.pc \in HoldsRow => new.ticket \in 1..Len(tickets'[new.order]),
           \A o \in Orders : Len(tickets'[o]) >= Len(tickets[o]),
           tickets' \in [Orders -> Seq(TicketRow)]
    PROVE  worker' \in [Workers -> WorkerMemory] /\ WorkerRefs'
<1>1. worker' \in [Workers -> WorkerMemory]
  BY DEF TypeInv, TypeOK
<1>2. ASSUME NEW v \in Workers
      PROVE  /\ worker'[v].pc # "idle" => worker'[v].order \in Orders
             /\ worker'[v].pc \in HoldsRow =>
                    worker'[v].ticket \in 1..Len(tickets'[worker'[v].order])
  <2>1. CASE v = w
    BY <2>1 DEF TypeInv, TypeOK
  <2>2. CASE v # w
    <3>1. worker'[v] = worker[v]
      BY <2>2 DEF TypeInv, TypeOK
    <3>2. CASE worker[v].pc \in HoldsRow
      <4>1. worker[v].order \in Orders
        BY <3>2 DEF TypeInv, WorkerRefs, HoldsRow
      <4>2. worker[v].ticket \in 1..Len(tickets[worker[v].order])
        BY <3>2 DEF TypeInv, WorkerRefs
      <4>3. /\ Len(tickets[worker[v].order]) \in Nat
            /\ Len(tickets'[worker[v].order]) \in Nat
            /\ Len(tickets'[worker[v].order]) >= Len(tickets[worker[v].order])
        BY <4>1 DEF TypeInv, TypeOK
      <4> QED
        BY <3>1, <4>1, <4>2, <4>3
    <3>3. CASE worker[v].pc \notin HoldsRow
      BY <3>1, <3>3 DEF TypeInv, WorkerRefs
    <3> QED
      BY <3>2, <3>3
  <2> QED
    BY <2>1, <2>2
<1> QED
  BY <1>1, <1>2 DEF WorkerRefs

LEMMA HandlersStay ==
    ASSUME TypeInv, UNCHANGED handler,
           \A o \in Orders : Len(tickets'[o]) >= Len(tickets[o]),
           tickets' \in [Orders -> Seq(TicketRow)],
           kitchen' \in Seq(Message), Len(kitchen') >= Len(kitchen)
    PROVE  HandlerRefs'
<1> SUFFICES ASSUME NEW h \in Handlers
             PROVE  /\ handler[h].pc # "idle" => handler[h].order \in Orders
                    /\ handler[h].pc = "complete" =>
                           handler[h].ticket \in 1..Len(tickets'[handler[h].order])
                    /\ handler[h].pc \in {"complete", "edit"} =>
                           handler[h].message \in 1..Len(kitchen')
  BY DEF HandlerRefs
<1>1. handler[h].pc # "idle" => handler[h].order \in Orders
  BY DEF TypeInv, HandlerRefs
<1>2. ASSUME handler[h].pc = "complete"
      PROVE  handler[h].ticket \in 1..Len(tickets'[handler[h].order])
  <2>1. handler[h].ticket \in 1..Len(tickets[handler[h].order])
    BY <1>2 DEF TypeInv, HandlerRefs
  <2>2. /\ Len(tickets[handler[h].order]) \in Nat
        /\ Len(tickets'[handler[h].order]) \in Nat
        /\ Len(tickets'[handler[h].order]) >= Len(tickets[handler[h].order])
    BY <1>1, <1>2 DEF TypeInv, TypeOK
  <2> QED
    BY <2>1, <2>2
<1>3. ASSUME handler[h].pc \in {"complete", "edit"}
      PROVE  handler[h].message \in 1..Len(kitchen')
  <2>1. handler[h].message \in 1..Len(kitchen)
    BY <1>3 DEF TypeInv, HandlerRefs
  <2>2. Len(kitchen) \in Nat /\ Len(kitchen') \in Nat
    BY DEF TypeInv, TypeOK
  <2> QED
    BY <2>1, <2>2
<1> QED
  BY <1>1, <1>2, <1>3

\* A worker step that leaves the rows of tickets and messages alone.
LEMMA WorkerOnly ==
    ASSUME TypeInv, NEW w \in Workers, NEW new \in WorkerMemory,
           worker' = [worker EXCEPT ![w] = new],
           new.pc # "idle" => new.order \in Orders,
           new.pc \in HoldsRow => new.ticket \in 1..Len(tickets[new.order]),
           UNCHANGED <<orderStatus, tickets, stallChat, kitchen, handler>>,
           job' \in [Orders -> JobRow], unreviewed' \in SUBSET Orders, budget' \in Budget
    PROVE  TypeInv'
<1>1. /\ \A o \in Orders : Len(tickets'[o]) \in Nat /\ Len(tickets'[o]) >= Len(tickets[o])
      /\ tickets' \in [Orders -> Seq(TicketRow)]
      /\ kitchen' \in Seq(Message) /\ Len(kitchen') >= Len(kitchen)
  <2>1. tickets \in [Orders -> Seq(TicketRow)] /\ kitchen \in Seq(Message)
    BY DEF TypeInv, TypeOK
  <2>2. Len(kitchen) \in Nat /\ \A o \in Orders : Len(tickets[o]) \in Nat
    BY <2>1
  <2> QED
    BY <2>1, <2>2
<1>2. worker' \in [Workers -> WorkerMemory] /\ WorkerRefs'
  <2>1. new.pc \in HoldsRow => new.ticket \in 1..Len(tickets'[new.order])
    OBVIOUS
  <2> QED
    BY <1>1, <2>1, WorkerMoves
<1>3. HandlerRefs'
  BY <1>1, HandlersStay
<1>4. TypeOK'
  BY <1>1, <1>2 DEF TypeInv, TypeOK
<1> QED
  BY <1>2, <1>3, <1>4 DEF TypeInv

\* The same for the steps that only move the control point.
LEMMA GotoKeeps ==
    ASSUME TypeInv, NEW w \in Workers, NEW pc \in WorkerPC, Goto(w, pc),
           worker[w].pc # "idle", pc \in HoldsRow => worker[w].pc \in HoldsRow,
           UNCHANGED <<orderStatus, job, tickets, stallChat, kitchen, handler, unreviewed>>,
           budget' \in Budget
    PROVE  TypeInv'
<1> DEFINE new == [worker[w] EXCEPT !.pc = pc]
<1>1. worker' = [worker EXCEPT ![w] = new] /\ worker[w] \in WorkerMemory
  BY DEF Goto, TypeInv, TypeOK
<1>2. new \in WorkerMemory /\ new.pc = pc /\ new.order = worker[w].order
      /\ new.ticket = worker[w].ticket
  BY <1>1 DEF WorkerMemory
<1>3. job' \in [Orders -> JobRow] /\ unreviewed' \in SUBSET Orders
  BY DEF TypeInv, TypeOK
<1>4. /\ new.pc # "idle" => new.order \in Orders
      /\ new.pc \in HoldsRow => new.ticket \in 1..Len(tickets[new.order])
  BY <1>2 DEF TypeInv, WorkerRefs
<1> HIDE DEF new
<1> QED
  BY <1>1, <1>2, <1>3, <1>4, WorkerOnly

\* Saving the job and going to rest.
LEMMA RestKeeps ==
    ASSUME TypeInv, NEW w \in Workers, Rest(w),
           UNCHANGED <<orderStatus, tickets, stallChat, kitchen, handler>>,
           job' \in [Orders -> JobRow], unreviewed' \in SUBSET Orders, budget' \in Budget
    PROVE  TypeInv'
<1>1. IdleWorker.pc = "idle"
  BY DEF IdleWorker
<1>2. IdleWorker.pc \notin HoldsRow
  BY <1>1 DEF HoldsRow
<1>3. worker' = [worker EXCEPT ![w] = IdleWorker]
  BY DEF Rest
<1>4. IdleWorker \in WorkerMemory
  BY IdleTypes
<1> DEFINE new == IdleWorker
<1> HIDE DEF new
<1>5. /\ new \in WorkerMemory
      /\ new.pc # "idle" => new.order \in Orders
      /\ new.pc \in HoldsRow => new.ticket \in 1..Len(tickets[new.order])
      /\ worker' = [worker EXCEPT ![w] = new]
  BY <1>1, <1>2, <1>3, <1>4 DEF new
<1> QED
  BY <1>5, WorkerOnly

LEMMA SaveJobType ==
    ASSUME TypeInv, NEW w \in Workers, worker[w].pc # "idle",
           NEW s \in JobStatus, SaveJob(w, s)
    PROVE  job' \in [Orders -> JobRow]
<1>1. worker[w].order \in Orders /\ job \in [Orders -> JobRow]
  BY DEF TypeInv, TypeOK, WorkerRefs
<1> DEFINE o == worker[w].order
           b == (s # "retry")
<1>2. [job[o] EXCEPT !.status = s, !.lockedBy = NoOne, !.due = b, !.stale = FALSE] \in JobRow
  BY <1>1, JobTypes
<1>3. job' = [job EXCEPT ![o] = [job[o] EXCEPT !.status = s, !.lockedBy = NoOne,
                                               !.due = b, !.stale = FALSE]]
  BY <1>1 DEF SaveJob
<1> QED
  BY <1>1, <1>2, <1>3

\* A ticket saved on the way to the next control point.
LEMMA SaveTicketGoto ==
    ASSUME TypeInv, NEW w \in Workers, worker[w].pc \in HoldsRow,
           NEW row \in TicketRow, SaveTicket(w, row),
           NEW pc \in WorkerPC, pc \notin HoldsRow, pc # "idle", Goto(w, pc),
           UNCHANGED <<orderStatus, job, stallChat, kitchen, handler, unreviewed, budget>>
    PROVE  TypeInv'
<1> DEFINE new == [worker[w] EXCEPT !.pc = pc]
<1>1. /\ tickets' \in [Orders -> Seq(TicketRow)]
      /\ \A o \in Orders : Len(tickets'[o]) = Len(tickets[o])
  BY SaveTicketKeeps
<1>2. \A o \in Orders : Len(tickets'[o]) >= Len(tickets[o])
  BY <1>1 DEF TypeInv, TypeOK
<1>3. worker' = [worker EXCEPT ![w] = new] /\ worker[w] \in WorkerMemory
  BY DEF Goto, TypeInv, TypeOK
<1>4. new \in WorkerMemory /\ new.pc = pc /\ new.order = worker[w].order
  BY <1>3 DEF WorkerMemory
<1>5. worker[w].order \in Orders
  BY DEF TypeInv, WorkerRefs, HoldsRow
<1>6. worker' \in [Workers -> WorkerMemory] /\ WorkerRefs'
  <2> HIDE DEF new
  <2> QED
    BY <1>1, <1>2, <1>3, <1>4, <1>5, WorkerMoves
<1>7. HandlerRefs'
  <2>1. kitchen' \in Seq(Message) /\ Len(kitchen') >= Len(kitchen)
    BY DEF TypeInv, TypeOK
  <2> QED
    BY <1>1, <1>2, <2>1, HandlersStay
<1>8. TypeOK'
  BY <1>1, <1>6 DEF TypeInv, TypeOK
<1> QED
  BY <1>6, <1>7, <1>8 DEF TypeInv

LEMMA ClaimTypes ==
    ASSUME TypeInv, NEW w \in Workers, NEW o \in Orders, Claim(w, o)
    PROVE  TypeInv'
<1> DEFINE new == [IdleWorker EXCEPT !.pc = "claimed", !.order = o,
                                     !.attempts = job[o].attempts + 1]
           row == [job[o] EXCEPT !.status = "processing", !.attempts = job[o].attempts + 1,
                                 !.lockedBy = w, !.stale = FALSE]
<1>1. job \in [Orders -> JobRow] /\ job[o] \in JobRow
  BY DEF TypeInv, TypeOK
<1>2. row \in JobRow
  <2> DEFINE n == job[o].attempts + 1
             j == job[o]
  <2>1. n \in Nat /\ j \in JobRow
    BY <1>1 DEF JobRow
  <2> HIDE DEF n, j
  <2>2. [j EXCEPT !.status = "processing", !.attempts = n, !.lockedBy = w,
                  !.stale = FALSE] \in JobRow
    BY <2>1 DEF JobRow, JobStatus
  <2> QED
    BY <2>2 DEF n, j
<1>3. job' = [job EXCEPT ![o] = row] /\ worker' = [worker EXCEPT ![w] = new]
  BY <1>1 DEF Claim
<1>4. new \in WorkerMemory /\ new.pc = "claimed" /\ new.order = o
  <2> DEFINE n == job[o].attempts + 1
  <2>1. n \in Nat
    BY <1>1 DEF JobRow
  <2> HIDE DEF n
  <2>2. /\ [IdleWorker EXCEPT !.pc = "claimed", !.order = o, !.attempts = n] \in WorkerMemory
        /\ [IdleWorker EXCEPT !.pc = "claimed", !.order = o, !.attempts = n].pc = "claimed"
        /\ [IdleWorker EXCEPT !.pc = "claimed", !.order = o, !.attempts = n].order = o
    BY <2>1 DEF IdleWorker, WorkerMemory, WorkerPC
  <2> QED
    BY <2>2 DEF n
<1> HIDE DEF new, row
<1>5. job' \in [Orders -> JobRow]
  BY <1>1, <1>2, <1>3
<1>6. unreviewed' \in SUBSET Orders /\ budget' \in Budget
      /\ UNCHANGED <<orderStatus, tickets, stallChat, kitchen, handler>>
  BY DEF Claim, TypeInv, TypeOK
<1>7. new.pc \notin HoldsRow
  BY <1>4 DEF HoldsRow
<1> QED
  BY <1>3, <1>4, <1>5, <1>6, <1>7, WorkerOnly

LEMMA InspectTypes ==
    ASSUME TypeInv, NEW w \in Workers, Inspect(w)
    PROVE  TypeInv'
<1> DEFINE o == worker[w].order
           new == [worker[w] EXCEPT !.pc = NextStep(o), !.ticket = Len(tickets[o]),
                                    !.force = (tickets[o] # << >>)]
<1>1. o \in Orders /\ worker[w] \in WorkerMemory /\ tickets[o] \in Seq(TicketRow)
  BY DEF Inspect, TypeInv, TypeOK, WorkerRefs
<1>2. /\ NextStep(o) \in {"mark_terminal", "mark_sent", "fail_pending", "lookup"}
      /\ NextStep(o) = "fail_pending" => Len(tickets[o]) \in 1..Len(tickets[o])
  BY <1>1, LatestType DEF NextStep, TypeInv
<1>3. worker' = [worker EXCEPT ![w] = new]
  BY <1>1 DEF Inspect
<1>4. /\ new \in WorkerMemory
      /\ new.pc = NextStep(o) /\ new.order = o /\ new.ticket = Len(tickets[o])
  <2>1. Len(tickets[o]) \in Nat /\ NextStep(o) \in WorkerPC
    BY <1>1, <1>2 DEF WorkerPC
  <2>2. (tickets[o] # << >>) \in BOOLEAN
    OBVIOUS
  <2> DEFINE n == NextStep(o)
             k == Len(tickets[o])
             b == (tickets[o] # << >>)
  <2> HIDE DEF n, k, b, o
  <2>3. n \in WorkerPC /\ k \in Nat /\ b \in BOOLEAN /\ worker[w] \in WorkerMemory
    BY <1>1, <2>1, <2>2 DEF n, k, b, o
  <2>4. /\ [worker[w] EXCEPT !.pc = n, !.ticket = k, !.force = b] \in WorkerMemory
        /\ [worker[w] EXCEPT !.pc = n, !.ticket = k, !.force = b].pc = n
        /\ [worker[w] EXCEPT !.pc = n, !.ticket = k, !.force = b].ticket = k
        /\ [worker[w] EXCEPT !.pc = n, !.ticket = k, !.force = b].order = worker[w].order
    BY <2>3 DEF WorkerMemory
  <2> QED
    BY <2>4 DEF n, k, b, o
<1>5. new.pc \in HoldsRow => new.ticket \in 1..Len(tickets[new.order])
  BY <1>2, <1>4 DEF HoldsRow
<1>6. /\ unreviewed' \in SUBSET Orders /\ budget' \in Budget /\ job' \in [Orders -> JobRow]
      /\ UNCHANGED <<orderStatus, tickets, stallChat, kitchen, handler>>
  BY DEF Inspect, TypeInv, TypeOK
<1>7. new.order \in Orders
  BY <1>1, <1>4
<1> HIDE DEF new, o
<1> QED
  BY <1>3, <1>4, <1>5, <1>6, <1>7, WorkerOnly

LEMMA OpenTypes ==
    ASSUME TypeInv, NEW w \in Workers, OpenTicket(w)
    PROVE  TypeInv'
<1> DEFINE o == worker[w].order
           row == [status |-> "pending", chat |-> stallChat, msg |-> 0]
           new == [worker[w] EXCEPT !.pc = "calling", !.try = 1,
                                    !.ticket = Len(tickets[o]) + 1]
<1>1. o \in Orders /\ worker[w] \in WorkerMemory /\ tickets[o] \in Seq(TicketRow)
  BY DEF OpenTicket, TypeInv, TypeOK, WorkerRefs
<1>2. row \in TicketRow
  BY DEF OpenTicket, HasKitchenChat, TypeInv, TypeOK, TicketRow, TicketStatus
<1>3. tickets' = [tickets EXCEPT ![o] = Append(tickets[o], row)]
  BY DEF OpenTicket
<1>4. worker' = [worker EXCEPT ![w] = new]
  BY DEF OpenTicket
<1>5. new \in WorkerMemory /\ new.order = o /\ new.ticket = Len(tickets[o]) + 1
  <2> DEFINE k == Len(tickets[o]) + 1
  <2>1. k \in Nat
    BY <1>1
  <2> HIDE DEF k
  <2>2. /\ [worker[w] EXCEPT !.pc = "calling", !.try = 1, !.ticket = k] \in WorkerMemory
        /\ [worker[w] EXCEPT !.pc = "calling", !.try = 1, !.ticket = k].order = o
        /\ [worker[w] EXCEPT !.pc = "calling", !.try = 1, !.ticket = k].ticket = k
    BY <1>1, <2>1 DEF WorkerMemory, WorkerPC
  <2> QED
    BY <2>2 DEF k
<1> HIDE DEF new, row
<1>6. /\ Append(tickets[o], row) \in Seq(TicketRow)
      /\ Len(Append(tickets[o], row)) = Len(tickets[o]) + 1
      /\ Len(tickets[o]) \in Nat
  BY <1>1, <1>2, AppendProperties
<1>7. tickets' \in [Orders -> Seq(TicketRow)]
  BY <1>1, <1>3, <1>6 DEF TypeInv, TypeOK
<1>8. Len(tickets'[o]) = Len(tickets[o]) + 1
      /\ \A p \in Orders : Len(tickets'[p]) >= Len(tickets[p])
  <2>1. ASSUME NEW p \in Orders
        PROVE  Len(tickets'[p]) >= Len(tickets[p]) /\ (p = o => Len(tickets'[p]) = Len(tickets[p]) + 1)
    <3>1. CASE p = o
      BY <1>1, <1>3, <1>6, <3>1 DEF TypeInv, TypeOK
    <3>2. CASE p # o
      <4>1. tickets'[p] = tickets[p] /\ Len(tickets[p]) \in Nat
        BY <1>1, <1>3, <3>2 DEF TypeInv, TypeOK
      <4> QED
        BY <3>2, <4>1
    <3> QED
      BY <3>1, <3>2
  <2> QED
    BY <1>1, <2>1
<1>9. worker' \in [Workers -> WorkerMemory] /\ WorkerRefs'
  <2>1. new.ticket \in 1..Len(tickets'[new.order]) /\ new.order \in Orders
    BY <1>1, <1>5, <1>6, <1>8
  <2> QED
    BY <1>4, <1>5, <1>7, <1>8, <2>1, WorkerMoves
<1>10. HandlerRefs'
  <2>1. kitchen' \in Seq(Message) /\ Len(kitchen') >= Len(kitchen) /\ UNCHANGED handler
    BY DEF OpenTicket, TypeInv, TypeOK
  <2> QED
    BY <1>7, <1>8, <2>1, HandlersStay
<1>11. TypeOK'
  BY <1>7, <1>9 DEF OpenTicket, TypeInv, TypeOK
<1> QED
  BY <1>9, <1>10, <1>11 DEF TypeInv

\* Steps of the environment on the job rows alone.
LEMMA JobOnly ==
    ASSUME TypeInv, job' \in [Orders -> JobRow],
           orderStatus' \in [Orders -> {"pending_payment", "paid"}],
           stallChat' \in Chats \cup {NoOne}, budget' \in Budget,
           UNCHANGED <<tickets, kitchen, worker, handler, unreviewed>>
    PROVE  TypeInv'
BY DEF TypeInv, TypeOK, WorkerRefs, HandlerRefs

LEMMA BudgetTypes ==
    ASSUME NEW b \in Budget
    PROVE  /\ b.crashes > 0 => [b EXCEPT !.crashes = b.crashes - 1] \in Budget
           /\ b.faults > 0 => [b EXCEPT !.faults = b.faults - 1] \in Budget
           /\ b.requeues > 0 => [b EXCEPT !.requeues = b.requeues - 1] \in Budget
           /\ b.reconnects > 0 => [b EXCEPT !.reconnects = b.reconnects - 1] \in Budget
           /\ b.slow > 0 => [b EXCEPT !.slow = b.slow - 1] \in Budget
           /\ [b EXCEPT !.slow = b.slow] = b
<1>1. \A n \in Nat : n > 0 => n - 1 \in Nat
  OBVIOUS
<1>2. \A n \in Nat : /\ [b EXCEPT !.crashes = n] \in Budget
                     /\ [b EXCEPT !.faults = n] \in Budget
                     /\ [b EXCEPT !.requeues = n] \in Budget
                     /\ [b EXCEPT !.reconnects = n] \in Budget
                     /\ [b EXCEPT !.slow = n] \in Budget
  BY DEF Budget
<1>3. /\ b.crashes \in Nat /\ b.faults \in Nat /\ b.requeues \in Nat
      /\ b.reconnects \in Nat /\ b.slow \in Nat
  BY DEF Budget
<1>4. [b EXCEPT !.slow = b.slow] = b
  BY DEF Budget
<1> QED
  BY <1>1, <1>2, <1>3, <1>4

LEMMA OrderEventTypes ==
    ASSUME TypeInv, NEW o \in Orders, OrderEvent(o)
    PROVE  TypeInv'
<1>1. /\ job \in [Orders -> JobRow] /\ job[o] \in JobRow /\ budget \in Budget
      /\ orderStatus \in [Orders -> {"pending_payment", "paid"}]
      /\ stallChat \in Chats \cup {NoOne}
  BY DEF TypeInv, TypeOK
<1>2. CASE ConfirmPayment(o)
  <2>1. EnqueuedJob(o) \in JobRow
    BY <1>1 DEF EnqueuedJob, PendingJob, JobRow, JobStatus
  <2> QED
    BY <1>1, <1>2, <2>1, JobOnly DEF ConfirmPayment
<1>3. CASE LeaseExpires(o)
  <2>1. [job[o] EXCEPT !.stale = TRUE] \in JobRow
    BY <1>1 DEF JobRow
  <2>2. job' \in [Orders -> JobRow]
    BY <1>1, <1>3, <2>1 DEF LeaseExpires
  <2>3. budget' \in Budget
    <3>1. CASE \E w \in Workers : WorkingOn(w, o)
      BY <1>1, <1>3, <3>1, BudgetTypes DEF LeaseExpires
    <3>2. CASE ~ \E w \in Workers : WorkingOn(w, o)
      BY <1>1, <1>3, <3>2, BudgetTypes DEF LeaseExpires
    <3> QED
      BY <3>1, <3>2
  <2> QED
    BY <1>1, <1>3, <2>2, <2>3, JobOnly DEF LeaseExpires
<1>4. CASE BackoffEnds(o)
  <2>1. [job[o] EXCEPT !.due = TRUE] \in JobRow
    BY <1>1 DEF JobRow
  <2>2. job' \in [Orders -> JobRow]
    BY <1>1, <1>4, <2>1 DEF BackoffEnds
  <2> QED
    BY <1>1, <1>4, <2>2, JobOnly DEF BackoffEnds
<1> QED
  BY <1>2, <1>3, <1>4 DEF OrderEvent

\* A sendMessage attempt: one more message shown, or none.
LEMMA SendTypes ==
    ASSUME TypeInv, NEW w \in Workers,
           SendAcknowledged(w) \/ SendAnswerLost(w) \/ SendRejected(w)
    PROVE  TypeInv'
<1>1. /\ worker[w].pc = "calling" /\ worker[w] \in WorkerMemory
      /\ worker[w].order \in Orders
      /\ worker[w].ticket \in 1..Len(tickets[worker[w].order])
      /\ UNCHANGED <<orderStatus, job, tickets, stallChat, handler, unreviewed, budget>>
  BY DEF SendAcknowledged, SendAnswerLost, SendRejected, TypeInv, TypeOK, WorkerRefs, HoldsRow
<1>2. kitchen' \in Seq(Message) /\ Len(kitchen') >= Len(kitchen)
  <2>1. kitchen \in Seq(Message) /\ Len(kitchen) \in Nat
    BY DEF TypeInv, TypeOK
  <2>2. CASE Deliver(w)
    BY <1>1, <2>1, <2>2, DeliverKeeps
  <2>3. CASE UNCHANGED kitchen
    BY <2>1, <2>3
  <2> QED
    BY <2>2, <2>3 DEF SendAcknowledged, SendAnswerLost, SendRejected
<1>3. /\ tickets' \in [Orders -> Seq(TicketRow)]
      /\ \A o \in Orders : Len(tickets'[o]) \in Nat /\ Len(tickets'[o]) >= Len(tickets[o])
  <2>1. \A o \in Orders : tickets[o] \in Seq(TicketRow)
    BY DEF TypeInv, TypeOK
  <2>2. \A o \in Orders : Len(tickets[o]) \in Nat
    BY <2>1
  <2> QED
    BY <1>1, <2>2 DEF TypeInv, TypeOK
<1>4. \E new \in WorkerMemory :
         /\ worker' = [worker EXCEPT ![w] = new]
         /\ new.order = worker[w].order /\ new.ticket = worker[w].ticket
  <2> DEFINE me == worker[w]
             id == NextId(InHand(w).chat)
  <2>1. id \in Nat /\ me \in WorkerMemory /\ me.try + 1 \in Nat
    BY <1>1, NextIdType DEF TypeInv, WorkerMemory
  <2>2. CASE SendAcknowledged(w)
    <3> DEFINE new == [me EXCEPT !.pc = "reload", !.msg = id]
    <3>1. worker' = [worker EXCEPT ![w] = new]
      BY <2>2 DEF SendAcknowledged
    <3> HIDE DEF me, id
    <3>2. new \in WorkerMemory /\ new.order = me.order /\ new.ticket = me.ticket
      BY <2>1 DEF WorkerMemory, WorkerPC
    <3> QED
      BY <3>1, <3>2 DEF me
  <2>3. CASE NextTry(w)
    <3> DEFINE n == me.try + 1
               again == [me EXCEPT !.try = n]
               last == [me EXCEPT !.pc = "save_failed"]
               new == IF me.try < ApiAttempts THEN again ELSE last
    <3>1. worker' = [worker EXCEPT ![w] = new]
      BY <2>3, <1>1 DEF NextTry, TypeInv, TypeOK
    <3> HIDE DEF n, me
    <3>2. /\ again \in WorkerMemory /\ again.order = me.order /\ again.ticket = me.ticket
          /\ last \in WorkerMemory /\ last.order = me.order /\ last.ticket = me.ticket
      BY <2>1 DEF WorkerMemory, WorkerPC, n
    <3> HIDE DEF again, last
    <3>3. new \in WorkerMemory /\ new.order = me.order /\ new.ticket = me.ticket
      BY <3>2
    <3> QED
      BY <3>1, <3>3 DEF me
  <2> QED
    BY <2>2, <2>3 DEF SendAnswerLost, SendRejected, SendAcknowledged
<1>5. worker' \in [Workers -> WorkerMemory] /\ WorkerRefs'
  <2>1. PICK new \in WorkerMemory :
             /\ worker' = [worker EXCEPT ![w] = new]
             /\ new.order = worker[w].order /\ new.ticket = worker[w].ticket
    BY <1>4
  <2>2. new.ticket \in 1..Len(tickets'[new.order]) /\ new.order \in Orders
    BY <1>1, <2>1
  <2> QED
    BY <1>3, <2>1, <2>2, WorkerMoves
<1>6. HandlerRefs'
  BY <1>1, <1>2, <1>3, HandlersStay
<1>7. TypeOK'
  BY <1>1, <1>2, <1>3, <1>5 DEF TypeInv, TypeOK
<1> QED
  BY <1>5, <1>6, <1>7 DEF TypeInv

LEMMA ReloadTypes ==
    ASSUME TypeInv, NEW w \in Workers, ReloadChat(w)
    PROVE  TypeInv'
<1> DEFINE me == worker[w]
           c == IF HasKitchenChat THEN stallChat ELSE InHand(w).chat
           new == [me EXCEPT !.pc = "save_sent", !.chat = c]
<1>1. /\ me.pc = "reload" /\ me \in WorkerMemory /\ me.order \in Orders
      /\ me.ticket \in 1..Len(tickets[me.order])
  BY DEF ReloadChat, TypeInv, TypeOK, WorkerRefs, HoldsRow
<1>2. c \in Chats \cup {NoOne}
  <2>1. InHand(w) \in TicketRow
    BY <1>1, InHandType DEF HoldsRow
  <2> QED
    BY <2>1 DEF TypeInv, TypeOK, TicketRow
<1>3. worker' = [worker EXCEPT ![w] = new]
  BY DEF ReloadChat
<1> HIDE DEF me, c
<1>4. new \in WorkerMemory /\ new.order = me.order /\ new.ticket = me.ticket
  BY <1>1, <1>2 DEF WorkerMemory, WorkerPC
<1>5. /\ job' \in [Orders -> JobRow] /\ unreviewed' \in SUBSET Orders /\ budget' \in Budget
      /\ UNCHANGED <<orderStatus, tickets, stallChat, kitchen, handler>>
  BY DEF ReloadChat, TypeInv, TypeOK
<1>6. new.ticket \in 1..Len(tickets[new.order]) /\ new.order \in Orders
  BY <1>1, <1>4
<1> HIDE DEF new
<1> QED
  BY <1>3, <1>4, <1>5, <1>6, WorkerOnly

LEMMA WorkerStepTypes ==
    ASSUME TypeInv, NEW w \in Workers, WorkerStep(w)
    PROVE  TypeInv'
<1>0. /\ budget \in Budget /\ job \in [Orders -> JobRow] /\ unreviewed \in SUBSET Orders
  BY DEF TypeInv, TypeOK
<1>1. CASE Inspect(w)
  BY <1>1, InspectTypes
<1>2. CASE FailPendingTicket(w)
  <2>1. [InHand(w) EXCEPT !.status = "failed"] \in TicketRow
    <3>1. InHand(w) \in TicketRow
      BY <1>2, InHandType DEF FailPendingTicket, HoldsRow
    <3> QED
      BY <3>1 DEF TicketRow, TicketStatus
  <2>2. /\ "mark_terminal" \in WorkerPC /\ "mark_terminal" \notin HoldsRow
        /\ worker[w].pc \in HoldsRow
    BY <1>2 DEF WorkerPC, HoldsRow, FailPendingTicket
  <2> QED
    BY <1>2, <2>1, <2>2, SaveTicketGoto DEF FailPendingTicket
<1>3. CASE LookupTicket(w)
  <2>1. LookupOutcome(w) \in WorkerPC /\ LookupOutcome(w) \notin HoldsRow
    BY DEF LookupOutcome, WorkerPC, HoldsRow
  <2> QED
    BY <1>0, <1>3, <2>1, GotoKeeps DEF LookupTicket
<1>4. CASE OpenTicket(w)
  BY <1>4, OpenTypes
<1>5. CASE SkipDispatch(w)
  <2>1. "mark_failed" \in WorkerPC /\ "mark_failed" \notin HoldsRow
    BY DEF WorkerPC, HoldsRow
  <2> QED
    BY <1>0, <1>5, <2>1, GotoKeeps DEF SkipDispatch
<1>6. CASE SendAcknowledged(w) \/ SendAnswerLost(w) \/ SendRejected(w)
  BY <1>6, SendTypes
<1>7. CASE ReloadChat(w)
  BY <1>7, ReloadTypes
<1>8. CASE SaveSent(w)
  <2>1. /\ "mark_sent" \in WorkerPC /\ "mark_sent" \notin HoldsRow
        /\ worker[w].pc \in HoldsRow /\ "sent" \in TicketStatus
    BY <1>8 DEF WorkerPC, HoldsRow, TicketStatus, SaveSent
  <2>2. RowWith(w, "sent") \in TicketRow
    BY <2>1, RowWithType
  <2> QED
    BY <1>8, <2>1, <2>2, SaveTicketGoto DEF SaveSent
<1>9. CASE SaveFailed(w)
  <2>1. /\ "mark_failed" \in WorkerPC /\ "mark_failed" \notin HoldsRow
        /\ worker[w].pc \in HoldsRow /\ "failed" \in TicketStatus
    BY <1>9 DEF WorkerPC, HoldsRow, TicketStatus, SaveFailed
  <2>2. RowWith(w, "failed") \in TicketRow
    BY <2>1, RowWithType
  <2> QED
    BY <1>9, <2>1, <2>2, SaveTicketGoto DEF SaveFailed
<1>10. CASE MarkSent(w)
  <2>1. job' \in [Orders -> JobRow]
    BY <1>10, SaveJobType DEF MarkSent, JobStatus
  <2> QED
    BY <1>0, <1>10, <2>1, RestKeeps DEF MarkSent
<1>11. CASE MarkFailed(w)
  <2>1. job' \in [Orders -> JobRow]
    <3>1. (IF ShouldStop(w) THEN "failed" ELSE "retry") \in JobStatus
      BY DEF JobStatus
    <3>2. worker[w].pc # "idle"
      BY <1>11 DEF MarkFailed
    <3> QED
      BY <1>11, <3>1, <3>2, SaveJobType DEF MarkFailed
  <2> QED
    BY <1>0, <1>11, <2>1, RestKeeps DEF MarkFailed
<1>12. CASE SaveRefused(w)
  <2>1. /\ FaultTarget(worker[w].pc) \in WorkerPC /\ worker[w].pc \in HoldsRow
        /\ worker[w].pc # "idle"
    BY <1>12 DEF SaveRefused, FaultTarget, WorkerPC, HoldsRow
  <2> QED
    BY <1>0, <1>12, <2>1, GotoKeeps DEF SaveRefused
<1> QED
  BY <1>1, <1>2, <1>3, <1>4, <1>5, <1>6, <1>7, <1>8, <1>9, <1>10, <1>11, <1>12
  DEF WorkerStep

LEMMA StopTypes ==
    ASSUME TypeInv, NEW w \in Workers, DatabaseFault(w) \/ Crash(w)
    PROVE  TypeInv'
<1>0. /\ budget \in Budget /\ job \in [Orders -> JobRow] /\ unreviewed \in SUBSET Orders
      /\ worker[w].pc # "idle" => worker[w].order \in Orders
  BY DEF TypeInv, TypeOK, WorkerRefs
<1>1. CASE Crash(w)
  <2>1. budget' \in Budget
    BY <1>0, <1>1, BudgetTypes DEF Crash
  <2>2. unreviewed' \in SUBSET Orders
    BY <1>0, <1>1 DEF Crash
  <2> QED
    BY <1>0, <1>1, <2>1, <2>2, RestKeeps DEF Crash
<1>2. CASE DatabaseFault(w)
  <2> DEFINE target == FaultTarget(worker[w].pc)
  <2>1. budget' \in Budget
    BY <1>0, <1>2, BudgetTypes DEF DatabaseFault
  <2>2. CASE target = "idle"
    BY <1>0, <1>2, <2>1, <2>2, RestKeeps DEF DatabaseFault
  <2>3. CASE target # "idle"
    <3>1. target \in WorkerPC /\ (target \in HoldsRow => worker[w].pc \in HoldsRow)
      BY DEF FaultTarget, WorkerPC, HoldsRow
    <3>2. Goto(w, target) /\ worker[w].pc # "idle"
      BY <1>2, <2>3 DEF DatabaseFault
    <3> HIDE DEF target
    <3> QED
      BY <1>2, <2>1, <3>1, <3>2, GotoKeeps DEF DatabaseFault
  <2> QED
    BY <2>2, <2>3
<1> QED
  BY <1>1, <1>2

\* A request moves on: the workers and what they hold are not concerned.
LEMMA HandlerMoves ==
    ASSUME TypeInv, NEW h \in Handlers, NEW new \in HandlerMemory,
           handler' = [handler EXCEPT ![h] = new],
           new.pc # "idle" => new.order \in Orders,
           new.pc = "complete" => new.ticket \in 1..Len(tickets[new.order]),
           new.pc \in {"complete", "edit"} => new.message \in 1..Len(kitchen),
           tickets' \in [Orders -> Seq(TicketRow)],
           \A o \in Orders : Len(tickets'[o]) = Len(tickets[o]),
           kitchen' \in Seq(Message), Len(kitchen') = Len(kitchen),
           job' \in [Orders -> JobRow], unreviewed' \in SUBSET Orders, budget' \in Budget,
           UNCHANGED <<orderStatus, stallChat, worker>>
    PROVE  TypeInv'
<1>1. TypeOK'
  BY DEF TypeInv, TypeOK
<1>2. WorkerRefs'
  <2>1. ASSUME NEW w \in Workers
        PROVE  /\ worker[w].pc # "idle" => worker[w].order \in Orders
               /\ worker[w].pc \in HoldsRow =>
                      worker[w].ticket \in 1..Len(tickets'[worker[w].order])
    <3>1. worker[w].pc \in HoldsRow => worker[w].order \in Orders
      BY DEF TypeInv, WorkerRefs, HoldsRow
    <3> QED
      BY <3>1 DEF TypeInv, WorkerRefs
  <2> QED
    BY <2>1 DEF WorkerRefs
<1>3. HandlerRefs'
  <2>1. ASSUME NEW g \in Handlers
        PROVE  /\ handler'[g].pc # "idle" => handler'[g].order \in Orders
               /\ handler'[g].pc = "complete" =>
                      handler'[g].ticket \in 1..Len(tickets'[handler'[g].order])
               /\ handler'[g].pc \in {"complete", "edit"} =>
                      handler'[g].message \in 1..Len(kitchen')
    <3>1. handler'[g] = (IF g = h THEN new ELSE handler[g])
      BY DEF TypeInv, TypeOK
    <3>2. CASE g = h
      BY <3>1, <3>2
    <3>3. CASE g # h
      <4>1. handler'[g] = handler[g]
        BY <3>1, <3>3
      <4>2. handler[g].pc = "complete" => handler[g].order \in Orders
        BY DEF TypeInv, HandlerRefs
      <4> QED
        BY <4>1, <4>2 DEF TypeInv, HandlerRefs
    <3> QED
      BY <3>2, <3>3
  <2> QED
    BY <2>1 DEF HandlerRefs
<1> QED
  BY <1>1, <1>2, <1>3 DEF TypeInv

\* A request that ends, whatever it did to the rows on the way.
LEMMA RequestEnds ==
    ASSUME TypeInv, NEW h \in Handlers, EndRequest(h),
           tickets' \in [Orders -> Seq(TicketRow)],
           \A o \in Orders : Len(tickets'[o]) = Len(tickets[o]),
           kitchen' \in Seq(Message), Len(kitchen') = Len(kitchen),
           job' \in [Orders -> JobRow], unreviewed' \in SUBSET Orders, budget' \in Budget,
           UNCHANGED <<orderStatus, stallChat, worker>>
    PROVE  TypeInv'
<1> DEFINE new == IdleHandler
<1>1. new.pc = "idle" /\ new \in HandlerMemory
  BY IdleTypes DEF IdleHandler
<1>2. handler' = [handler EXCEPT ![h] = new]
  BY DEF EndRequest
<1> HIDE DEF new
<1> QED
  BY <1>1, <1>2, HandlerMoves

LEMMA RequestTypes ==
    ASSUME TypeInv, NEW h \in Handlers,
           \/ \E o \in Orders : RetryCheck(h, o)
           \/ \E m \in DOMAIN kitchen : TapDone(h, m)
           \/ RequeueJob(h) \/ CompleteTicket(h) \/ EditDone(h)
    PROVE  TypeInv'
<1>0. /\ budget \in Budget /\ job \in [Orders -> JobRow] /\ unreviewed \in SUBSET Orders
      /\ tickets \in [Orders -> Seq(TicketRow)] /\ kitchen \in Seq(Message)
      /\ handler \in [Handlers -> HandlerMemory] /\ handler[h] \in HandlerMemory
      /\ handler[h].pc # "idle" => handler[h].order \in Orders
      /\ handler[h].pc = "complete" =>
             handler[h].ticket \in 1..Len(tickets[handler[h].order])
      /\ handler[h].pc \in {"complete", "edit"} => handler[h].message \in 1..Len(kitchen)
  BY DEF TypeInv, TypeOK, HandlerRefs
<1> DEFINE me == handler[h]
<1>1. ASSUME NEW o \in Orders, RetryCheck(h, o)
      PROVE  TypeInv'
  <2> DEFINE new == [me EXCEPT !.pc = "requeue", !.order = o]
  <2>1. handler' = [handler EXCEPT ![h] = new]
    BY <1>1 DEF RetryCheck
  <2>2. new \in HandlerMemory /\ new.pc = "requeue" /\ new.order = o
    BY <1>0 DEF HandlerMemory
  <2>3. budget' \in Budget
    BY <1>0, <1>1, BudgetTypes DEF RetryCheck
  <2> HIDE DEF new
  <2> QED
    BY <1>0, <1>1, <2>1, <2>2, <2>3, HandlerMoves DEF RetryCheck
<1>2. ASSUME NEW m \in DOMAIN kitchen, TapDone(h, m)
      PROVE  TypeInv'
  <2> DEFINE o == kitchen[m].order
  <2>1. m \in 1..Len(kitchen) /\ m \in Nat /\ o \in Orders
    <3>1. DOMAIN kitchen = 1..Len(kitchen) /\ Len(kitchen) \in Nat
      BY <1>0
    <3>2. kitchen[m] \in Message
      BY <1>0, <3>1
    <3> QED
      BY <3>1, <3>2 DEF Message
  <2> HIDE DEF o
  <2>2. PICK t \in DOMAIN tickets[o] :
            handler' = [handler EXCEPT ![h] =
                [pc |-> "complete", order |-> o, ticket |-> t, message |-> m]]
    BY <1>2 DEF TapDone, o
  <2> DEFINE new == [pc |-> "complete", order |-> o, ticket |-> t, message |-> m]
  <2>3. tickets[o] \in Seq(TicketRow) /\ DOMAIN tickets[o] = 1..Len(tickets[o])
    BY <1>0, <2>1
  <2>4. /\ new \in HandlerMemory /\ new.pc = "complete" /\ new.order = o
        /\ new.ticket = t /\ new.message = m
    BY <2>1, <2>3 DEF HandlerMemory
  <2>5. t \in 1..Len(tickets[o])
    BY <2>3
  <2>6. handler' = [handler EXCEPT ![h] = new]
    BY <2>2
  <2>7. UNCHANGED <<orderStatus, job, tickets, stallChat, kitchen, worker, unreviewed, budget>>
    BY <1>2 DEF TapDone
  <2> HIDE DEF new
  <2> QED
    BY <1>0, <2>1, <2>4, <2>5, <2>6, <2>7, HandlerMoves
<1>3. CASE RequeueJob(h)
  <2>1. job' \in [Orders -> JobRow]
    <3>1. PendingJob \in JobRow /\ handler[h].order \in Orders
      BY <1>0, <1>3 DEF RequeueJob, PendingJob, JobRow, JobStatus
    <3> QED
      BY <1>0, <1>3, <3>1 DEF RequeueJob
  <2>2. unreviewed' \in SUBSET Orders
    BY <1>0, <1>3 DEF RequeueJob
  <2> QED
    BY <1>0, <1>3, <2>1, <2>2, RequestEnds DEF RequeueJob
<1>4. CASE CompleteTicket(h)
  <2>1. CASE Completes(h)
    <3> DEFINE o == me.order
               t == me.ticket
               row == [tickets[o][t] EXCEPT !.status = "done"]
               new == [me EXCEPT !.pc = "edit"]
    <3>1. /\ o \in Orders /\ t \in 1..Len(tickets[o]) /\ tickets[o] \in Seq(TicketRow)
          /\ me.pc = "complete"
      BY <1>0, <1>4 DEF CompleteTicket
    <3>2. tickets[o][t] \in TicketRow
      BY <3>1
    <3>3. row \in TicketRow
      BY <3>2 DEF TicketRow, TicketStatus
    <3>4. /\ tickets' = [tickets EXCEPT ![o] = [tickets[o] EXCEPT ![t] = row]]
          /\ handler' = [handler EXCEPT ![h] = new]
      BY <1>4, <2>1 DEF CompleteTicket
    <3>5. new \in HandlerMemory /\ new.pc = "edit" /\ new.order = o
          /\ new.message = me.message
      BY <1>0 DEF HandlerMemory
    <3>6. me.message \in 1..Len(kitchen)
      BY <1>0, <3>1
    <3> HIDE DEF me, o, t, row, new
    <3>7. /\ [tickets[o] EXCEPT ![t] = row] \in Seq(TicketRow)
          /\ Len([tickets[o] EXCEPT ![t] = row]) = Len(tickets[o])
      BY <3>1, <3>3, ExceptSeq
    <3>8. /\ tickets' \in [Orders -> Seq(TicketRow)]
          /\ \A p \in Orders : Len(tickets'[p]) = Len(tickets[p])
      BY <1>0, <3>1, <3>4, <3>7
    <3>9. UNCHANGED <<orderStatus, job, stallChat, kitchen, worker, unreviewed, budget>>
      BY <1>4 DEF CompleteTicket
    <3> QED
      BY <1>0, <3>1, <3>4, <3>5, <3>6, <3>8, <3>9, HandlerMoves
  <2>2. CASE ~Completes(h)
    BY <1>0, <1>4, <2>2, RequestEnds DEF CompleteTicket
  <2> QED
    BY <2>1, <2>2
<1>5. CASE EditDone(h)
  <2>1. kitchen' \in Seq(Message) /\ Len(kitchen') = Len(kitchen)
    <3>1. CASE UNCHANGED kitchen
      BY <1>0, <3>1
    <3>2. CASE kitchen' = [kitchen EXCEPT ![handler[h].message].button = FALSE]
      <4> DEFINE m == handler[h].message
                 row == [kitchen[m] EXCEPT !.button = FALSE]
      <4>1. m \in 1..Len(kitchen)
        BY <1>0, <1>5 DEF EditDone
      <4>2. kitchen[m] \in Message
        BY <1>0, <4>1
      <4>3. row \in Message
        BY <4>2 DEF Message
      <4>4. kitchen' = [kitchen EXCEPT ![m] = row]
        BY <3>2
      <4> HIDE DEF m, row
      <4> QED
        BY <1>0, <4>1, <4>3, <4>4, ExceptSeq
    <3> QED
      BY <1>5, <3>1, <3>2 DEF EditDone
  <2> QED
    BY <1>0, <1>5, <2>1, RequestEnds DEF EditDone
<1> QED
  BY <1>1, <1>2, <1>3, <1>4, <1>5

LEMMA TypeStep == TypeInv /\ [Next]_vars => TypeInv'
<1> SUFFICES ASSUME TypeInv, [Next]_vars PROVE TypeInv'
  OBVIOUS
<1>1. ASSUME NEW o \in Orders, OrderEvent(o) PROVE TypeInv'
  BY <1>1, OrderEventTypes
<1>2. ASSUME NEW w \in Workers, NEW o \in Orders, Claim(w, o) PROVE TypeInv'
  BY <1>2, ClaimTypes
<1>3. ASSUME NEW w \in Workers, WorkerStep(w) PROVE TypeInv'
  BY <1>3, WorkerStepTypes
<1>4. ASSUME NEW w \in Workers, DatabaseFault(w) \/ Crash(w) PROVE TypeInv'
  BY <1>4, StopTypes
<1>5. ASSUME NEW h \in Handlers,
             \/ \E o \in Orders : RetryCheck(h, o)
             \/ \E m \in DOMAIN kitchen : TapDone(h, m)
             \/ RequeueJob(h) \/ CompleteTicket(h) \/ EditDone(h)
      PROVE  TypeInv'
  BY <1>5, RequestTypes
<1>6. ASSUME NEW c \in Chats, ReconnectChat(c) PROVE TypeInv'
  <2>1. budget' \in Budget
    BY <1>6, BudgetTypes DEF ReconnectChat, TypeInv, TypeOK
  <2> QED
    BY <1>6, <2>1, JobOnly DEF ReconnectChat, TypeInv, TypeOK
<1>7. CASE UNCHANGED vars
  BY <1>7 DEF vars, TypeInv, TypeOK, WorkerRefs, HandlerRefs
<1> QED
  BY <1>1, <1>2, <1>3, <1>4, <1>5, <1>6, <1>7 DEF Next

\* Type correctness: no reachable state has a row, a message or a process
\* memory of a wrong shape, whatever the constants are.
THEOREM TypeCorrect == Spec => []TypeOK
<1>1. TypeInv => TypeOK
  BY DEF TypeInv
<1> QED
  BY <1>1, TypeInit, TypeStep, PTL DEF Spec
-----------------------------------------------------------------------------
(* Exclusive claims. *)

\* What ClaimExclusive says of one worker and one job.
Holds(w, o) ==
    WorkingOn(w, o) => /\ job[o].status = "processing"
                       /\ job[o].lockedBy = w
                       /\ ~job[o].stale

AllHold == \A w \in Workers, o \in Orders : Holds(w, o)

\* The budget of outlasted locks only falls, so "none has" is stable backwards.
ExclusiveInv == TypeInv /\ budget.slow <= MaxSlow /\ ClaimExclusive

\* Steps that take no job row away from a worker.
LEMMA JobsKept ==
    ASSUME AllHold, \A v \in Workers, p \in Orders : WorkingOn(v, p)' =>
               /\ WorkingOn(v, p)
               /\ job'[p] = job[p]
    PROVE  AllHold'
BY DEF AllHold, Holds

LEMMA WorkingSame ==
    ASSUME UNCHANGED worker, NEW v \in Workers, NEW p \in Orders
    PROVE  WorkingOn(v, p)' <=> WorkingOn(v, p)
BY DEF WorkingOn

LEMMA ClaimHolds ==
    ASSUME TypeInv, AllHold, NEW w \in Workers, NEW o \in Orders, Claim(w, o)
    PROVE  AllHold'
<1>1. \A v \in Workers : ~WorkingOn(v, o)
  BY DEF AllHold, Holds, Claim, Claimable
<1>2. /\ job' = [job EXCEPT ![o] =
            [job[o] EXCEPT !.status = "processing", !.attempts = job[o].attempts + 1,
                           !.lockedBy = w, !.stale = FALSE]]
      /\ job \in [Orders -> JobRow] /\ worker \in [Workers -> WorkerMemory]
  BY DEF Claim, TypeInv, TypeOK
<1>3. /\ job'[o].status = "processing" /\ job'[o].lockedBy = w /\ job'[o].stale = FALSE
      /\ \A p \in Orders : p # o => job'[p] = job[p]
  <2>1. /\ [job[o] EXCEPT !.status = "processing", !.attempts = job[o].attempts + 1,
                          !.lockedBy = w, !.stale = FALSE].status = "processing"
        /\ [job[o] EXCEPT !.status = "processing", !.attempts = job[o].attempts + 1,
                          !.lockedBy = w, !.stale = FALSE].lockedBy = w
        /\ [job[o] EXCEPT !.status = "processing", !.attempts = job[o].attempts + 1,
                          !.lockedBy = w, !.stale = FALSE].stale = FALSE
    BY <1>2 DEF JobRow
  <2> QED
    BY <1>2, <2>1
<1>4. worker'[w].order = o /\ \A v \in Workers : v # w => worker'[v] = worker[v]
  BY <1>2 DEF Claim, IdleWorker
<1>5. ASSUME NEW v \in Workers, NEW p \in Orders
      PROVE  Holds(v, p)'
  <2>1. CASE p = o
    <3>1. CASE v = w
      BY <1>3, <2>1, <3>1 DEF Holds
    <3>2. CASE v # w
      BY <1>1, <1>4, <2>1, <3>2 DEF Holds, WorkingOn
    <3> QED
      BY <3>1, <3>2
  <2>2. CASE p # o
    <3>1. CASE v = w
      BY <1>4, <2>2, <3>1 DEF Holds, WorkingOn
    <3>2. CASE v # w
      <4>1. job'[p] = job[p] /\ worker'[v] = worker[v]
        BY <1>3, <1>4, <2>2, <3>2
      <4> QED
        BY <4>1 DEF AllHold, Holds, WorkingOn
    <3> QED
      BY <3>1, <3>2
  <2> QED
    BY <2>1, <2>2
<1> QED
  BY <1>5 DEF AllHold

\* The worker that saves a job is its holder, and leaves it.
LEMMA MarkHolds ==
    ASSUME TypeInv, AllHold, NEW w \in Workers, worker[w].pc # "idle", Rest(w),
           NEW s, SaveJob(w, s)
    PROVE  AllHold'
<1>1. worker[w].order \in Orders /\ worker \in [Workers -> WorkerMemory]
      /\ job \in [Orders -> JobRow]
  BY DEF TypeInv, TypeOK, WorkerRefs
<1>2. job[worker[w].order].lockedBy = w
  BY <1>1 DEF AllHold, Holds, WorkingOn
<1>3. ASSUME NEW v \in Workers, NEW p \in Orders, WorkingOn(v, p)'
      PROVE  WorkingOn(v, p) /\ job'[p] = job[p]
  <2>1. v # w /\ worker'[v] = worker[v]
    BY <1>1, <1>3 DEF Rest, IdleWorker, WorkingOn
  <2>2. WorkingOn(v, p)
    BY <1>3, <2>1 DEF WorkingOn
  <2>3. job[p].lockedBy = v
    BY <2>2 DEF AllHold, Holds
  <2>4. p # worker[w].order
    BY <1>2, <2>1, <2>3
  <2> QED
    BY <1>1, <2>2, <2>4 DEF SaveJob
<1> QED
  BY <1>3, JobsKept

\* A worker keeps its order or goes to rest.
StaysWithOrder(w) ==
    \E new : /\ worker' = [worker EXCEPT ![w] = new]
             /\ new.pc # "idle" => new.order = worker[w].order

LEMMA WorkerStaysWithOrder ==
    ASSUME TypeInv, NEW w \in Workers, WorkerStep(w) \/ DatabaseFault(w) \/ Crash(w)
    PROVE  StaysWithOrder(w)
<1> SUFFICES \E new : /\ worker' = [worker EXCEPT ![w] = new]
                      /\ new.pc # "idle" => new.order = worker[w].order
  BY DEF StaysWithOrder
<1>1. worker[w] \in WorkerMemory /\ worker \in [Workers -> WorkerMemory]
  BY DEF TypeInv, TypeOK
<1>2. CASE Inspect(w)
  <2> WITNESS [worker[w] EXCEPT !.pc = NextStep(worker[w].order),
                   !.ticket = Len(tickets[worker[w].order]),
                   !.force = (tickets[worker[w].order] # << >>)]
  <2> QED
    BY <1>1, <1>2 DEF Inspect, WorkerMemory
<1>3. CASE \E pc : Goto(w, pc)
  <2>1. PICK pc : Goto(w, pc)
    BY <1>3
  <2> WITNESS [worker[w] EXCEPT !.pc = pc]
  <2> QED
    BY <1>1, <2>1 DEF Goto, WorkerMemory
<1>4. CASE Rest(w)
  <2> WITNESS IdleWorker
  <2> QED
    BY <1>4 DEF Rest, IdleWorker
<1>5. CASE OpenTicket(w)
  <2> WITNESS [worker[w] EXCEPT !.pc = "calling", !.try = 1,
                   !.ticket = Len(tickets[worker[w].order]) + 1]
  <2> QED
    BY <1>1, <1>5 DEF OpenTicket, WorkerMemory
<1>6. CASE SendAcknowledged(w)
  <2> WITNESS [worker[w] EXCEPT !.pc = "reload", !.msg = NextId(InHand(w).chat)]
  <2> QED
    BY <1>1, <1>6 DEF SendAcknowledged, WorkerMemory
<1>7. CASE NextTry(w)
  <2> WITNESS IF worker[w].try < ApiAttempts
              THEN [worker[w] EXCEPT !.try = worker[w].try + 1]
              ELSE [worker[w] EXCEPT !.pc = "save_failed"]
  <2> QED
    BY <1>1, <1>7 DEF NextTry, WorkerMemory
<1>8. CASE ReloadChat(w)
  <2> WITNESS [worker[w] EXCEPT !.pc = "save_sent",
                  !.chat = IF HasKitchenChat THEN stallChat ELSE InHand(w).chat]
  <2> QED
    BY <1>1, <1>8 DEF ReloadChat, WorkerMemory
<1> QED
  BY <1>2, <1>3, <1>4, <1>5, <1>6, <1>7, <1>8
  DEF WorkerStep, FailPendingTicket, LookupTicket, SkipDispatch, SendAnswerLost,
      SendRejected, SaveSent, SaveFailed, SaveRefused, MarkSent, MarkFailed,
      DatabaseFault, Crash

LEMMA WorkerStepHolds ==
    ASSUME TypeInv, AllHold, NEW w \in Workers,
           WorkerStep(w) \/ DatabaseFault(w) \/ Crash(w)
    PROVE  AllHold'
<1>1. CASE MarkSent(w)
  BY <1>1, MarkHolds DEF MarkSent
<1>2. CASE MarkFailed(w)
  BY <1>2, MarkHolds DEF MarkFailed
<1>3. CASE ~MarkSent(w) /\ ~MarkFailed(w)
  <2>1. worker[w].pc # "idle" /\ UNCHANGED job
    BY <1>3 DEF WorkerStep, Inspect, FailPendingTicket, LookupTicket, OpenTicket,
       SkipDispatch, SendAcknowledged, SendAnswerLost, SendRejected, ReloadChat,
       SaveSent, SaveFailed, SaveRefused, DatabaseFault, Crash
  <2>2. StaysWithOrder(w)
    BY WorkerStaysWithOrder
  <2>3. ASSUME NEW v \in Workers, NEW p \in Orders, WorkingOn(v, p)'
        PROVE  WorkingOn(v, p) /\ job'[p] = job[p]
    <3>1. PICK new : /\ worker' = [worker EXCEPT ![w] = new]
                     /\ new.pc # "idle" => new.order = worker[w].order
      BY <2>2 DEF StaysWithOrder
    <3>2. worker'[v] = (IF v = w THEN new ELSE worker[v])
      BY <3>1 DEF TypeInv, TypeOK
    <3> QED
      BY <2>1, <2>3, <3>1, <3>2 DEF WorkingOn
  <2> QED
    BY <2>3, JobsKept
<1> QED
  BY <1>1, <1>2, <1>3

LEMMA OrderEventHolds ==
    ASSUME TypeInv, AllHold, NEW o \in Orders, OrderEvent(o), budget'.slow = budget.slow
    PROVE  AllHold'
<1>1. (\A v \in Workers : ~WorkingOn(v, o)) \/ job'[o] = job[o]
  <2>1. CASE ConfirmPayment(o)
    BY <2>1 DEF ConfirmPayment, EnqueuedJob, AllHold, Holds, TypeInv, TypeOK
  <2>2. CASE LeaseExpires(o)
    <3>1. budget \in Budget /\ budget.slow \in Nat
      BY DEF TypeInv, TypeOK, Budget
    <3>2. CASE \E v \in Workers : WorkingOn(v, o)
      <4>1. budget' = [budget EXCEPT !.slow = budget.slow - 1]
        BY <2>2, <3>2 DEF LeaseExpires
      <4>2. budget'.slow = budget.slow - 1
        BY <3>1, <4>1 DEF Budget
      <4> QED
        BY <3>1, <4>2
    <3> QED
      BY <3>2
  <2>3. CASE BackoffEnds(o)
    BY <2>3 DEF BackoffEnds, AllHold, Holds
  <2> QED
    BY <2>1, <2>2, <2>3 DEF OrderEvent
<1>2. UNCHANGED worker /\ \A p \in Orders : p # o => job'[p] = job[p]
  BY DEF OrderEvent, ConfirmPayment, LeaseExpires, BackoffEnds, TypeInv, TypeOK
<1>3. \A v \in Workers, p \in Orders : WorkingOn(v, p)' => WorkingOn(v, p)
  BY <1>2, WorkingSame
<1>4. \A v \in Workers, p \in Orders : WorkingOn(v, p)' => job'[p] = job[p]
  BY <1>1, <1>2, <1>3
<1> QED
  BY <1>3, <1>4, JobsKept

LEMMA RequestHolds ==
    ASSUME TypeInv, AllHold, NEW h \in Handlers,
           \/ \E o \in Orders : RetryCheck(h, o)
           \/ \E m \in DOMAIN kitchen : TapDone(h, m)
           \/ RequeueJob(h) \/ CompleteTicket(h) \/ EditDone(h)
    PROVE  AllHold'
<1>1. UNCHANGED worker
  BY DEF RetryCheck, TapDone, RequeueJob, CompleteTicket, EditDone
<1>2. ASSUME NEW v \in Workers, NEW p \in Orders, WorkingOn(v, p)'
      PROVE  WorkingOn(v, p) /\ job'[p] = job[p]
  <2>1. WorkingOn(v, p)
    BY <1>1, <1>2, WorkingSame
  <2>2. job[p].status = "processing"
    BY <2>1 DEF AllHold, Holds
  <2>3. CASE RequeueJob(h)
    <3>1. p = handler[h].order => ~Requeueable(p)
      BY <2>2 DEF Requeueable
    <3> QED
      BY <2>1, <2>3, <3>1 DEF RequeueJob, TypeInv, TypeOK
  <2>4. CASE UNCHANGED job
    BY <2>1, <2>4
  <2> QED
    BY <2>3, <2>4 DEF RetryCheck, TapDone, CompleteTicket, EditDone
<1> QED
  BY <1>2, JobsKept

LEMMA SlowFalls ==
    ASSUME TypeInv, [Next]_vars
    PROVE  budget'.slow \in Nat /\ budget'.slow <= budget.slow
<1>1. budget \in Budget /\ budget.slow \in Nat
  BY DEF TypeInv, TypeOK, Budget
<1>2. \/ UNCHANGED budget
      \/ budget' = [budget EXCEPT !.crashes = budget.crashes - 1]
      \/ budget' = [budget EXCEPT !.faults = budget.faults - 1]
      \/ budget' = [budget EXCEPT !.requeues = budget.requeues - 1]
      \/ budget' = [budget EXCEPT !.reconnects = budget.reconnects - 1]
      \/ budget.slow > 0 /\ budget' = [budget EXCEPT !.slow = budget.slow - 1]
      \/ budget' = [budget EXCEPT !.slow = budget.slow]
  <2>1. ASSUME NEW o \in Orders, LeaseExpires(o)
        PROVE  \/ budget.slow > 0 /\ budget' = [budget EXCEPT !.slow = budget.slow - 1]
               \/ budget' = [budget EXCEPT !.slow = budget.slow]
    BY <2>1 DEF LeaseExpires
  <2>2. ASSUME NEW w \in Workers, WorkerStep(w)
        PROVE  UNCHANGED budget
    BY <2>2 DEF WorkerStep, Inspect, FailPendingTicket, LookupTicket, OpenTicket,
       SkipDispatch, SendAcknowledged, SendAnswerLost, SendRejected, ReloadChat,
       SaveSent, SaveFailed, SaveRefused, MarkSent, MarkFailed
  <2> QED
    BY <2>1, <2>2 DEF vars, Next, OrderEvent, ConfirmPayment, BackoffEnds, Claim,
       DatabaseFault, Crash, RetryCheck, TapDone, RequeueJob, CompleteTicket,
       EditDone, ReconnectChat
<1> QED
  BY <1>1, <1>2 DEF Budget

LEMMA ExclusiveInit == Init => ExclusiveInv
<1> SUFFICES ASSUME Init PROVE ExclusiveInv
  OBVIOUS
<1>1. TypeInv
  BY TypeInit
<1>2. budget.slow <= MaxSlow
  BY BoundsAssumption DEF Init
<1>3. ClaimExclusive
  BY DEF Init, ClaimExclusive, WorkingOn, IdleWorker
<1> QED
  BY <1>1, <1>2, <1>3 DEF ExclusiveInv

LEMMA ExclusiveStep == ExclusiveInv /\ [Next]_vars => ExclusiveInv'
<1> SUFFICES ASSUME ExclusiveInv, [Next]_vars PROVE ExclusiveInv'
  OBVIOUS
<1>1. TypeInv /\ TypeInv'
  BY TypeStep DEF ExclusiveInv
<1>2. /\ budget.slow \in Nat /\ budget'.slow \in Nat
      /\ budget'.slow <= budget.slow /\ budget.slow <= MaxSlow
  BY <1>1, SlowFalls DEF ExclusiveInv, TypeInv, TypeOK, Budget
<1>3. ASSUME budget'.slow = MaxSlow PROVE AllHold'
  <2>1. budget.slow = MaxSlow /\ budget'.slow = budget.slow
    BY <1>2, <1>3, BoundsAssumption
  <2>2. AllHold
    BY <2>1 DEF ExclusiveInv, ClaimExclusive, AllHold, Holds
  <2>3. ASSUME NEW o \in Orders, OrderEvent(o) PROVE AllHold'
    BY <1>1, <2>1, <2>2, <2>3, OrderEventHolds
  <2>4. ASSUME NEW w \in Workers, NEW o \in Orders, Claim(w, o) PROVE AllHold'
    BY <1>1, <2>2, <2>4, ClaimHolds
  <2>5. ASSUME NEW w \in Workers, WorkerStep(w) \/ DatabaseFault(w) \/ Crash(w)
        PROVE  AllHold'
    BY <1>1, <2>2, <2>5, WorkerStepHolds
  <2>6. ASSUME NEW h \in Handlers,
               \/ \E o \in Orders : RetryCheck(h, o)
               \/ \E m \in DOMAIN kitchen : TapDone(h, m)
               \/ RequeueJob(h) \/ CompleteTicket(h) \/ EditDone(h)
        PROVE  AllHold'
    BY <1>1, <2>2, <2>6, RequestHolds
  <2>7. CASE UNCHANGED <<job, worker>>
    BY <2>2, <2>7, JobsKept, WorkingSame
  <2> QED
    BY <2>3, <2>4, <2>5, <2>6, <2>7 DEF Next, ReconnectChat, vars
<1>4. budget'.slow <= MaxSlow
  BY <1>2, BoundsAssumption
<1>5. ClaimExclusive'
  BY <1>3 DEF ClaimExclusive, AllHold, Holds
<1> QED
  BY <1>1, <1>4, <1>5 DEF ExclusiveInv

\* For any number of server processes: until some dispatch outlasts the lock
\* timeout, the claim's row lock and lease let only the holder work on a job,
\* through crashes, faults, backoffs, lease takeovers and manual requeues.
THEOREM ClaimsAreExclusive == Spec => []ClaimExclusive
<1>1. ExclusiveInv => ClaimExclusive
  BY DEF ExclusiveInv
<1> QED
  BY <1>1, ExclusiveInit, ExclusiveStep, PTL DEF Spec
-----------------------------------------------------------------------------
(***************************************************************************)
(* What exclusive claims are for: while no dispatch outlasts the lock      *)
(* timeout, no ticket is opened beside a live one, the outbox and the      *)
(* tickets agree on what was delivered, and attempts are counted.  What    *)
(* the rows say of the kitchen's messages needs no such condition: it is   *)
(* proved with locks outlasted too.                                        *)
(***************************************************************************)

\* Of one order: only the latest ticket may be live, and a job recorded as sent
\* has one that was delivered.
RowsKept(o) ==
    /\ \A t \in 1..Len(tickets[o]) :
          t < Len(tickets[o]) => tickets[o][t].status = "failed"
    /\ job[o].status = "sent" => LatestStatus(o) \in {"sent", "done"}

\* What a worker has read of its order stays true while it works on it: the row
\* it holds is the latest and pending, a new row is opened after failed ones only,
\* and a job about to be marked sent was delivered.
Knows(w) ==
    LET o == worker[w].order IN
    /\ worker[w].pc \in HoldsRow => /\ worker[w].ticket = Len(tickets[o])
                                    /\ LatestStatus(o) = "pending"
    /\ worker[w].pc \in {"lookup", "open"} => LatestStatus(o) \in {"none", "failed"}
    /\ worker[w].pc = "mark_sent" => LatestStatus(o) \in {"sent", "done"}

AllKept == /\ \A o \in Orders : RowsKept(o)
           /\ \A w \in Workers : Knows(w)

\* Neither property is inductive alone: what a worker does depends on what it has
\* read, which is still true only because nobody else works on the order.
DeliveryInv == ExclusiveInv /\ (budget.slow = MaxSlow => AllKept)
-----------------------------------------------------------------------------
(* What the steps are made of. *)

LEMMA KnowsSame ==
    ASSUME NEW v \in Workers, Knows(v), worker'[v] = worker[v],
           worker[v].pc # "idle" => tickets'[worker[v].order] = tickets[worker[v].order]
    PROVE  Knows(v)'
<1>1. CASE worker[v].pc = "idle"
  BY <1>1 DEF Knows, HoldsRow
<1>2. CASE worker[v].pc # "idle"
  BY <1>2 DEF Knows, LatestStatus
<1> QED
  BY <1>1, <1>2

LEMMA RowsSame ==
    ASSUME NEW o \in Orders, RowsKept(o), tickets'[o] = tickets[o],
           job'[o].status = "sent" => job[o].status = "sent"
    PROVE  RowsKept(o)'
BY DEF RowsKept, LatestStatus

\* A working worker has the order for itself, so only that order and what it
\* knows of it can be disturbed by its step.
LEMMA LocalStep ==
    ASSUME TypeInv, AllHold, AllKept, NEW w \in Workers, worker[w].pc # "idle",
           NEW o \in Orders, worker[w].order = o,
           NEW new, worker' = [worker EXCEPT ![w] = new],
           \A p \in Orders : p # o => tickets'[p] = tickets[p] /\ job'[p] = job[p],
           RowsKept(o)', Knows(w)'
    PROVE  AllKept'
<1>1. ASSUME NEW p \in Orders
      PROVE  RowsKept(p)'
  <2>1. CASE p = o
    BY <2>1
  <2>2. CASE p # o
    BY <2>2, RowsSame DEF AllKept
  <2> QED
    BY <2>1, <2>2
<1>2. ASSUME NEW v \in Workers
      PROVE  Knows(v)'
  <2>1. CASE v = w
    BY <2>1
  <2>2. CASE v # w
    <3>1. worker'[v] = worker[v]
      BY <2>2 DEF TypeInv, TypeOK
    <3>2. ASSUME worker[v].pc # "idle"
          PROVE  tickets'[worker[v].order] = tickets[worker[v].order]
      <4>1. worker[v].order \in Orders
        BY <3>2 DEF TypeInv, WorkerRefs
      <4>2. job[worker[v].order].lockedBy = v /\ job[o].lockedBy = w
        BY <3>2, <4>1 DEF AllHold, Holds, WorkingOn
      <4>3. worker[v].order # o
        BY <2>2, <4>2
      <4> QED
        BY <4>1, <4>3
    <3>3. Knows(v)
      BY DEF AllKept
    <3> QED
      BY <3>1, <3>2, <3>3, KnowsSame
  <2> QED
    BY <2>1, <2>2
<1> QED
  BY <1>1, <1>2 DEF AllKept

\* A worker's job is being processed, not sent.
LEMMA NotSent ==
    ASSUME TypeInv, AllHold, NEW w \in Workers, worker[w].pc # "idle"
    PROVE  worker[w].order \in Orders /\ job[worker[w].order].status = "processing"
BY DEF TypeInv, WorkerRefs, AllHold, Holds, WorkingOn

\* A step that writes no row and only sends the worker on.
LEMMA PlainStep ==
    ASSUME TypeInv, AllHold, AllKept, NEW w \in Workers, worker[w].pc # "idle",
           NEW new, worker' = [worker EXCEPT ![w] = new], UNCHANGED <<tickets, job>>,
           new.pc \in HoldsRow => /\ new.ticket = Len(tickets[new.order])
                                  /\ LatestStatus(new.order) = "pending",
           new.pc \in {"lookup", "open"} => LatestStatus(new.order) \in {"none", "failed"},
           new.pc = "mark_sent" => LatestStatus(new.order) \in {"sent", "done"}
    PROVE  AllKept'
<1>1. worker'[w] = new
  BY DEF TypeInv, TypeOK
<1>2. Knows(w)'
  BY <1>1 DEF Knows, LatestStatus
<1>3. PICK o \in Orders : worker[w].order = o
  BY NotSent
<1>4. RowsKept(o)'
  BY RowsSame DEF AllKept
<1> QED
  BY <1>2, <1>3, <1>4, LocalStep

LEMMA GotoPlain ==
    ASSUME TypeInv, AllHold, AllKept, NEW w \in Workers, worker[w].pc # "idle",
           NEW pc, Goto(w, pc), UNCHANGED <<tickets, job>>,
           pc \in HoldsRow => worker[w].pc \in HoldsRow,
           pc \in {"lookup", "open"} => LatestStatus(worker[w].order) \in {"none", "failed"},
           pc = "mark_sent" => LatestStatus(worker[w].order) \in {"sent", "done"}
    PROVE  AllKept'
<1> DEFINE new == [worker[w] EXCEPT !.pc = pc]
<1>1. worker[w] \in WorkerMemory /\ worker' = [worker EXCEPT ![w] = new]
  BY DEF Goto, TypeInv, TypeOK
<1>2. new.pc = pc /\ new.order = worker[w].order /\ new.ticket = worker[w].ticket
  BY <1>1 DEF WorkerMemory
<1>3. new.pc \in HoldsRow => /\ new.ticket = Len(tickets[new.order])
                             /\ LatestStatus(new.order) = "pending"
  BY <1>2 DEF AllKept, Knows
<1> HIDE DEF new
<1> QED
  BY <1>1, <1>2, <1>3, PlainStep

LEMMA RestPlain ==
    ASSUME TypeInv, AllHold, AllKept, NEW w \in Workers, worker[w].pc # "idle",
           Rest(w), UNCHANGED <<tickets, job>>
    PROVE  AllKept'
<1> DEFINE new == IdleWorker
<1>1. new.pc = "idle" /\ worker' = [worker EXCEPT ![w] = new]
  BY DEF IdleWorker, Rest
<1> HIDE DEF new
<1>2. new.pc \notin HoldsRow
  BY <1>1 DEF HoldsRow
<1> QED
  BY <1>1, <1>2, PlainStep

\* Saving the row in hand, which is the latest.
LEMMA SaveLatest ==
    ASSUME TypeInv, AllHold, AllKept, NEW w \in Workers, worker[w].pc \in HoldsRow,
           NEW row \in TicketRow, SaveTicket(w, row), UNCHANGED job,
           NEW pc, Goto(w, pc), pc \notin HoldsRow, pc \notin {"lookup", "open"},
           pc = "mark_sent" => row.status \in {"sent", "done"}
    PROVE  AllKept'
<1>1. /\ worker[w].pc # "idle" /\ worker[w].order \in Orders
      /\ tickets \in [Orders -> Seq(TicketRow)]
      /\ worker[w].ticket \in 1..Len(tickets[worker[w].order])
      /\ worker[w].ticket = Len(tickets[worker[w].order])
  BY DEF TypeInv, TypeOK, WorkerRefs, HoldsRow, AllKept, Knows
<1>a. PICK o \in Orders : o = worker[w].order
  BY <1>1
<1>b. PICK k : k = worker[w].ticket /\ k = Len(tickets[o]) /\ k \in 1..k
  BY <1>1, <1>a
<1>2. tickets' = [tickets EXCEPT ![o] = [tickets[o] EXCEPT ![k] = row]]
  BY <1>1, <1>a, <1>b DEF SaveTicket
<1>3. RowsKept(o)
  BY DEF AllKept
<1>4. job[o].status = "processing"
  BY <1>1, <1>a, NotSent
<1>5. worker'[w].pc = pc /\ worker'[w].order = o
  BY <1>a DEF Goto, TypeInv, TypeOK, WorkerMemory
<1>6. tickets'[o] = [tickets[o] EXCEPT ![k] = row] /\ tickets[o] \in Seq(TicketRow)
  BY <1>1, <1>2
<1>7. /\ Len(tickets'[o]) = k /\ tickets'[o] # << >> /\ tickets'[o][k] = row
      /\ \A t \in 1..k : t < k => tickets'[o][t] = tickets[o][t]
  BY <1>b, <1>6
<1>8. RowsKept(o)'
  BY <1>b, <1>3, <1>4, <1>7 DEF RowsKept
<1>9. LatestStatus(o)' = row.status
  BY <1>7 DEF LatestStatus
<1>10. Knows(w)'
  <2>1. worker'[w].pc = "mark_sent" => LatestStatus(o)' \in {"sent", "done"}
    BY <1>5, <1>9
  <2> QED
    BY <1>5, <2>1 DEF Knows, LatestStatus
<1>11. \A p \in Orders : p # o => tickets'[p] = tickets[p] /\ job'[p] = job[p]
  BY <1>1, <1>2
<1>12. PICK new : worker' = [worker EXCEPT ![w] = new]
  BY DEF Goto
<1> QED
  BY <1>1, <1>a, <1>8, <1>10, <1>11, <1>12, LocalStep
-----------------------------------------------------------------------------
(* The steps. *)

LEMMA OpenKeeps ==
    ASSUME TypeInv, AllHold, AllKept, NEW w \in Workers, OpenTicket(w)
    PROVE  AllKept'
<1>1. worker[w].pc # "idle" /\ worker[w].pc \in {"lookup", "open"}
  BY DEF OpenTicket
<1>2. PICK o \in Orders : worker[w].order = o
  BY <1>1, NotSent
<1>3. /\ LatestStatus(o) \in {"none", "failed"}
      /\ job[o].status = "processing" /\ UNCHANGED job
      /\ tickets \in [Orders -> Seq(TicketRow)] /\ tickets[o] \in Seq(TicketRow)
  BY <1>1, <1>2, NotSent DEF AllKept, Knows, OpenTicket, TypeInv, TypeOK
<1> DEFINE row == [status |-> "pending", chat |-> stallChat, msg |-> 0]
           n == Len(tickets[o])
<1>4. PICK s : s = tickets[o] /\ s \in Seq(TicketRow)
  BY <1>3
<1>5. tickets' = [tickets EXCEPT ![o] = Append(s, row)]
  BY <1>2, <1>4 DEF OpenTicket
<1>6. PICK r : r = row /\ r.status = "pending"
  <2> WITNESS row
  <2> QED
    OBVIOUS
<1>7. tickets'[o] = Append(s, r) /\ \A p \in Orders : p # o => tickets'[p] = tickets[p]
  BY <1>3, <1>5, <1>6
<1>8. /\ Len(tickets'[o]) = Len(s) + 1 /\ Len(s) \in Nat
      /\ tickets'[o][Len(s) + 1] = r /\ tickets'[o] # << >>
      /\ \A t \in 1..Len(s) : tickets'[o][t] = s[t]
  BY <1>4, <1>7
<1>9. \A t \in 1..Len(s) : s[t].status = "failed"
  <2>1. SUFFICES ASSUME NEW t \in 1..Len(s) PROVE s[t].status = "failed"
    OBVIOUS
  <2>2. RowsKept(o)
    BY DEF AllKept
  <2>3. CASE t < Len(s)
    BY <1>4, <2>2, <2>3 DEF RowsKept
  <2>4. CASE t = Len(s)
    <3>1. s # << >> /\ LatestStatus(o) = s[Len(s)].status
      BY <1>4, <2>4 DEF LatestStatus
    <3>2. \A x \in TicketStatus : x # "none"
      BY DEF TicketStatus
    <3>3. s[t] \in TicketRow
      BY <1>4
    <3> QED
      BY <1>3, <2>4, <3>1, <3>2, <3>3 DEF TicketRow
  <2> QED
    BY <1>8, <2>3, <2>4
<1>10. RowsKept(o)'
  BY <1>3, <1>8, <1>9 DEF RowsKept
<1>11. LatestStatus(o)' = "pending"
  BY <1>6, <1>8 DEF LatestStatus
<1> DEFINE new == [worker[w] EXCEPT !.pc = "calling", !.try = 1, !.ticket = n + 1]
<1>12. worker' = [worker EXCEPT ![w] = new]
  BY <1>2 DEF OpenTicket, TypeInv, TypeOK
<1>13. worker'[w].pc = "calling" /\ worker'[w].order = o /\ worker'[w].ticket = Len(s) + 1
  BY <1>2, <1>4, <1>12 DEF TypeInv, TypeOK, WorkerMemory
<1>14. Knows(w)'
  BY <1>8, <1>11, <1>13 DEF Knows, LatestStatus
<1> HIDE DEF new
<1> QED
  BY <1>1, <1>2, <1>3, <1>7, <1>10, <1>12, <1>14, LocalStep

LEMMA InspectKeeps ==
    ASSUME TypeInv, AllHold, AllKept, NEW w \in Workers, Inspect(w)
    PROVE  AllKept'
<1> DEFINE o == worker[w].order
           new == [worker[w] EXCEPT !.pc = NextStep(o), !.ticket = Len(tickets[o]),
                                    !.force = (tickets[o] # << >>)]
<1>1. worker[w].pc # "idle" /\ worker[w] \in WorkerMemory /\ UNCHANGED <<tickets, job>>
      /\ o \in Orders
  BY DEF Inspect, TypeInv, TypeOK, WorkerRefs
<1>2. worker' = [worker EXCEPT ![w] = new]
  BY DEF Inspect, TypeInv, TypeOK
<1>3. new.pc = NextStep(o) /\ new.order = o /\ new.ticket = Len(tickets[o])
  BY <1>1 DEF WorkerMemory
<1>4. /\ NextStep(o) \in HoldsRow => LatestStatus(o) = "pending"
      /\ NextStep(o) \in {"lookup", "open"} => LatestStatus(o) \in {"none", "failed"}
      /\ NextStep(o) = "mark_sent" => LatestStatus(o) \in {"sent", "done"}
  BY <1>1, LatestType DEF NextStep, HoldsRow, TicketStatus, TypeInv
<1> HIDE DEF new
<1> QED
  BY <1>1, <1>2, <1>3, <1>4, PlainStep

\* The steps of a call to Telegram and the re-reading of the chat.
LEMMA CallKeeps ==
    ASSUME TypeInv, AllHold, AllKept, NEW w \in Workers,
           SendAcknowledged(w) \/ SendAnswerLost(w) \/ SendRejected(w) \/ ReloadChat(w)
    PROVE  AllKept'
<1>1. /\ worker[w].pc \in {"calling", "reload"} /\ UNCHANGED <<tickets, job>>
      /\ worker[w] \in WorkerMemory /\ worker \in [Workers -> WorkerMemory]
  BY DEF SendAcknowledged, SendAnswerLost, SendRejected, ReloadChat, TypeInv, TypeOK
<1>2. /\ worker[w].ticket = Len(tickets[worker[w].order])
      /\ LatestStatus(worker[w].order) = "pending"
  BY <1>1 DEF AllKept, Knows, HoldsRow
<1>3. \E new : /\ worker' = [worker EXCEPT ![w] = new]
               /\ new.pc \in {"calling", "reload", "save_sent", "save_failed"}
               /\ new.order = worker[w].order /\ new.ticket = worker[w].ticket
  <2>1. CASE SendAcknowledged(w)
    <3> WITNESS [worker[w] EXCEPT !.pc = "reload", !.msg = NextId(InHand(w).chat)]
    <3> QED
      BY <1>1, <2>1 DEF SendAcknowledged, WorkerMemory
  <2>2. CASE NextTry(w)
    <3> WITNESS IF worker[w].try < ApiAttempts
                THEN [worker[w] EXCEPT !.try = worker[w].try + 1]
                ELSE [worker[w] EXCEPT !.pc = "save_failed"]
    <3> QED
      BY <1>1, <2>2 DEF NextTry, WorkerMemory
  <2>3. CASE ReloadChat(w)
    <3> WITNESS [worker[w] EXCEPT !.pc = "save_sent",
                     !.chat = IF HasKitchenChat THEN stallChat ELSE InHand(w).chat]
    <3> QED
      BY <1>1, <2>3 DEF ReloadChat, WorkerMemory
  <2> QED
    BY <2>1, <2>2, <2>3 DEF SendAnswerLost, SendRejected
<1> QED
  BY <1>1, <1>2, <1>3, PlainStep

LEMMA SaveKeeps ==
    ASSUME TypeInv, AllHold, AllKept, NEW w \in Workers,
           FailPendingTicket(w) \/ SaveSent(w) \/ SaveFailed(w)
    PROVE  AllKept'
<1>1. worker[w].pc \in HoldsRow
  BY DEF FailPendingTicket, SaveSent, SaveFailed, HoldsRow
<1>2. InHand(w) \in TicketRow
  BY <1>1, InHandType
<1>3. \A s \in TicketStatus :
          /\ RowWith(w, s) \in TicketRow /\ RowWith(w, s).status = s
          /\ [InHand(w) EXCEPT !.status = s] \in TicketRow
          /\ [InHand(w) EXCEPT !.status = s].status = s
  BY <1>1, <1>2, RowWithType DEF TicketRow, RowWith
<1>4. CASE FailPendingTicket(w)
  <2>1. [InHand(w) EXCEPT !.status = "failed"] \in TicketRow
    BY <1>3 DEF TicketStatus
  <2>2. "mark_terminal" \notin HoldsRow
    BY DEF HoldsRow
  <2> QED
    BY <1>1, <1>4, <2>1, <2>2, SaveLatest DEF FailPendingTicket
<1>5. CASE SaveSent(w)
  <2>1. RowWith(w, "sent") \in TicketRow /\ RowWith(w, "sent").status = "sent"
    BY <1>3 DEF TicketStatus
  <2>2. "mark_sent" \notin HoldsRow
    BY DEF HoldsRow
  <2> QED
    BY <1>1, <1>5, <2>1, <2>2, SaveLatest DEF SaveSent
<1>6. CASE SaveFailed(w)
  <2>1. RowWith(w, "failed") \in TicketRow
    BY <1>3 DEF TicketStatus
  <2>2. "mark_failed" \notin HoldsRow
    BY DEF HoldsRow
  <2> QED
    BY <1>1, <1>6, <2>1, <2>2, SaveLatest DEF SaveFailed
<1> QED
  BY <1>4, <1>5, <1>6

LEMMA MarkKeeps ==
    ASSUME TypeInv, AllHold, AllKept, NEW w \in Workers, MarkSent(w) \/ MarkFailed(w)
    PROVE  AllKept'
<1>1. worker[w].pc # "idle" /\ UNCHANGED tickets /\ Rest(w)
  BY DEF MarkSent, MarkFailed
<1>2. PICK o \in Orders : worker[w].order = o
  BY <1>1, NotSent
<1>3. /\ job \in [Orders -> JobRow]
      /\ \A p \in Orders : p # o => job'[p] = job[p]
      /\ job'[o].status = "sent" => MarkSent(w)
  <2>1. ASSUME NEW s, SaveJob(w, s)
        PROVE  /\ \A p \in Orders : p # o => job'[p] = job[p]
               /\ job'[o].status = s
    <3>1. job' = [job EXCEPT ![o] =
              [job[o] EXCEPT !.status = s, !.lockedBy = NoOne,
                             !.due = (s # "retry"), !.stale = FALSE]]
      BY <1>2, <2>1 DEF SaveJob, TypeInv, TypeOK
    <3> QED
      BY <3>1 DEF TypeInv, TypeOK, JobRow
  <2>2. \A p \in Orders : p # o => job'[p] = job[p]
    BY <2>1 DEF MarkSent, MarkFailed
  <2>3. MarkFailed(w) => job'[o].status \in {"failed", "retry"}
    BY <2>1 DEF MarkFailed
  <2> QED
    BY <2>2, <2>3 DEF TypeInv, TypeOK
<1>4. RowsKept(o)'
  <2>1. RowsKept(o)
    BY DEF AllKept
  <2>2. MarkSent(w) => LatestStatus(o) \in {"sent", "done"}
    BY <1>2 DEF MarkSent, AllKept, Knows
  <2> QED
    BY <1>1, <1>3, <2>1, <2>2 DEF RowsKept, LatestStatus
<1>5. Knows(w)'
  <2>1. worker'[w].pc = "idle"
    BY <1>1 DEF Rest, IdleWorker, TypeInv, TypeOK
  <2> QED
    BY <2>1 DEF Knows, HoldsRow
<1>6. worker' = [worker EXCEPT ![w] = IdleWorker]
  BY <1>1 DEF Rest
<1> DEFINE new == IdleWorker
<1> HIDE DEF new
<1>7. worker' = [worker EXCEPT ![w] = new]
  BY <1>6 DEF new
<1> QED
  BY <1>1, <1>2, <1>3, <1>4, <1>5, <1>7, LocalStep

LEMMA WorkerStepKeeps ==
    ASSUME TypeInv, AllHold, AllKept, NEW w \in Workers,
           WorkerStep(w) \/ DatabaseFault(w) \/ Crash(w)
    PROVE  AllKept'
<1>1. CASE Inspect(w)
  BY <1>1, InspectKeeps
<1>2. CASE FailPendingTicket(w) \/ SaveSent(w) \/ SaveFailed(w)
  BY <1>2, SaveKeeps
<1>3. CASE LookupTicket(w)
  <2> DEFINE o == worker[w].order
             pc == LookupOutcome(w)
  <2>1. LatestStatus(o) \in {"none", "failed"}
    BY <1>3 DEF LookupTicket, AllKept, Knows
  <2>2. pc \notin HoldsRow /\ pc # "mark_sent"
    BY <2>1 DEF LookupOutcome, HoldsRow
  <2>3. worker[w].pc # "idle" /\ Goto(w, pc) /\ UNCHANGED <<tickets, job>>
    BY <1>3 DEF LookupTicket
  <2> HIDE DEF pc
  <2> QED
    BY <2>1, <2>2, <2>3, GotoPlain
<1>4. CASE OpenTicket(w)
  BY <1>4, OpenKeeps
<1>5. CASE SkipDispatch(w)
  <2>1. "mark_failed" \notin HoldsRow
    BY DEF HoldsRow
  <2> QED
    BY <1>5, <2>1, GotoPlain DEF SkipDispatch
<1>6. CASE SendAcknowledged(w) \/ SendAnswerLost(w) \/ SendRejected(w) \/ ReloadChat(w)
  BY <1>6, CallKeeps
<1>7. CASE SaveRefused(w) \/ DatabaseFault(w)
  <2> DEFINE pc == FaultTarget(worker[w].pc)
  <2>1. /\ pc \in HoldsRow => worker[w].pc \in HoldsRow
        /\ pc \notin {"lookup", "open", "mark_sent"}
    BY DEF FaultTarget, HoldsRow
  <2>2. /\ worker[w].pc # "idle" /\ UNCHANGED <<tickets, job>>
        /\ Goto(w, pc) \/ Rest(w)
    BY <1>7 DEF SaveRefused, DatabaseFault
  <2> HIDE DEF pc
  <2>3. CASE Goto(w, pc)
    BY <2>1, <2>2, <2>3, GotoPlain
  <2>4. CASE Rest(w)
    BY <2>2, <2>4, RestPlain
  <2> QED
    BY <2>2, <2>3, <2>4
<1>8. CASE MarkSent(w) \/ MarkFailed(w)
  BY <1>8, MarkKeeps
<1>9. CASE Crash(w)
  BY <1>9, RestPlain DEF Crash
<1> QED
  BY <1>1, <1>2, <1>3, <1>4, <1>5, <1>6, <1>7, <1>8, <1>9 DEF WorkerStep

LEMMA ClaimKeeps ==
    ASSUME TypeInv, AllHold, AllKept, NEW w \in Workers, NEW o \in Orders, Claim(w, o)
    PROVE  AllKept'
<1>1. /\ worker[w].pc = "idle" /\ UNCHANGED tickets
      /\ job \in [Orders -> JobRow] /\ worker \in [Workers -> WorkerMemory]
  BY DEF Claim, TypeInv, TypeOK
<1>2. job'[o].status = "processing" /\ \A p \in Orders : p # o => job'[p] = job[p]
  <2>1. job' = [job EXCEPT ![o] =
            [job[o] EXCEPT !.status = "processing", !.attempts = job[o].attempts + 1,
                           !.lockedBy = w, !.stale = FALSE]]
    BY <1>1 DEF Claim
  <2>2. [job[o] EXCEPT !.status = "processing", !.attempts = job[o].attempts + 1,
                       !.lockedBy = w, !.stale = FALSE].status = "processing"
    BY <1>1 DEF JobRow
  <2> QED
    BY <1>1, <2>1, <2>2
<1>3. worker'[w].pc = "claimed" /\ \A v \in Workers : v # w => worker'[v] = worker[v]
  BY <1>1 DEF Claim, IdleWorker
<1>4. ASSUME NEW p \in Orders PROVE RowsKept(p)'
  <2>1. job'[p].status = "sent" => job[p].status = "sent"
    BY <1>2
  <2> QED
    BY <1>1, <2>1, RowsSame DEF AllKept
<1>5. ASSUME NEW v \in Workers PROVE Knows(v)'
  <2>1. CASE v = w
    BY <1>3, <2>1 DEF Knows, HoldsRow
  <2>2. CASE v # w
    BY <1>1, <1>3, <2>2, KnowsSame DEF AllKept
  <2> QED
    BY <2>1, <2>2
<1> QED
  BY <1>4, <1>5 DEF AllKept

\* Steps that write no ticket and mark no job sent.
LEMMA QuietStep ==
    ASSUME AllKept, UNCHANGED <<tickets, worker>>,
           \A p \in Orders : job'[p].status = "sent" => job[p].status = "sent"
    PROVE  AllKept'
<1>1. ASSUME NEW p \in Orders PROVE RowsKept(p)'
  BY RowsSame DEF AllKept
<1>2. ASSUME NEW v \in Workers PROVE Knows(v)'
  BY KnowsSame DEF AllKept
<1> QED
  BY <1>1, <1>2 DEF AllKept

LEMMA OrderEventKeeps ==
    ASSUME TypeInv, AllKept, NEW o \in Orders, OrderEvent(o)
    PROVE  AllKept'
<1>1. UNCHANGED <<tickets, worker>> /\ job \in [Orders -> JobRow]
  BY DEF OrderEvent, ConfirmPayment, LeaseExpires, BackoffEnds, TypeInv, TypeOK
<1>2. /\ \A p \in Orders : p # o => job'[p] = job[p]
      /\ job'[o].status = "sent" => job[o].status = "sent"
  <2>1. CASE ConfirmPayment(o)
    BY <1>1, <2>1 DEF ConfirmPayment, EnqueuedJob, PendingJob
  <2>2. CASE LeaseExpires(o)
    BY <1>1, <2>2 DEF LeaseExpires, JobRow
  <2>3. CASE BackoffEnds(o)
    BY <1>1, <2>3 DEF BackoffEnds, JobRow
  <2> QED
    BY <2>1, <2>2, <2>3 DEF OrderEvent
<1> QED
  BY <1>1, <1>2, QuietStep

\* The cook completes a sent ticket, which can only be the latest.
LEMMA CompleteKeeps ==
    ASSUME TypeInv, AllKept, NEW h \in Handlers, CompleteTicket(h)
    PROVE  AllKept'
<1>1. UNCHANGED <<worker, job>>
  BY DEF CompleteTicket
<1>2. CASE UNCHANGED tickets
  BY <1>1, <1>2, QuietStep
<1>3. CASE Completes(h)
  <2>1. /\ handler[h].order \in Orders
        /\ handler[h].ticket \in 1..Len(tickets[handler[h].order])
        /\ tickets[handler[h].order][handler[h].ticket].status = "sent"
        /\ tickets \in [Orders -> Seq(TicketRow)]
    BY <1>3 DEF CompleteTicket, Completes, TypeInv, TypeOK, HandlerRefs
  <2>2. PICK o \in Orders : o = handler[h].order
    BY <2>1
  <2>3. PICK s : s = tickets[o] /\ s \in Seq(TicketRow)
    BY <2>1
  <2>4. PICK k \in 1..Len(s) : k = handler[h].ticket /\ s[k].status = "sent"
    BY <2>1, <2>2, <2>3
  <2>5. RowsKept(o)
    BY DEF AllKept
  <2>6. k = Len(s) /\ s # << >> /\ LatestStatus(o) = "sent"
    <3>1. Len(s) \in Nat /\ ~(k < Len(s))
      BY <2>3, <2>4, <2>5 DEF RowsKept
    <3>2. k = Len(s) /\ s # << >>
      BY <2>3, <3>1
    <3> QED
      BY <2>3, <2>4, <3>2 DEF LatestStatus
  <2>7. tickets' = [tickets EXCEPT ![o] = [s EXCEPT ![k] = [s[k] EXCEPT !.status = "done"]]]
    BY <1>3, <2>1, <2>2, <2>3, <2>4 DEF CompleteTicket
  <2>8. PICK r : r = [s[k] EXCEPT !.status = "done"] /\ r.status = "done"
    <3>1. s[k] \in TicketRow
      BY <2>3
    <3> WITNESS [s[k] EXCEPT !.status = "done"]
    <3> QED
      BY <3>1 DEF TicketRow
  <2>9. /\ tickets'[o] = [s EXCEPT ![k] = r]
        /\ \A p \in Orders : p # o => tickets'[p] = tickets[p]
    BY <2>1, <2>7, <2>8
  <2>10. /\ Len(tickets'[o]) = Len(s) /\ tickets'[o] # << >> /\ tickets'[o][Len(s)] = r
         /\ \A t \in 1..Len(s) : t < Len(s) => tickets'[o][t] = s[t]
    BY <2>3, <2>6, <2>9
  <2>11. LatestStatus(o)' = "done"
    BY <2>8, <2>10 DEF LatestStatus
  <2>12. ASSUME NEW p \in Orders PROVE RowsKept(p)'
    <3>1. CASE p = o
      BY <1>1, <2>3, <2>5, <2>10, <2>11, <3>1 DEF RowsKept
    <3>2. CASE p # o
      BY <1>1, <2>9, <3>2, RowsSame DEF AllKept
    <3> QED
      BY <3>1, <3>2
  <2>13. ASSUME NEW v \in Workers PROVE Knows(v)'
    <3>1. Knows(v)
      BY DEF AllKept
    <3>2. CASE worker[v].pc # "idle" /\ worker[v].order = o
      BY <1>1, <2>6, <2>11, <3>1, <3>2 DEF Knows, LatestStatus
    <3>3. CASE worker[v].pc = "idle" \/ worker[v].order # o
      <4>1. worker[v].pc # "idle" => worker[v].order \in Orders
        BY DEF TypeInv, WorkerRefs
      <4>2. worker[v].pc # "idle" => tickets'[worker[v].order] = tickets[worker[v].order]
        BY <2>9, <3>3, <4>1
      <4> QED
        BY <1>1, <3>1, <4>2, KnowsSame
    <3> QED
      BY <3>2, <3>3
  <2> QED
    BY <2>12, <2>13 DEF AllKept
<1> QED
  BY <1>2, <1>3 DEF CompleteTicket

LEMMA RequestKeeps ==
    ASSUME TypeInv, AllKept, NEW h \in Handlers,
           \/ \E o \in Orders : RetryCheck(h, o)
           \/ \E m \in DOMAIN kitchen : TapDone(h, m)
           \/ RequeueJob(h) \/ CompleteTicket(h) \/ EditDone(h)
    PROVE  AllKept'
<1>1. CASE CompleteTicket(h)
  BY <1>1, CompleteKeeps
<1>2. CASE RequeueJob(h)
  <2>1. UNCHANGED <<tickets, worker>>
    BY <1>2 DEF RequeueJob
  <2>2. \A p \in Orders : job'[p].status = "sent" => job[p].status = "sent"
    BY <1>2 DEF RequeueJob, PendingJob, TypeInv, TypeOK
  <2> QED
    BY <2>1, <2>2, QuietStep
<1>3. CASE UNCHANGED <<tickets, worker, job>>
  BY <1>3, QuietStep
<1> QED
  BY <1>1, <1>2, <1>3 DEF RetryCheck, TapDone, EditDone
-----------------------------------------------------------------------------
LEMMA DeliveryInit == Init => DeliveryInv
<1> SUFFICES ASSUME Init PROVE DeliveryInv
  OBVIOUS
<1>1. ExclusiveInv
  BY ExclusiveInit
<1>2. \A o \in Orders : RowsKept(o)
  BY DEF Init, RowsKept
<1>3. \A w \in Workers : Knows(w)
  BY DEF Init, Knows, HoldsRow, IdleWorker
<1> QED
  BY <1>1, <1>2, <1>3 DEF DeliveryInv, AllKept

LEMMA DeliveryStep == DeliveryInv /\ [Next]_vars => DeliveryInv'
<1> SUFFICES ASSUME DeliveryInv, [Next]_vars PROVE DeliveryInv'
  OBVIOUS
<1>1. ExclusiveInv /\ ExclusiveInv' /\ TypeInv
  BY ExclusiveStep DEF DeliveryInv, ExclusiveInv
<1>2. ASSUME budget'.slow = MaxSlow PROVE AllKept'
  <2>1. budget.slow = MaxSlow
    <3>1. budget.slow \in Nat /\ budget'.slow <= budget.slow /\ budget.slow <= MaxSlow
      BY <1>1, SlowFalls DEF ExclusiveInv, TypeInv, TypeOK, Budget
    <3> QED
      BY <1>2, <3>1, BoundsAssumption
  <2>2. AllHold /\ AllKept
    BY <1>1, <2>1 DEF DeliveryInv, ExclusiveInv, ClaimExclusive, AllHold, Holds
  <2>3. ASSUME NEW o \in Orders, OrderEvent(o) PROVE AllKept'
    BY <1>1, <2>2, <2>3, OrderEventKeeps
  <2>4. ASSUME NEW w \in Workers, NEW o \in Orders, Claim(w, o) PROVE AllKept'
    BY <1>1, <2>2, <2>4, ClaimKeeps
  <2>5. ASSUME NEW w \in Workers, WorkerStep(w) \/ DatabaseFault(w) \/ Crash(w)
        PROVE  AllKept'
    BY <1>1, <2>2, <2>5, WorkerStepKeeps
  <2>6. ASSUME NEW h \in Handlers,
               \/ \E o \in Orders : RetryCheck(h, o)
               \/ \E m \in DOMAIN kitchen : TapDone(h, m)
               \/ RequeueJob(h) \/ CompleteTicket(h) \/ EditDone(h)
        PROVE  AllKept'
    BY <1>1, <2>2, <2>6, RequestKeeps
  <2>7. CASE UNCHANGED <<tickets, job, worker>>
    BY <2>2, <2>7, QuietStep
  <2> QED
    BY <2>3, <2>4, <2>5, <2>6, <2>7 DEF Next, ReconnectChat, vars
<1> QED
  BY <1>1, <1>2 DEF DeliveryInv

\* A kitchen ticket is opened only after every earlier ticket of its order has
\* failed, through any number of crashes, faults, retries, requeues and taps, until
\* a dispatch outlasts the lock timeout.
THEOREM NoTicketBesideALiveOne == Spec => []EarlierTicketsFailed
<1>1. DeliveryInv => EarlierTicketsFailed
  <2> SUFFICES ASSUME DeliveryInv PROVE EarlierTicketsFailed
    OBVIOUS
  <2>1. \A o \in Orders : DOMAIN tickets[o] = 1..Len(tickets[o])
    BY DEF DeliveryInv, ExclusiveInv, TypeInv, TypeOK
  <2> QED
    BY <2>1 DEF DeliveryInv, AllKept, RowsKept, EarlierTicketsFailed
<1> QED
  BY <1>1, DeliveryInit, DeliveryStep, PTL DEF Spec

\* The outbox never records a delivery the tickets do not show, under the same
\* condition.
THEOREM SentMeansDelivered == Spec => []SentJobDelivered
<1>1. DeliveryInv => SentJobDelivered
  BY DEF DeliveryInv, AllKept, RowsKept, SentJobDelivered
<1> QED
  BY <1>1, DeliveryInit, DeliveryStep, PTL DEF Spec
-----------------------------------------------------------------------------
(* Completed tickets. *)

LEMMA DoneRowsStay ==
    ASSUME TypeInv, AllKept, Next,
           NEW o \in Orders, NEW t \in DOMAIN tickets[o], tickets[o][t].status = "done"
    PROVE  tickets'[o][t] = tickets[o][t]
<1>1. /\ tickets \in [Orders -> Seq(TicketRow)] /\ tickets[o] \in Seq(TicketRow)
      /\ t \in 1..Len(tickets[o])
  BY DEF TypeInv, TypeOK
<1>2. ASSUME NEW w \in Workers, worker[w].pc \in HoldsRow, NEW row, SaveTicket(w, row)
      PROVE  tickets'[o][t] = tickets[o][t]
  <2>1. CASE worker[w].order = o
    <3>1. worker[w].ticket = Len(tickets[o]) /\ LatestStatus(o) = "pending"
      BY <1>2, <2>1 DEF AllKept, Knows
    <3>2. tickets[o] # << >>
      BY <1>1
    <3>3. t # worker[w].ticket
      BY <3>1, <3>2 DEF LatestStatus
    <3>4. tickets'[o] = [tickets[o] EXCEPT ![worker[w].ticket] = row]
      BY <1>1, <1>2, <2>1 DEF SaveTicket
    <3> QED
      BY <1>1, <3>3, <3>4
  <2>2. CASE worker[w].order # o
    BY <1>1, <1>2, <2>2 DEF SaveTicket
  <2> QED
    BY <2>1, <2>2
<1>3. ASSUME NEW w \in Workers, OpenTicket(w)
      PROVE  tickets'[o][t] = tickets[o][t]
  <2> DEFINE row == [status |-> "pending", chat |-> stallChat, msg |-> 0]
  <2>1. tickets'[o] = Append(tickets[o], row) \/ tickets'[o] = tickets[o]
    BY <1>1, <1>3 DEF OpenTicket
  <2> HIDE DEF row
  <2> QED
    BY <1>1, <2>1
<1>4. ASSUME NEW h \in Handlers, CompleteTicket(h), tickets' # tickets
      PROVE  tickets'[o][t] = tickets[o][t]
  <2>1. /\ handler[h].order \in Orders
        /\ tickets[handler[h].order][handler[h].ticket].status = "sent"
        /\ tickets' = [tickets EXCEPT ![handler[h].order] =
               [tickets[handler[h].order] EXCEPT ![handler[h].ticket] =
                    [tickets[handler[h].order][handler[h].ticket] EXCEPT !.status = "done"]]]
    BY <1>1, <1>4 DEF CompleteTicket, Completes, TypeInv, HandlerRefs
  <2>2. CASE handler[h].order = o
    BY <1>1, <2>1, <2>2
  <2>3. CASE handler[h].order # o
    BY <1>1, <2>1, <2>3
  <2> QED
    BY <2>2, <2>3
<1>5. CASE \E w \in Workers : WorkerStep(w) \/ DatabaseFault(w) \/ Crash(w)
  <2>1. PICK w \in Workers : WorkerStep(w) \/ DatabaseFault(w) \/ Crash(w)
    BY <1>5
  <2>2. CASE FailPendingTicket(w) \/ SaveSent(w) \/ SaveFailed(w)
    BY <1>2, <2>2 DEF FailPendingTicket, SaveSent, SaveFailed, HoldsRow
  <2>3. CASE OpenTicket(w)
    BY <1>3, <2>3
  <2>4. CASE UNCHANGED tickets
    BY <2>4
  <2> QED
    BY <2>1, <2>2, <2>3, <2>4
    DEF WorkerStep, Inspect, LookupTicket, SkipDispatch, SendAcknowledged,
        SendAnswerLost, SendRejected, ReloadChat, SaveRefused, MarkSent, MarkFailed,
        DatabaseFault, Crash
<1>6. CASE UNCHANGED tickets
  BY <1>6
<1> QED
  BY <1>4, <1>5, <1>6
  DEF Next, OrderEvent, ConfirmPayment, LeaseExpires, BackoffEnds, Claim, RetryCheck,
      TapDone, RequeueJob, EditDone, ReconnectChat

\* A ticket the cook has completed is never written again, under the same
\* condition.
THEOREM CompletedTicketStays == Spec => DoneIsFinal
<1>1. DeliveryInv /\ [Next]_vars =>
          [budget.slow = MaxSlow =>
             \A o \in Orders : \A t \in DOMAIN tickets[o] :
                 tickets[o][t].status = "done" => tickets'[o][t] = tickets[o][t]]_vars
  BY DoneRowsStay DEF DeliveryInv, ExclusiveInv
<1> QED
  BY <1>1, DeliveryInit, DeliveryStep, PTL DEF Spec, DoneIsFinal
-----------------------------------------------------------------------------
(* Tickets and the messages they name; no condition on the locks. *)

ShownFor(o, i) == \E m \in DOMAIN kitchen : kitchen[m].order = o /\ kitchen[m].id = i

\* The row says no more than Telegram shows.
RowShown(o, row) ==
    /\ row.status \in {"sent", "done"} => ShownFor(o, row.msg)
    /\ row.status = "done" =>
           \E m \in DOMAIN kitchen : /\ kitchen[m].order = o
                                     /\ kitchen[m].chat = row.chat
                                     /\ kitchen[m].id = row.msg

\* A worker that has an answer has the id of a message of its order, and a request
\* that completes a ticket was made from a message of that order.
MessageInv ==
    /\ TypeInv
    /\ \A o \in Orders : \A t \in DOMAIN tickets[o] : RowShown(o, tickets[o][t])
    /\ \A w \in Workers :
          /\ worker[w].pc \in {"reload", "save_sent"} =>
                 ShownFor(worker[w].order, worker[w].msg)
          /\ worker[w].pc = "save_sent" => worker[w].chat # NoOne
    /\ \A h \in Handlers : handler[h].pc = "complete" =>
          kitchen[handler[h].message].order = handler[h].order

\* Telegram only adds messages and changes buttons.
MessagesStay ==
    /\ DOMAIN kitchen \subseteq DOMAIN kitchen'
    /\ \A m \in DOMAIN kitchen : /\ kitchen'[m].order = kitchen[m].order
                                 /\ kitchen'[m].chat = kitchen[m].chat
                                 /\ kitchen'[m].id = kitchen[m].id

LEMMA KitchenGrows == TypeInv /\ [Next]_vars => MessagesStay
<1> SUFFICES ASSUME TypeInv, [Next]_vars PROVE MessagesStay
  OBVIOUS
<1>1. kitchen \in Seq(Message) /\ DOMAIN kitchen = 1..Len(kitchen)
  BY DEF TypeInv, TypeOK
<1>2. ASSUME NEW w \in Workers, Deliver(w) PROVE MessagesStay
  <2> DEFINE m == [order |-> worker[w].order, chat |-> InHand(w).chat,
                   id |-> NextId(InHand(w).chat), button |-> TRUE]
  <2>1. kitchen' = Append(kitchen, m)
    BY <1>2 DEF Deliver
  <2> HIDE DEF m
  <2>2. /\ DOMAIN kitchen' = 1..Len(kitchen) + 1
        /\ \A n \in 1..Len(kitchen) : kitchen'[n] = kitchen[n]
    BY <1>1, <2>1
  <2> QED
    BY <1>1, <2>2 DEF MessagesStay
<1>3. ASSUME NEW h \in Handlers, EditDone(h) PROVE MessagesStay
  <2>1. CASE kitchen' = [kitchen EXCEPT ![handler[h].message].button = FALSE]
    <3>1. DOMAIN kitchen' = DOMAIN kitchen
      BY <2>1
    <3>2. ASSUME NEW m \in DOMAIN kitchen
          PROVE  /\ kitchen'[m].order = kitchen[m].order
                 /\ kitchen'[m].chat = kitchen[m].chat
                 /\ kitchen'[m].id = kitchen[m].id
      <4>1. kitchen[m] \in Message
        BY <1>1
      <4>2. kitchen'[m] = kitchen[m] \/ kitchen'[m] = [kitchen[m] EXCEPT !.button = FALSE]
        BY <2>1
      <4> QED
        BY <4>1, <4>2 DEF Message
    <3> QED
      BY <3>1, <3>2 DEF MessagesStay
  <2>2. CASE UNCHANGED kitchen
    BY <2>2 DEF MessagesStay
  <2> QED
    BY <1>3, <2>1, <2>2 DEF EditDone
<1>4. CASE UNCHANGED kitchen
  BY <1>4 DEF MessagesStay
<1>5. ASSUME NEW w \in Workers, WorkerStep(w) PROVE MessagesStay
  BY <1>2, <1>4, <1>5
  DEF WorkerStep, Inspect, FailPendingTicket, LookupTicket, OpenTicket, SkipDispatch,
      SendAcknowledged, SendAnswerLost, SendRejected, ReloadChat, SaveSent, SaveFailed,
      SaveRefused, MarkSent, MarkFailed
<1> QED
  BY <1>3, <1>4, <1>5
  DEF Next, vars, OrderEvent, ConfirmPayment, LeaseExpires, BackoffEnds, Claim,
      DatabaseFault, Crash, RetryCheck, TapDone, RequeueJob, CompleteTicket, ReconnectChat

LEMMA ShownStays ==
    ASSUME MessagesStay, NEW o, NEW i, ShownFor(o, i)
    PROVE  \E m \in DOMAIN kitchen' : kitchen'[m].order = o /\ kitchen'[m].id = i
BY DEF MessagesStay, ShownFor

LEMMA RowShownStays ==
    ASSUME MessagesStay, NEW o, NEW row, RowShown(o, row)
    PROVE  RowShown(o, row)'
BY DEF MessagesStay, RowShown, ShownFor

\* Every row after a step is an old one or one that says what is shown.
LEMMA RowsWritten ==
    ASSUME MessageInv, [Next]_vars, NEW o \in Orders, NEW t \in DOMAIN tickets'[o],
           NEW r, r = tickets'[o][t]
    PROVE  RowShown(o, r)
<1>1. /\ TypeInv /\ tickets \in [Orders -> Seq(TicketRow)]
      /\ tickets[o] \in Seq(TicketRow) /\ DOMAIN tickets[o] = 1..Len(tickets[o])
  BY DEF MessageInv, TypeInv, TypeOK
<1>2. CASE t \in DOMAIN tickets[o] /\ r = tickets[o][t]
  BY <1>2 DEF MessageInv
<1>3. ASSUME NEW w \in Workers, worker[w].pc \in HoldsRow, NEW row, SaveTicket(w, row),
             \A p : p = worker[w].order => RowShown(p, row)
      PROVE  RowShown(o, r)
  <2>1. /\ worker[w].order \in Orders
        /\ tickets' = [tickets EXCEPT ![worker[w].order] =
               [tickets[worker[w].order] EXCEPT ![worker[w].ticket] = row]]
    BY <1>1, <1>3 DEF SaveTicket, TypeInv, WorkerRefs, HoldsRow
  <2>2. CASE worker[w].order = o
    <3>1. t \in DOMAIN tickets[o] /\ (r = row \/ r = tickets[o][t])
      BY <1>1, <2>1, <2>2
    <3> QED
      BY <1>2, <1>3, <2>2, <3>1
  <2>3. CASE worker[w].order # o
    <3>1. t \in DOMAIN tickets[o] /\ r = tickets[o][t]
      BY <1>1, <2>1, <2>3
    <3> QED
      BY <1>2, <3>1
  <2> QED
    BY <2>2, <2>3
<1>4. ASSUME NEW w \in Workers, FailPendingTicket(w) \/ SaveSent(w) \/ SaveFailed(w)
      PROVE  RowShown(o, r)
  <2>1. worker[w].pc \in HoldsRow
    BY <1>4 DEF FailPendingTicket, SaveSent, SaveFailed, HoldsRow
  <2>2. InHand(w) \in TicketRow
    BY <1>1, <2>1, InHandType
  <2>3. CASE FailPendingTicket(w)
    <3>1. PICK row : SaveTicket(w, row) /\ row.status = "failed"
      BY <2>2, <2>3 DEF FailPendingTicket, TicketRow
    <3> QED
      BY <1>3, <2>1, <3>1 DEF RowShown
  <2>4. CASE SaveFailed(w)
    <3>1. RowWith(w, "failed").status = "failed"
      BY <2>2 DEF RowWith, TicketRow
    <3>2. PICK row : SaveTicket(w, row) /\ row.status = "failed"
      BY <2>4, <3>1 DEF SaveFailed
    <3> QED
      BY <1>3, <2>1, <3>2 DEF RowShown
  <2>5. CASE SaveSent(w)
    <3>1. worker[w].chat # NoOne /\ ShownFor(worker[w].order, worker[w].msg)
      BY <2>5 DEF SaveSent, MessageInv
    <3>2. RowWith(w, "sent").status = "sent" /\ RowWith(w, "sent").msg = worker[w].msg
      BY <3>1 DEF RowWith
    <3>3. PICK row : SaveTicket(w, row) /\ row.status = "sent" /\ row.msg = worker[w].msg
      BY <2>5, <3>2 DEF SaveSent
    <3> QED
      BY <1>3, <2>1, <3>1, <3>3 DEF RowShown
  <2> QED
    BY <1>4, <2>3, <2>4, <2>5
<1>5. ASSUME NEW w \in Workers, OpenTicket(w) PROVE RowShown(o, r)
  <2> DEFINE new == [status |-> "pending", chat |-> stallChat, msg |-> 0]
  <2>1. tickets'[o] = Append(tickets[o], new) \/ tickets'[o] = tickets[o]
    BY <1>1, <1>5 DEF OpenTicket
  <2>2. new.status = "pending"
    OBVIOUS
  <2> HIDE DEF new
  <2>3. r = new \/ (t \in DOMAIN tickets[o] /\ r = tickets[o][t])
    BY <1>1, <2>1
  <2>4. CASE r = new
    BY <2>2, <2>4 DEF RowShown
  <2> QED
    BY <1>2, <2>3, <2>4
<1>6. CASE UNCHANGED tickets
  BY <1>2, <1>6
<1>7. ASSUME NEW h \in Handlers, CompleteTicket(h), tickets' # tickets
      PROVE  RowShown(o, r)
  <2>1. PICK p, k, m : p = handler[h].order /\ k = handler[h].ticket /\ m = handler[h].message
    OBVIOUS
  <2>2. /\ p \in Orders /\ k \in DOMAIN tickets[p] /\ tickets[p][k] \in TicketRow
        /\ m \in DOMAIN kitchen /\ kitchen[m].order = p
        /\ tickets[p][k].chat = kitchen[m].chat /\ tickets[p][k].msg = kitchen[m].id
        /\ tickets' = [tickets EXCEPT ![p] =
               [tickets[p] EXCEPT ![k] = [tickets[p][k] EXCEPT !.status = "done"]]]
    <3>1. handler[h].pc = "complete" /\ Completes(h)
      BY <1>7 DEF CompleteTicket
    <3>2. /\ p \in Orders /\ k \in 1..Len(tickets[p]) /\ m \in 1..Len(kitchen)
          /\ tickets[p] \in Seq(TicketRow) /\ kitchen \in Seq(Message)
      BY <1>1, <2>1, <3>1 DEF TypeInv, TypeOK, HandlerRefs
    <3>3. kitchen[m].order = p
      BY <2>1, <3>1 DEF MessageInv
    <3>4. tickets[p][k].chat = kitchen[m].chat /\ tickets[p][k].msg = kitchen[m].id
      BY <2>1, <3>1 DEF Completes, TicketMatches
    <3>5. tickets' = [tickets EXCEPT ![p] =
               [tickets[p] EXCEPT ![k] = [tickets[p][k] EXCEPT !.status = "done"]]]
      BY <1>1, <1>7, <2>1, <3>1, <3>2 DEF CompleteTicket
    <3> QED
      BY <3>2, <3>3, <3>4, <3>5
  <2>3. PICK row : /\ row = [tickets[p][k] EXCEPT !.status = "done"]
                   /\ row.chat = kitchen[m].chat /\ row.msg = kitchen[m].id
    <3> WITNESS [tickets[p][k] EXCEPT !.status = "done"]
    <3> QED
      BY <2>2 DEF TicketRow
  <2>4. RowShown(p, row)
    BY <2>2, <2>3 DEF RowShown, ShownFor
  <2>5. CASE p = o
    <3>1. t \in DOMAIN tickets[o] /\ (r = row \/ r = tickets[o][t])
      BY <1>1, <2>2, <2>3, <2>5
    <3> QED
      BY <1>2, <2>4, <2>5, <3>1
  <2>6. CASE p # o
    BY <1>1, <1>2, <2>2, <2>6
  <2> QED
    BY <2>5, <2>6
<1>8. ASSUME NEW w \in Workers, WorkerStep(w) PROVE RowShown(o, r)
  BY <1>4, <1>5, <1>6, <1>8
  DEF WorkerStep, Inspect, LookupTicket, SkipDispatch, SendAcknowledged,
      SendAnswerLost, SendRejected, ReloadChat, SaveRefused, MarkSent, MarkFailed
<1> QED
  BY <1>6, <1>7, <1>8
  DEF Next, vars, OrderEvent, ConfirmPayment, LeaseExpires, BackoffEnds, Claim,
      DatabaseFault, Crash, RetryCheck, TapDone, RequeueJob, EditDone, ReconnectChat

\* The answers workers hold.
AnswerShown(w) ==
    /\ worker[w].pc \in {"reload", "save_sent"} =>
           ShownFor(worker[w].order, worker[w].msg)
    /\ worker[w].pc = "save_sent" => worker[w].chat # NoOne

LEMMA AnswerStays ==
    ASSUME MessagesStay, NEW v \in Workers, AnswerShown(v), worker'[v] = worker[v]
    PROVE  AnswerShown(v)'
BY DEF MessagesStay, AnswerShown, ShownFor

LEMMA AnswersKept ==
    ASSUME MessageInv, MessagesStay, [Next]_vars, NEW v \in Workers
    PROVE  AnswerShown(v)'
<1>1. AnswerShown(v) /\ TypeInv /\ worker \in [Workers -> WorkerMemory]
  BY DEF MessageInv, AnswerShown, TypeInv, TypeOK
<1>2. CASE worker'[v] = worker[v]
  BY <1>1, <1>2, AnswerStays
<1>3. CASE worker'[v].pc \notin {"reload", "save_sent"}
  BY <1>3 DEF AnswerShown
<1>4. CASE SendAcknowledged(v)
  <2> DEFINE c == InHand(v).chat
             m == [order |-> worker[v].order, chat |-> c, id |-> NextId(c), button |-> TRUE]
  <2>1. /\ worker'[v].pc = "reload" /\ worker'[v].order = worker[v].order
        /\ worker'[v].msg = NextId(c)
    BY <1>1, <1>4 DEF SendAcknowledged, WorkerMemory
  <2>2. kitchen' = Append(kitchen, m) /\ kitchen \in Seq(Message)
    BY <1>1, <1>4 DEF SendAcknowledged, Deliver, TypeInv, TypeOK
  <2>3. m.order = worker[v].order /\ m.id = NextId(c)
    OBVIOUS
  <2> HIDE DEF m, c
  <2>4. Len(kitchen) + 1 \in DOMAIN kitchen' /\ kitchen'[Len(kitchen) + 1] = m
    BY <2>2
  <2>5. \E n \in DOMAIN kitchen' : /\ kitchen'[n].order = worker'[v].order
                                   /\ kitchen'[n].id = worker'[v].msg
    BY <2>1, <2>3, <2>4
  <2> QED
    BY <2>1, <2>5 DEF AnswerShown, ShownFor
<1>5. CASE ReloadChat(v)
  <2>1. InHand(v) \in TicketRow /\ worker[v].pc = "reload"
    BY <1>1, <1>5, InHandType DEF ReloadChat, HoldsRow
  <2> DEFINE c == IF HasKitchenChat THEN stallChat ELSE InHand(v).chat
  <2>2. c # NoOne
    BY <2>1, NoOneAssumption DEF HasKitchenChat, TicketRow
  <2>3. /\ worker'[v].order = worker[v].order /\ worker'[v].msg = worker[v].msg
        /\ worker'[v].chat = c
    BY <1>1, <1>5 DEF ReloadChat, WorkerMemory
  <2> HIDE DEF c
  <2>4. ShownFor(worker[v].order, worker[v].msg)
    BY <1>1, <2>1 DEF AnswerShown
  <2>5. \E n \in DOMAIN kitchen' : /\ kitchen'[n].order = worker'[v].order
                                   /\ kitchen'[n].id = worker'[v].msg
    BY <2>3, <2>4 DEF MessagesStay, ShownFor
  <2> QED
    BY <2>2, <2>3, <2>5 DEF AnswerShown, ShownFor
<1>6. ASSUME NEW w \in Workers, WorkerStep(w) \/ DatabaseFault(w) \/ Crash(w)
      PROVE  AnswerShown(v)'
  <2>1. CASE w # v
    <3>1. worker'[v] = worker[v]
      BY <1>1, <1>6, <2>1
      DEF WorkerStep, Inspect, FailPendingTicket, LookupTicket, OpenTicket, SkipDispatch,
          SendAcknowledged, SendAnswerLost, SendRejected, ReloadChat, SaveSent, SaveFailed,
          SaveRefused, MarkSent, MarkFailed, DatabaseFault, Crash, Goto, Rest, NextTry
    <3> QED
      BY <1>2, <3>1
  <2>2. CASE w = v /\ \E pc : Goto(v, pc) /\ pc \notin {"reload", "save_sent"}
    <3>1. worker'[v].pc \notin {"reload", "save_sent"}
      BY <1>1, <2>2 DEF Goto, WorkerMemory
    <3> QED
      BY <1>3, <3>1
  <2>3. CASE w = v /\ Rest(v)
    BY <1>1, <1>3, <2>3 DEF Rest, IdleWorker
  <2>4. CASE w = v /\ NextTry(v) /\ worker[v].pc = "calling"
    <3>1. worker'[v].pc \notin {"reload", "save_sent"}
      BY <1>1, <2>4 DEF NextTry, WorkerMemory
    <3> QED
      BY <1>3, <3>1
  <2>5. CASE w = v /\ Inspect(v)
    <3>1. worker'[v].pc = NextStep(worker[v].order)
      BY <1>1, <2>5 DEF Inspect, WorkerMemory
    <3> QED
      BY <1>3, <3>1 DEF NextStep
  <2>6. CASE w = v /\ OpenTicket(v)
    BY <1>1, <1>3, <2>6 DEF OpenTicket, WorkerMemory
  <2>7. CASE w = v /\ LookupTicket(v)
    <3>1. LookupOutcome(v) \notin {"reload", "save_sent"}
      BY DEF LookupOutcome
    <3> QED
      BY <2>2, <2>7, <3>1 DEF LookupTicket
  <2>8. CASE w = v /\ (SaveRefused(v) \/ DatabaseFault(v))
    <3>1. FaultTarget(worker[v].pc) \notin {"reload", "save_sent"}
      BY DEF FaultTarget
    <3> QED
      BY <2>2, <2>3, <2>8, <3>1 DEF SaveRefused, DatabaseFault
  <2> QED
    BY <1>4, <1>5, <1>6, <2>1, <2>2, <2>3, <2>4, <2>5, <2>6, <2>7, <2>8
    DEF WorkerStep, FailPendingTicket, SkipDispatch, SendAnswerLost, SendRejected,
        SaveSent, SaveFailed, MarkSent, MarkFailed, Crash
<1>7. ASSUME NEW w \in Workers, NEW o \in Orders, Claim(w, o) PROVE AnswerShown(v)'
  <2>1. worker'[v] = worker[v] \/ worker'[v].pc = "claimed"
    BY <1>1, <1>7 DEF Claim, IdleWorker
  <2> QED
    BY <1>2, <1>3, <2>1
<1>8. CASE UNCHANGED worker
  BY <1>2, <1>8
<1> QED
  BY <1>6, <1>7, <1>8
  DEF Next, vars, OrderEvent, ConfirmPayment, LeaseExpires, BackoffEnds, RetryCheck,
      TapDone, RequeueJob, CompleteTicket, EditDone, ReconnectChat

LEMMA TapsKept ==
    ASSUME MessageInv, MessagesStay, [Next]_vars, NEW g \in Handlers,
           handler'[g].pc = "complete"
    PROVE  kitchen'[handler'[g].message].order = handler'[g].order
<1>1. TypeInv /\ handler \in [Handlers -> HandlerMemory]
  BY DEF MessageInv, TypeInv, TypeOK
<1>2. CASE handler'[g] = handler[g]
  <2>1. kitchen[handler[g].message].order = handler[g].order
    BY <1>2 DEF MessageInv
  <2>2. handler[g].message \in DOMAIN kitchen
    BY <1>1, <1>2 DEF TypeInv, TypeOK, HandlerRefs
  <2> QED
    BY <1>2, <2>1, <2>2 DEF MessagesStay
<1>3. ASSUME NEW h \in Handlers, NEW m \in DOMAIN kitchen, TapDone(h, m)
      PROVE  kitchen'[handler'[g].message].order = handler'[g].order
  <2>1. PICK t : handler' = [handler EXCEPT ![h] =
            [pc |-> "complete", order |-> kitchen[m].order, ticket |-> t, message |-> m]]
    BY <1>3 DEF TapDone
  <2>2. CASE g = h
    <3>1. handler'[g].message = m /\ handler'[g].order = kitchen[m].order
      BY <1>1, <2>1, <2>2
    <3> QED
      BY <1>3, <3>1 DEF TapDone
  <2>3. CASE g # h
    BY <1>1, <1>2, <2>1, <2>3
  <2> QED
    BY <2>2, <2>3
<1>4. ASSUME NEW h \in Handlers, RequeueJob(h) \/ CompleteTicket(h) \/ EditDone(h)
      PROVE  handler'[g] = handler[g]
  <2>1. CASE EndRequest(h)
    BY <1>1, <2>1 DEF EndRequest, IdleHandler
  <2>2. CASE handler' = [handler EXCEPT ![h].pc = "edit"]
    BY <1>1, <2>2 DEF HandlerMemory
  <2> QED
    BY <1>4, <2>1, <2>2 DEF RequeueJob, CompleteTicket, EditDone
<1>5. ASSUME NEW h \in Handlers, NEW o \in Orders, RetryCheck(h, o)
      PROVE  handler'[g] = handler[g]
  <2>1. g # h
    BY <1>1, <1>5 DEF RetryCheck, HandlerMemory
  <2> QED
    BY <1>1, <1>5, <2>1 DEF RetryCheck
<1>6. ASSUME NEW w \in Workers, WorkerStep(w) \/ DatabaseFault(w) \/ Crash(w)
      PROVE  UNCHANGED handler
  BY <1>6 DEF WorkerStep, Inspect, FailPendingTicket, LookupTicket, OpenTicket,
     SkipDispatch, SendAcknowledged, SendAnswerLost, SendRejected, ReloadChat, SaveSent,
     SaveFailed, SaveRefused, MarkSent, MarkFailed, DatabaseFault, Crash
<1> QED
  BY <1>2, <1>3, <1>4, <1>5, <1>6
  DEF Next, vars, OrderEvent, ConfirmPayment, LeaseExpires, BackoffEnds, Claim, ReconnectChat

LEMMA MessageInit == Init => MessageInv
<1> SUFFICES ASSUME Init PROVE MessageInv
  OBVIOUS
<1>1. TypeInv
  BY TypeInit
<1>2. /\ \A o \in Orders : DOMAIN tickets[o] = {}
      /\ \A w \in Workers : worker[w].pc = "idle"
      /\ \A h \in Handlers : handler[h].pc = "idle"
  BY DEF Init, IdleWorker, IdleHandler
<1> QED
  BY <1>1, <1>2 DEF MessageInv

LEMMA MessageStep == MessageInv /\ [Next]_vars => MessageInv'
<1> SUFFICES ASSUME MessageInv, [Next]_vars PROVE MessageInv'
  OBVIOUS
<1>1. TypeInv' /\ MessagesStay
  BY TypeStep, KitchenGrows DEF MessageInv
<1>2. ASSUME NEW o \in Orders, NEW t \in DOMAIN tickets'[o]
      PROVE  RowShown(o, tickets[o][t])'
  <2>1. PICK r : r = tickets'[o][t]
    OBVIOUS
  <2>2. RowShown(o, r)
    BY <2>1, RowsWritten
  <2>3. RowShown(o, r)'
    BY <1>1, <2>2, RowShownStays
  <2> QED
    BY <2>1, <2>3 DEF RowShown, ShownFor
<1>3. \A w \in Workers : AnswerShown(w)'
  BY <1>1, AnswersKept
<1>4. \A h \in Handlers : handler'[h].pc = "complete" =>
          kitchen'[handler'[h].message].order = handler'[h].order
  BY <1>1, TapsKept
<1> QED
  BY <1>1, <1>2, <1>3, <1>4 DEF MessageInv, AnswerShown

\* Whatever goes wrong, outlasted locks and changes of group included: a ticket
\* recorded as sent names a message of its order that Telegram shows.
THEOREM SentTicketsAreShown == Spec => []SentTicketShown
<1>1. MessageInv => SentTicketShown
  BY DEF MessageInv, RowShown, ShownFor, SentTicketShown
<1> QED
  BY <1>1, MessageInit, MessageStep, PTL DEF Spec

\* And a ticket is completed only from the message it names, in the chat it names.
THEOREM DoneTicketsWereTapped == Spec => []DoneFromItsMessage
<1>1. MessageInv => DoneFromItsMessage
  BY DEF MessageInv, RowShown, DoneFromItsMessage
<1> QED
  BY <1>1, MessageInit, MessageStep, PTL DEF Spec
-----------------------------------------------------------------------------
(* The attempt limit. *)

Unattended(o) == \A w \in Workers : ~WorkingOn(w, o)

\* A job that may be claimed again, now or when its lock expires, has an attempt
\* to spare; n is the number of interruptions so far.
RowCounted(o, n) ==
    /\ job[o].attempts <= MaxAttempts + n
    /\ \/ job[o].status \in {"pending", "retry"}
       \/ job[o].status = "processing" /\ Unattended(o)
       => job[o].attempts < MaxAttempts + n

\* A worker knows the attempt it is.
WorkerCounted(w) ==
    worker[w].pc # "idle" => worker[w].attempts = job[worker[w].order].attempts

AllCounted == /\ \A o \in Orders : RowCounted(o, Interruptions)
              /\ \A w \in Workers : WorkerCounted(w)

AttemptInv == /\ ExclusiveInv
              /\ Interruptions >= 0
              /\ budget.slow = MaxSlow => AllCounted

LEMMA InterruptionsGrow ==
    ASSUME TypeInv, [Next]_vars
    PROVE  /\ Interruptions \in Int /\ Interruptions' \in Int
           /\ Interruptions' >= Interruptions
           /\ \A w \in Workers : (Crash(w) \/ DatabaseFault(w)) =>
                 Interruptions' = Interruptions + 1
<1>1. budget \in Budget /\ budget' \in Budget
  BY TypeStep DEF TypeInv, TypeOK
<1>2. /\ budget.crashes \in Int /\ budget.faults \in Int /\ budget.slow \in Int
      /\ budget'.crashes \in Int /\ budget'.faults \in Int /\ budget'.slow \in Int
  BY <1>1 DEF Budget
<1>3. budget'.slow <= budget.slow
  BY SlowFalls
<1>4. ASSUME NEW w \in Workers, Crash(w)
      PROVE  /\ budget'.crashes = budget.crashes - 1 /\ budget'.faults = budget.faults
             /\ budget'.slow = budget.slow
  BY <1>1, <1>4 DEF Crash, Budget
<1>5. ASSUME NEW w \in Workers, DatabaseFault(w)
      PROVE  /\ budget'.faults = budget.faults - 1 /\ budget'.crashes = budget.crashes
             /\ budget'.slow = budget.slow
  BY <1>1, <1>5 DEF DatabaseFault, Budget
<1>6. budget'.crashes <= budget.crashes /\ budget'.faults <= budget.faults
  <2>1. CASE UNCHANGED budget
    BY <1>2, <2>1
  <2>2. ASSUME NEW w \in Workers, WorkerStep(w) PROVE UNCHANGED budget
    BY <2>2 DEF WorkerStep, Inspect, FailPendingTicket, LookupTicket, OpenTicket,
       SkipDispatch, SendAcknowledged, SendAnswerLost, SendRejected, ReloadChat,
       SaveSent, SaveFailed, SaveRefused, MarkSent, MarkFailed
  <2>3. ASSUME NEW o \in Orders, LeaseExpires(o)
        PROVE  budget'.crashes = budget.crashes /\ budget'.faults = budget.faults
    BY <1>1, <2>3 DEF LeaseExpires, Budget
  <2>4. ASSUME NEW h \in Handlers, NEW o \in Orders, RetryCheck(h, o)
        PROVE  budget'.crashes = budget.crashes /\ budget'.faults = budget.faults
    BY <1>1, <2>4 DEF RetryCheck, Budget
  <2>5. ASSUME NEW c \in Chats, ReconnectChat(c)
        PROVE  budget'.crashes = budget.crashes /\ budget'.faults = budget.faults
    BY <1>1, <2>5 DEF ReconnectChat, Budget
  <2>6. \/ UNCHANGED budget
        \/ \E o \in Orders : LeaseExpires(o)
        \/ \E w \in Workers : DatabaseFault(w) \/ Crash(w)
        \/ \E h \in Handlers, o \in Orders : RetryCheck(h, o)
        \/ \E c \in Chats : ReconnectChat(c)
    BY <2>2 DEF vars, Next, OrderEvent, ConfirmPayment, BackoffEnds, Claim, TapDone,
       RequeueJob, CompleteTicket, EditDone
  <2>7. ASSUME NEW w \in Workers, DatabaseFault(w) \/ Crash(w)
        PROVE  budget'.crashes <= budget.crashes /\ budget'.faults <= budget.faults
    BY <1>2, <1>4, <1>5, <2>7
  <2> QED
    BY <1>2, <2>1, <2>3, <2>4, <2>5, <2>6, <2>7
<1> QED
  BY <1>2, <1>3, <1>4, <1>5, <1>6, BoundsAssumption DEF Interruptions

\* Steps after which the same jobs are unattended.
LEMMA CountSame ==
    ASSUME TypeInv, AllCounted, NEW n \in Int, n >= Interruptions, Interruptions \in Int,
           NEW p \in Orders, job'[p].attempts = job[p].attempts,
           job'[p].status = job[p].status, Unattended(p)' => Unattended(p)
    PROVE  RowCounted(p, n)'
<1>1. RowCounted(p, Interruptions) /\ job[p].attempts \in Nat
  BY DEF AllCounted, TypeInv, TypeOK, JobRow
<1> QED
  BY <1>1, MaxAttemptsAssumption DEF RowCounted

LEMMA ClaimCounted ==
    ASSUME TypeInv, AllHold, AllCounted, NEW n \in Int, n >= Interruptions,
           Interruptions \in Int, NEW w \in Workers, NEW o \in Orders, Claim(w, o)
    PROVE  /\ \A p \in Orders : RowCounted(p, n)'
           /\ \A v \in Workers : WorkerCounted(v)'
<1>1. /\ worker[w].pc = "idle" /\ job \in [Orders -> JobRow]
      /\ worker \in [Workers -> WorkerMemory] /\ job[o].attempts \in Nat
  BY DEF Claim, TypeInv, TypeOK, JobRow
<1>2. Unattended(o) /\ job[o].attempts < MaxAttempts + Interruptions
  BY DEF Claim, Claimable, AllHold, Holds, Unattended, AllCounted, RowCounted
<1>3. /\ job'[o].attempts = job[o].attempts + 1 /\ job'[o].status = "processing"
      /\ \A p \in Orders : p # o => job'[p] = job[p]
  BY <1>1 DEF Claim, JobRow
<1>4. /\ worker'[w].pc = "claimed" /\ worker'[w].order = o
      /\ worker'[w].attempts = job[o].attempts + 1
      /\ \A v \in Workers : v # w => worker'[v] = worker[v]
  BY <1>1 DEF Claim, IdleWorker
<1>5. ASSUME NEW p \in Orders PROVE RowCounted(p, n)'
  <2>1. CASE p = o
    <3>1. ~Unattended(o)'
      BY <1>4 DEF Unattended, WorkingOn
    <3> QED
      BY <1>1, <1>2, <1>3, <2>1, <3>1, MaxAttemptsAssumption DEF RowCounted
  <2>2. CASE p # o
    <3>1. Unattended(p)' => Unattended(p)
      BY <1>1, <1>4 DEF Unattended, WorkingOn
    <3> QED
      BY <1>3, <2>2, <3>1, CountSame
  <2> QED
    BY <2>1, <2>2
<1>6. ASSUME NEW v \in Workers PROVE WorkerCounted(v)'
  <2>1. CASE v = w
    BY <1>3, <1>4, <2>1 DEF WorkerCounted
  <2>2. CASE v # w
    <3>1. worker[v].pc # "idle" => worker[v].order \in Orders /\ worker[v].order # o
      BY <1>2 DEF TypeInv, WorkerRefs, Unattended, WorkingOn
    <3> QED
      BY <1>3, <1>4, <2>2, <3>1 DEF WorkerCounted, AllCounted
  <2> QED
    BY <2>1, <2>2
<1> QED
  BY <1>5, <1>6

\* A worker step that stays on its order and writes no job.
LEMMA StayCounted ==
    ASSUME TypeInv, AllCounted, NEW n \in Int, n >= Interruptions, Interruptions \in Int,
           NEW w \in Workers, worker[w].pc # "idle", UNCHANGED job,
           NEW new, worker' = [worker EXCEPT ![w] = new], new.pc # "idle",
           new.order = worker[w].order, new.attempts = worker[w].attempts
    PROVE  /\ \A p \in Orders : RowCounted(p, n)'
           /\ \A v \in Workers : WorkerCounted(v)'
<1>1. \A v \in Workers : worker'[v] = IF v = w THEN new ELSE worker[v]
  BY DEF TypeInv, TypeOK
<1>2. ASSUME NEW p \in Orders, Unattended(p)' PROVE Unattended(p)
  BY <1>1, <1>2 DEF Unattended, WorkingOn
<1>3. ASSUME NEW p \in Orders PROVE RowCounted(p, n)'
  BY <1>2, CountSame
<1>4. ASSUME NEW v \in Workers PROVE WorkerCounted(v)'
  BY <1>1 DEF WorkerCounted, AllCounted
<1> QED
  BY <1>3, <1>4

\* A worker that goes to rest, its job recorded or not.
LEMMA RestCounted ==
    ASSUME TypeInv, AllHold, AllCounted, NEW n \in Int, n >= Interruptions,
           Interruptions \in Int, NEW w \in Workers, worker[w].pc # "idle", Rest(w),
           NEW o \in Orders, o = worker[w].order,
           \A p \in Orders : p # o => job'[p] = job[p], RowCounted(o, n)'
    PROVE  /\ \A p \in Orders : RowCounted(p, n)'
           /\ \A v \in Workers : WorkerCounted(v)'
<1>1. worker'[w].pc = "idle" /\ \A v \in Workers : v # w => worker'[v] = worker[v]
  BY DEF Rest, IdleWorker, TypeInv, TypeOK
<1>2. ASSUME NEW p \in Orders PROVE RowCounted(p, n)'
  <2>1. CASE p = o
    BY <2>1
  <2>2. CASE p # o
    <3>1. Unattended(p)' => Unattended(p)
      BY <1>1, <2>2 DEF Unattended, WorkingOn
    <3> QED
      BY <2>2, <3>1, CountSame
  <2> QED
    BY <2>1, <2>2
<1>3. ASSUME NEW v \in Workers PROVE WorkerCounted(v)'
  <2>1. CASE v = w
    BY <1>1, <2>1 DEF WorkerCounted
  <2>2. CASE v # w
    <3>1. worker[v].pc # "idle" => worker[v].order \in Orders /\ worker[v].order # o
      <4>1. ASSUME worker[v].pc # "idle"
            PROVE  worker[v].order \in Orders /\ worker[v].order # o
        <5>1. worker[v].order \in Orders
          BY <4>1 DEF TypeInv, WorkerRefs
        <5>2. job[worker[v].order].lockedBy = v /\ job[o].lockedBy = w
          BY <4>1, <5>1 DEF AllHold, Holds, WorkingOn
        <5> QED
          BY <2>2, <5>1, <5>2
      <4> QED
        BY <4>1
    <3> QED
      BY <1>1, <2>2, <3>1 DEF WorkerCounted, AllCounted
  <2> QED
    BY <2>1, <2>2
<1> QED
  BY <1>2, <1>3

LEMMA WorkerStepCounted ==
    ASSUME TypeInv, AllHold, AllCounted, NEW n \in Int, n >= Interruptions,
           Interruptions \in Int, Interruptions >= 0, NEW w \in Workers,
           WorkerStep(w) \/ DatabaseFault(w) \/ Crash(w),
           DatabaseFault(w) \/ Crash(w) => n = Interruptions + 1
    PROVE  /\ \A p \in Orders : RowCounted(p, n)'
           /\ \A v \in Workers : WorkerCounted(v)'
<1>1. worker[w].pc # "idle" /\ worker[w] \in WorkerMemory /\ job \in [Orders -> JobRow]
  BY DEF WorkerStep, Inspect, FailPendingTicket, LookupTicket, OpenTicket, SkipDispatch,
     SendAcknowledged, SendAnswerLost, SendRejected, ReloadChat, SaveSent, SaveFailed,
     SaveRefused, MarkSent, MarkFailed, DatabaseFault, Crash, TypeInv, TypeOK
<1>2. PICK o \in Orders : o = worker[w].order
  BY <1>1 DEF TypeInv, WorkerRefs
<1>3. /\ job[o].attempts \in Nat /\ job[o].attempts <= MaxAttempts + Interruptions
      /\ worker[w].attempts = job[o].attempts /\ job[o].status = "processing"
  BY <1>1, <1>2, NotSent DEF AllCounted, RowCounted, WorkerCounted, JobRow
<1>4. ASSUME NEW s, SaveJob(w, s)
      PROVE  /\ \A p \in Orders : p # o => job'[p] = job[p]
             /\ job'[o].attempts = job[o].attempts /\ job'[o].status = s
  <2>1. job' = [job EXCEPT ![o] =
            [job[o] EXCEPT !.status = s, !.lockedBy = NoOne,
                           !.due = (s # "retry"), !.stale = FALSE]]
    BY <1>1, <1>2, <1>4 DEF SaveJob
  <2> QED
    BY <1>1, <2>1 DEF JobRow
<1>5. CASE MarkSent(w)
  <2>1. RowCounted(o, n)'
    BY <1>3, <1>4, <1>5, MaxAttemptsAssumption DEF MarkSent, RowCounted
  <2> QED
    BY <1>1, <1>2, <1>4, <1>5, <2>1, RestCounted DEF MarkSent
<1>6. CASE MarkFailed(w)
  <2>1. /\ job'[o].attempts = job[o].attempts
        /\ \/ job'[o].status = "failed"
           \/ job'[o].status = "retry" /\ job[o].attempts < MaxAttempts
    BY <1>3, <1>4, <1>6, MaxAttemptsAssumption DEF MarkFailed, ShouldStop
  <2>2. RowCounted(o, n)'
    BY <1>3, <2>1, MaxAttemptsAssumption DEF RowCounted
  <2> QED
    BY <1>1, <1>2, <1>4, <1>6, <2>2, RestCounted DEF MarkFailed
<1>7. CASE (DatabaseFault(w) \/ Crash(w)) /\ Rest(w)
  <2>1. UNCHANGED job
    BY <1>7 DEF DatabaseFault, Crash
  <2>2. RowCounted(o, n)'
    BY <1>3, <1>7, <2>1, MaxAttemptsAssumption DEF RowCounted
  <2> QED
    BY <1>1, <1>2, <1>7, <2>1, <2>2, RestCounted
<1>8. CASE ~(MarkSent(w) \/ MarkFailed(w) \/ Rest(w))
  <2>1. UNCHANGED job
    BY <1>8 DEF WorkerStep, Inspect, FailPendingTicket, LookupTicket, OpenTicket,
       SkipDispatch, SendAcknowledged, SendAnswerLost, SendRejected, ReloadChat,
       SaveSent, SaveFailed, SaveRefused, DatabaseFault, Crash
  <2>2. \E new : /\ worker' = [worker EXCEPT ![w] = new] /\ new.pc # "idle"
                 /\ new.order = worker[w].order /\ new.attempts = worker[w].attempts
    <3>1. worker \in [Workers -> WorkerMemory]
      BY DEF TypeInv, TypeOK
    <3>2. CASE Inspect(w)
      <4> WITNESS [worker[w] EXCEPT !.pc = NextStep(worker[w].order),
                       !.ticket = Len(tickets[worker[w].order]),
                       !.force = (tickets[worker[w].order] # << >>)]
      <4>1. NextStep(worker[w].order) # "idle"
        BY DEF NextStep
      <4> QED
        BY <1>1, <3>1, <3>2, <4>1 DEF Inspect, WorkerMemory
    <3>3. ASSUME NEW pc, pc # "idle", Goto(w, pc)
          PROVE  \E new : /\ worker' = [worker EXCEPT ![w] = new] /\ new.pc # "idle"
                          /\ new.order = worker[w].order
                          /\ new.attempts = worker[w].attempts
      <4> WITNESS [worker[w] EXCEPT !.pc = pc]
      <4> QED
        BY <1>1, <3>1, <3>3 DEF Goto, WorkerMemory
    <3>4. CASE OpenTicket(w)
      <4> WITNESS [worker[w] EXCEPT !.pc = "calling", !.try = 1,
                       !.ticket = Len(tickets[worker[w].order]) + 1]
      <4> QED
        BY <1>1, <3>1, <3>4 DEF OpenTicket, WorkerMemory
    <3>5. CASE SendAcknowledged(w)
      <4> WITNESS [worker[w] EXCEPT !.pc = "reload", !.msg = NextId(InHand(w).chat)]
      <4> QED
        BY <1>1, <3>1, <3>5 DEF SendAcknowledged, WorkerMemory
    <3>6. CASE NextTry(w)
      <4> WITNESS IF worker[w].try < ApiAttempts
                  THEN [worker[w] EXCEPT !.try = worker[w].try + 1]
                  ELSE [worker[w] EXCEPT !.pc = "save_failed"]
      <4> QED
        BY <1>1, <3>1, <3>6 DEF NextTry, WorkerMemory
    <3>7. CASE ReloadChat(w)
      <4> WITNESS [worker[w] EXCEPT !.pc = "save_sent",
                      !.chat = IF HasKitchenChat THEN stallChat ELSE InHand(w).chat]
      <4> QED
        BY <1>1, <3>1, <3>7 DEF ReloadChat, WorkerMemory
    <3>8. CASE LookupTicket(w)
      <4>1. LookupOutcome(w) # "idle"
        BY DEF LookupOutcome
      <4> QED
        BY <3>3, <3>8, <4>1 DEF LookupTicket
    <3>9. CASE SaveRefused(w)
      <4>1. FaultTarget(worker[w].pc) # "idle"
        BY <3>9 DEF SaveRefused, FaultTarget
      <4> QED
        BY <3>3, <3>9, <4>1 DEF SaveRefused
    <3>10. CASE DatabaseFault(w)
      BY <1>8, <3>3, <3>10 DEF DatabaseFault
    <3> QED
      BY <1>8, <3>2, <3>3, <3>4, <3>5, <3>6, <3>7, <3>8, <3>9, <3>10
      DEF WorkerStep, FailPendingTicket, SkipDispatch, SendAnswerLost, SendRejected,
          SaveSent, SaveFailed, Crash
  <2> QED
    BY <1>1, <2>1, <2>2, StayCounted
<1>9. CASE Rest(w) /\ ~(MarkSent(w) \/ MarkFailed(w) \/ DatabaseFault(w) \/ Crash(w))
  <2>1. worker'[w].pc = "idle"
    BY <1>9 DEF Rest, IdleWorker, TypeInv, TypeOK
  <2>2. \/ \E pc : Goto(w, pc) /\ pc # "idle"
        \/ worker'[w].pc # "idle"
    BY <1>1, <1>9 DEF WorkerStep, Inspect, NextStep, FailPendingTicket, LookupTicket,
       LookupOutcome, OpenTicket, SkipDispatch, SendAcknowledged, SendAnswerLost,
       SendRejected, NextTry, ReloadChat, SaveSent, SaveFailed, SaveRefused, FaultTarget,
       WorkerMemory, TypeInv, TypeOK
  <2> QED
    BY <1>1, <2>1, <2>2 DEF Goto, WorkerMemory, TypeInv, TypeOK
<1> QED
  BY <1>5, <1>6, <1>7, <1>8, <1>9

\* Steps of no worker.
LEMMA OtherCounted ==
    ASSUME TypeInv, AllHold, AllCounted, NEW n \in Int, n >= Interruptions,
           Interruptions \in Int, Interruptions >= 0, UNCHANGED worker, NEW o \in Orders,
           \A p \in Orders : p # o => job'[p] = job[p],
           \/ /\ job'[o].attempts = job[o].attempts
              /\ job'[o].status = job[o].status
           \/ Unattended(o) /\ job'[o] = PendingJob
    PROVE  /\ \A p \in Orders : RowCounted(p, n)'
           /\ \A v \in Workers : WorkerCounted(v)'
<1>1. \A p \in Orders : Unattended(p)' => Unattended(p)
  BY DEF Unattended, WorkingOn
<1>2. ASSUME NEW p \in Orders PROVE RowCounted(p, n)'
  <2>1. CASE job'[p].attempts = job[p].attempts /\ job'[p].status = job[p].status
    BY <1>1, <2>1, CountSame
  <2>2. CASE job'[p] = PendingJob
    BY <2>2, MaxAttemptsAssumption DEF RowCounted, PendingJob
  <2> QED
    BY <2>1, <2>2
<1>3. ASSUME NEW v \in Workers PROVE WorkerCounted(v)'
  <2>1. ASSUME worker[v].pc # "idle"
        PROVE  worker[v].attempts = job'[worker[v].order].attempts
    <3>1. worker[v].order \in Orders
      BY <2>1 DEF TypeInv, WorkerRefs
    <3>2. worker[v].order = o => ~Unattended(o)
      BY <2>1 DEF Unattended, WorkingOn
    <3>3. job'[worker[v].order].attempts = job[worker[v].order].attempts
      BY <3>1, <3>2
    <3> QED
      BY <2>1, <3>3 DEF AllCounted, WorkerCounted
  <2> QED
    BY <2>1 DEF WorkerCounted
<1> QED
  BY <1>2, <1>3

LEMMA AttemptInit == Init => AttemptInv
<1> SUFFICES ASSUME Init PROVE AttemptInv
  OBVIOUS
<1>1. ExclusiveInv
  BY ExclusiveInit
<1>2. Interruptions = 0
  BY BoundsAssumption DEF Init, Interruptions
<1>3. \A o \in Orders : RowCounted(o, Interruptions)
  BY <1>2, MaxAttemptsAssumption DEF Init, RowCounted
<1>4. \A w \in Workers : WorkerCounted(w)
  BY DEF Init, WorkerCounted, IdleWorker
<1> QED
  BY <1>1, <1>2, <1>3, <1>4 DEF AttemptInv, AllCounted

LEMMA AttemptStep == AttemptInv /\ [Next]_vars => AttemptInv'
<1> SUFFICES ASSUME AttemptInv, [Next]_vars PROVE AttemptInv'
  OBVIOUS
<1>1. ExclusiveInv /\ ExclusiveInv' /\ TypeInv /\ job \in [Orders -> JobRow]
  BY ExclusiveStep DEF AttemptInv, ExclusiveInv, TypeInv, TypeOK
<1>2. PICK n : n = Interruptions'
  OBVIOUS
<1>3. /\ Interruptions \in Int /\ n \in Int /\ n >= Interruptions /\ Interruptions >= 0
      /\ \A w \in Workers : (Crash(w) \/ DatabaseFault(w)) => n = Interruptions + 1
  BY <1>1, <1>2, InterruptionsGrow DEF AttemptInv
<1>4. ASSUME budget'.slow = MaxSlow
      PROVE  /\ \A p \in Orders : RowCounted(p, n)'
             /\ \A v \in Workers : WorkerCounted(v)'
  <2>1. budget.slow = MaxSlow
    <3>1. budget.slow \in Nat /\ budget'.slow <= budget.slow /\ budget.slow <= MaxSlow
      BY <1>1, SlowFalls DEF ExclusiveInv, TypeInv, TypeOK, Budget
    <3> QED
      BY <1>4, <3>1, BoundsAssumption
  <2>2. AllHold /\ AllCounted
    BY <1>1, <2>1 DEF AttemptInv, ExclusiveInv, ClaimExclusive, AllHold, Holds
  <2> DEFINE Goal == /\ \A p \in Orders : RowCounted(p, n)'
                     /\ \A v \in Workers : WorkerCounted(v)'
  <2>3. ASSUME NEW w \in Workers, NEW o \in Orders, Claim(w, o) PROVE Goal
    BY <1>1, <1>3, <2>2, <2>3, ClaimCounted
  <2>4. ASSUME NEW w \in Workers, WorkerStep(w) \/ DatabaseFault(w) \/ Crash(w) PROVE Goal
    BY <1>1, <1>3, <2>2, <2>4, WorkerStepCounted
  <2>5. ASSUME NEW o \in Orders, OrderEvent(o) PROVE Goal
    <3>1. UNCHANGED worker /\ \A p \in Orders : p # o => job'[p] = job[p]
      BY <1>1, <2>5 DEF OrderEvent, ConfirmPayment, LeaseExpires, BackoffEnds
    <3>2. \/ job'[o].attempts = job[o].attempts /\ job'[o].status = job[o].status
          \/ job[o].status = "none" /\ job'[o] = PendingJob
      BY <1>1, <2>5 DEF OrderEvent, ConfirmPayment, EnqueuedJob, LeaseExpires,
         BackoffEnds, JobRow
    <3>3. job[o].status = "none" => Unattended(o)
      BY <2>2 DEF AllHold, Holds, Unattended
    <3> QED
      BY <1>1, <1>3, <2>2, <3>1, <3>2, <3>3, OtherCounted
  <2>6. ASSUME NEW h \in Handlers, RequeueJob(h) PROVE Goal
    <3>1. PICK o \in Orders : o = handler[h].order
      BY <1>1, <2>6 DEF RequeueJob, TypeInv, HandlerRefs
    <3>2. UNCHANGED worker /\ \A p \in Orders : p # o => job'[p] = job[p]
      BY <1>1, <2>6, <3>1 DEF RequeueJob
    <3>3. job'[o] = job[o] \/ (Requeueable(o) /\ job'[o] = PendingJob)
      BY <1>1, <2>6, <3>1 DEF RequeueJob
    <3>4. Requeueable(o) => Unattended(o)
      BY <2>2 DEF Requeueable, AllHold, Holds, Unattended
    <3> QED
      BY <1>1, <1>3, <2>2, <3>2, <3>3, <3>4, OtherCounted
  <2>7. CASE UNCHANGED <<job, worker>>
    <3>1. ASSUME NEW p \in Orders PROVE RowCounted(p, n)'
      <4>1. Unattended(p)' => Unattended(p)
        BY <2>7 DEF Unattended, WorkingOn
      <4> QED
        BY <1>1, <1>3, <2>2, <2>7, <4>1, CountSame
    <3>2. ASSUME NEW v \in Workers PROVE WorkerCounted(v)'
      BY <2>2, <2>7 DEF AllCounted, WorkerCounted
    <3> QED
      BY <3>1, <3>2
  <2> QED
    BY <2>3, <2>4, <2>5, <2>6, <2>7
    DEF Next, vars, RetryCheck, TapDone, CompleteTicket, EditDone, ReconnectChat
<1>5. budget'.slow = MaxSlow => AllCounted'
  <2>1. ASSUME NEW p \in Orders, RowCounted(p, n)' PROVE RowCounted(p, Interruptions)'
    BY <1>2, <2>1 DEF RowCounted
  <2> QED
    BY <1>4, <2>1 DEF AllCounted
<1>6. Interruptions' >= 0
  BY <1>2, <1>3
<1> QED
  BY <1>1, <1>5, <1>6 DEF AttemptInv

\* Each crash and each database fault buys a job at most one claim beyond its
\* limit, under the same condition.
THEOREM AttemptsStayBounded == Spec => [](budget.slow = MaxSlow => AttemptsBounded)
<1>1. AttemptInv => (budget.slow = MaxSlow => AttemptsBounded)
  BY DEF AttemptInv, AllCounted, RowCounted, AttemptsBounded
<1> QED
  BY <1>1, AttemptInit, AttemptStep, PTL DEF Spec
-----------------------------------------------------------------------------
(* Unknown sends. *)

\* An order with an unknown send is not sent again: its latest ticket is pending or
\* failed, whoever works on it only fails the ticket or the job, and once the ticket
\* has failed so has the job, or its worker is about to fail it.
Awaits(o) ==
    /\ LatestStatus(o) \in {"pending", "failed"}
    /\ \A w \in Workers : WorkingOn(w, o) =>
          worker[w].pc \in {"claimed", "fail_pending", "mark_terminal", "mark_catch"}
    /\ LatestStatus(o) = "failed" =>
          \/ job[o].status = "failed"
          \/ \E w \in Workers : WorkingOn(w, o) /\ worker[w].pc = "mark_terminal"

ReviewInv == DeliveryInv /\ (budget.slow = MaxSlow => \A o \in unreviewed : Awaits(o))

\* Nothing comes between the two statements that fail a ticket and its job: neither
\* a stop nor a database that refuses the second.
NothingBetween ==
    \A w \in Workers : worker[w].pc = "mark_terminal" => ~Crash(w) /\ ~DatabaseFault(w)

\* What is to be shown of an order in every step.
StillAwaits(o) ==
    /\ o \in unreviewed' => Awaits(o)'
    /\ Len(tickets'[o]) = Len(tickets[o])

\* Steps that leave the order and who works on it alone.
LEMMA AwaitsSame ==
    ASSUME NEW o \in Orders, Awaits(o), tickets'[o] = tickets[o],
           job[o].status = "failed" => job'[o].status = "failed",
           \A w \in Workers : /\ WorkingOn(w, o)' <=> WorkingOn(w, o)
                              /\ WorkingOn(w, o) => worker'[w].pc = worker[w].pc
    PROVE  StillAwaits(o)
BY DEF Awaits, StillAwaits, LatestStatus

\* An order other than the one a worker's step is about.
LEMMA OthersAwait ==
    ASSUME TypeInv, NEW w \in Workers, NEW o \in Orders, Awaits(o), ~WorkingOn(w, o),
           tickets'[o] = tickets[o], job'[o] = job[o],
           NEW new, worker' = [worker EXCEPT ![w] = new],
           new.pc # "idle" => new.order # o
    PROVE  StillAwaits(o)
<1>1. worker'[w] = new /\ \A v \in Workers : v # w => worker'[v] = worker[v]
  BY DEF TypeInv, TypeOK
<1>2. \A v \in Workers : /\ WorkingOn(v, o)' <=> WorkingOn(v, o)
                         /\ WorkingOn(v, o) => worker'[v].pc = worker[v].pc
  BY <1>1 DEF WorkingOn
<1> QED
  BY <1>2, AwaitsSame

\* A worker that has the order and has not failed its ticket finds it pending.
LEMMA TicketPending ==
    ASSUME AllHold, NEW w \in Workers, NEW o \in Orders, WorkingOn(w, o), Awaits(o),
           worker[w].pc # "mark_terminal"
    PROVE  LatestStatus(o) = "pending"
BY DEF AllHold, Holds, Awaits

\* Whoever works on the order is alone with it.
LEMMA AwaitsAlone ==
    ASSUME TypeInv, AllHold, NEW w \in Workers, NEW o \in Orders, WorkingOn(w, o),
           NEW new, worker' = [worker EXCEPT ![w] = new],
           LatestStatus(o)' \in {"pending", "failed"},
           new.pc \in {"idle", "claimed", "fail_pending", "mark_terminal", "mark_catch"},
           LatestStatus(o)' = "failed" =>
              \/ job'[o].status = "failed"
              \/ new.pc = "mark_terminal" /\ new.order = o
    PROVE  Awaits(o)'
<1>1. worker'[w] = new /\ \A v \in Workers : v # w => worker'[v] = worker[v]
  BY DEF TypeInv, TypeOK
<1>2. \A v \in Workers : v # w => ~WorkingOn(v, o) /\ ~WorkingOn(v, o)'
  BY <1>1 DEF AllHold, Holds, WorkingOn
<1> QED
  BY <1>1, <1>2 DEF Awaits, WorkingOn

\* A claim finds no job that was failed, so the ticket is pending.
LEMMA ClaimAwaits ==
    ASSUME TypeInv, AllHold, NEW w \in Workers, NEW p \in Orders, Claim(w, p),
           NEW o \in Orders, Awaits(o)
    PROVE  StillAwaits(o)
<1>1. PICK new : /\ worker' = [worker EXCEPT ![w] = new]
                 /\ new.pc = "claimed" /\ new.order = p
  <2> WITNESS [IdleWorker EXCEPT !.pc = "claimed", !.order = p,
                                 !.attempts = job[p].attempts + 1]
  <2> QED
    BY DEF Claim, IdleWorker
<1>2. worker[w].pc = "idle" /\ UNCHANGED tickets /\ \A q \in Orders : q # p => job'[q] = job[q]
  BY DEF Claim, TypeInv, TypeOK
<1>3. CASE o # p
  BY <1>1, <1>2, <1>3, OthersAwait DEF WorkingOn
<1>4. CASE o = p
  <2>1. \A v \in Workers : ~WorkingOn(v, o)
    BY <1>4 DEF AllHold, Holds, Claim, Claimable
  <2>2. job[o].status # "failed"
    BY <1>4 DEF Claim, Claimable
  <2>3. LatestStatus(o)' = "pending"
    BY <1>2, <2>1, <2>2 DEF Awaits, LatestStatus
  <2>4. worker'[w] = new /\ \A v \in Workers : v # w => worker'[v] = worker[v]
    BY <1>1 DEF TypeInv, TypeOK
  <2> QED
    BY <1>1, <1>2, <2>1, <2>3, <2>4 DEF Awaits, StillAwaits, WorkingOn
<1> QED
  BY <1>3, <1>4

\* A worker writes the rows of its own order.
LEMMA RowsOfOthers ==
    ASSUME TypeInv, NEW w \in Workers, WorkerStep(w) \/ DatabaseFault(w) \/ Crash(w)
    PROVE  /\ worker[w].pc # "idle" /\ worker[w].order \in Orders
           /\ \A q \in Orders : q # worker[w].order =>
                 tickets'[q] = tickets[q] /\ job'[q] = job[q]
<1>1. worker[w].pc # "idle" /\ worker[w].order \in Orders
  <2>1. worker[w].pc # "idle"
    BY DEF WorkerStep, Inspect, FailPendingTicket, LookupTicket, OpenTicket, SkipDispatch,
       SendAcknowledged, SendAnswerLost, SendRejected, ReloadChat, SaveSent, SaveFailed,
       SaveRefused, MarkSent, MarkFailed, DatabaseFault, Crash
  <2> QED
    BY <2>1 DEF TypeInv, WorkerRefs
<1>2. PICK o \in Orders : o = worker[w].order
  BY <1>1
<1>3. job \in [Orders -> JobRow] /\ tickets \in [Orders -> Seq(TicketRow)]
  BY DEF TypeInv, TypeOK
<1>4. ASSUME NEW q \in Orders, q # o PROVE job'[q] = job[q]
  BY <1>2, <1>3, <1>4
  DEF WorkerStep, Inspect, FailPendingTicket, LookupTicket, OpenTicket, SkipDispatch,
      SendAcknowledged, SendAnswerLost, SendRejected, ReloadChat, SaveSent, SaveFailed,
      SaveRefused, MarkSent, MarkFailed, SaveJob, DatabaseFault, Crash
<1>5. ASSUME NEW q \in Orders, q # o PROVE tickets'[q] = tickets[q]
  <2>1. CASE \E row : SaveTicket(w, row)
    BY <1>2, <1>3, <1>5, <2>1 DEF SaveTicket
  <2>2. CASE OpenTicket(w)
    BY <1>2, <1>3, <1>5, <2>2 DEF OpenTicket
  <2>3. CASE UNCHANGED tickets
    BY <2>3
  <2> QED
    BY <2>1, <2>2, <2>3
    DEF WorkerStep, Inspect, FailPendingTicket, LookupTicket, SkipDispatch,
        SendAcknowledged, SendAnswerLost, SendRejected, ReloadChat, SaveSent, SaveFailed,
        SaveRefused, MarkSent, MarkFailed, DatabaseFault, Crash
<1> QED
  BY <1>1, <1>2, <1>4, <1>5

\* The worker that has an order with an unknown send fails its ticket, then its job,
\* or is interrupted before it has failed the ticket.
LEMMA OwnAwaits ==
    ASSUME TypeInv, AllHold, AllKept, NothingBetween, NEW w \in Workers,
           WorkerStep(w) \/ DatabaseFault(w) \/ Crash(w),
           NEW o \in Orders, WorkingOn(w, o), Awaits(o)
    PROVE  StillAwaits(o)
<1>1. /\ worker[w].pc \in {"claimed", "fail_pending", "mark_terminal", "mark_catch"}
      /\ worker[w].order = o /\ worker[w] \in WorkerMemory /\ job \in [Orders -> JobRow]
      /\ worker \in [Workers -> WorkerMemory] /\ LatestStatus(o) \in {"pending", "failed"}
  BY DEF Awaits, WorkingOn, TypeInv, TypeOK
<1>2. CASE UNCHANGED tickets /\ Rest(w) /\ worker[w].pc # "mark_terminal"
  <2>1. LatestStatus(o)' = "pending" /\ Len(tickets'[o]) = Len(tickets[o])
    BY <1>2, TicketPending DEF LatestStatus
  <2>2. PICK new : worker' = [worker EXCEPT ![w] = new] /\ new.pc = "idle"
    <3> WITNESS IdleWorker
    <3> QED
      BY <1>2 DEF Rest, IdleWorker
  <2> QED
    BY <2>1, <2>2, AwaitsAlone DEF StillAwaits
<1>3. CASE MarkFailed(w) /\ worker[w].pc = "mark_terminal"
  <2>1. job' = [job EXCEPT ![o] =
            [job[o] EXCEPT !.status = "failed", !.lockedBy = NoOne,
                           !.due = TRUE, !.stale = FALSE]]
    BY <1>1, <1>3 DEF MarkFailed, ShouldStop, SaveJob
  <2>2. job'[o].status = "failed"
    BY <1>1, <2>1 DEF JobRow
  <2>3. /\ LatestStatus(o)' \in {"pending", "failed"}
        /\ Len(tickets'[o]) = Len(tickets[o])
    BY <1>1, <1>3 DEF MarkFailed, LatestStatus
  <2>4. PICK new : worker' = [worker EXCEPT ![w] = new] /\ new.pc = "idle"
    <3> WITNESS IdleWorker
    <3> QED
      BY <1>3 DEF MarkFailed, Rest, IdleWorker
  <2> QED
    BY <2>2, <2>3, <2>4, AwaitsAlone DEF StillAwaits
<1>4. CASE Inspect(w)
  <2>1. LatestStatus(o) = "pending"
    BY <1>4, TicketPending DEF Inspect
  <2>2. NextStep(o) \in {"fail_pending", "mark_terminal"}
    BY <2>1 DEF NextStep
  <2>3. PICK new : /\ worker' = [worker EXCEPT ![w] = new]
                   /\ new.pc = NextStep(o) /\ new.order = o
    <3> WITNESS [worker[w] EXCEPT !.pc = NextStep(o), !.ticket = Len(tickets[o]),
                                  !.force = (tickets[o] # << >>)]
    <3> QED
      BY <1>1, <1>4 DEF Inspect, WorkerMemory
  <2>4. LatestStatus(o)' = "pending" /\ Len(tickets'[o]) = Len(tickets[o])
    BY <1>4, <2>1 DEF Inspect, LatestStatus
  <2> QED
    BY <2>2, <2>3, <2>4, AwaitsAlone DEF StillAwaits
<1>5. CASE FailPendingTicket(w)
  <2>1. /\ worker[w].ticket = Len(tickets[o]) /\ worker[w].ticket \in 1..Len(tickets[o])
        /\ tickets \in [Orders -> Seq(TicketRow)]
    BY <1>1, <1>5 DEF FailPendingTicket, AllKept, Knows, HoldsRow, TypeInv, TypeOK, WorkerRefs
  <2>2. InHand(w) \in TicketRow
    BY <1>5, InHandType DEF FailPendingTicket, HoldsRow
  <2>3. PICK row : row = [InHand(w) EXCEPT !.status = "failed"] /\ row.status = "failed"
    <3> WITNESS [InHand(w) EXCEPT !.status = "failed"]
    <3> QED
      BY <2>2 DEF TicketRow
  <2>4. PICK s \in Seq(TicketRow) : s = tickets[o]
    BY <2>1
  <2>5. tickets'[o] = [s EXCEPT ![Len(s)] = row] /\ Len(s) \in 1..Len(s)
    BY <1>1, <1>5, <2>1, <2>3, <2>4 DEF FailPendingTicket, SaveTicket
  <2>6. Len(tickets'[o]) = Len(s) /\ tickets'[o] # << >> /\ tickets'[o][Len(s)] = row
    BY <2>5
  <2>7. LatestStatus(o)' = "failed"
    BY <2>3, <2>6 DEF LatestStatus
  <2>8. PICK new : /\ worker' = [worker EXCEPT ![w] = new]
                   /\ new.pc = "mark_terminal" /\ new.order = o
    <3> WITNESS [worker[w] EXCEPT !.pc = "mark_terminal"]
    <3> QED
      BY <1>1, <1>5 DEF FailPendingTicket, Goto, WorkerMemory
  <2> QED
    BY <2>4, <2>6, <2>7, <2>8, AwaitsAlone DEF StillAwaits
<1>6. CASE UNCHANGED tickets /\ Goto(w, "mark_catch") /\ worker[w].pc # "mark_terminal"
  <2>1. LatestStatus(o)' = "pending" /\ Len(tickets'[o]) = Len(tickets[o])
    BY <1>6, TicketPending DEF LatestStatus
  <2>2. PICK new : worker' = [worker EXCEPT ![w] = new] /\ new.pc = "mark_catch"
    <3> WITNESS [worker[w] EXCEPT !.pc = "mark_catch"]
    <3> QED
      BY <1>1, <1>6 DEF Goto, WorkerMemory
  <2> QED
    BY <2>1, <2>2, AwaitsAlone DEF StillAwaits
<1>7. CASE DatabaseFault(w)
  <2>1. worker[w].pc # "mark_terminal" /\ UNCHANGED tickets
    BY <1>7 DEF NothingBetween, DatabaseFault
  <2>2. FaultTarget(worker[w].pc) \in {"idle", "mark_catch"}
    BY <1>1 DEF FaultTarget
  <2> QED
    BY <1>2, <1>6, <1>7, <2>1, <2>2 DEF DatabaseFault
<1>8. CASE Crash(w) \/ MarkFailed(w)
  BY <1>2, <1>3, <1>8 DEF NothingBetween, Crash, MarkFailed
<1> QED
  BY <1>1, <1>4, <1>5, <1>7, <1>8
  DEF WorkerStep, LookupTicket, OpenTicket, SkipDispatch, SendAcknowledged,
      SendAnswerLost, SendRejected, ReloadChat, SaveSent, SaveFailed, SaveRefused, MarkSent

\* A worker's step, for every order with an unknown send.
LEMMA WorkerStepAwaits ==
    ASSUME TypeInv, AllHold, AllKept, NothingBetween, NEW w \in Workers,
           WorkerStep(w) \/ DatabaseFault(w) \/ Crash(w), NEW o \in Orders, Awaits(o)
    PROVE  StillAwaits(o)
<1>1. CASE WorkingOn(w, o)
  BY <1>1, OwnAwaits
<1>2. CASE ~WorkingOn(w, o)
  <2>1. /\ worker[w].pc # "idle" /\ worker[w].order # o
        /\ tickets'[o] = tickets[o] /\ job'[o] = job[o]
    BY <1>2, RowsOfOthers DEF WorkingOn
  <2>2. StaysWithOrder(w)
    BY WorkerStaysWithOrder
  <2>3. PICK new : /\ worker' = [worker EXCEPT ![w] = new]
                   /\ new.pc # "idle" => new.order = worker[w].order
    BY <2>2 DEF StaysWithOrder
  <2> QED
    BY <1>2, <2>1, <2>3, OthersAwait
<1> QED
  BY <1>1, <1>2

\* A stop during a send: the ticket is pending and nobody has the order.
LEMMA CrashAwaits ==
    ASSUME TypeInv, AllHold, AllKept, NEW w \in Workers, Crash(w),
           NEW o \in Orders, o \in unreviewed' \ unreviewed
    PROVE  StillAwaits(o)
<1>1. /\ worker[w].pc \in HoldsRow /\ worker[w].order = o /\ UNCHANGED tickets
      /\ worker[w].pc # "idle"
  BY DEF Crash, HoldsRow
<1>2. LatestStatus(o) = "pending"
  BY <1>1 DEF AllKept, Knows
<1>3. LatestStatus(o)' = "pending" /\ Len(tickets'[o]) = Len(tickets[o])
  BY <1>1, <1>2 DEF LatestStatus
<1>4. PICK new : worker' = [worker EXCEPT ![w] = new] /\ new.pc = "idle"
  <2> WITNESS IdleWorker
  <2> QED
    BY DEF Crash, Rest, IdleWorker
<1> QED
  BY <1>1, <1>3, <1>4, AwaitsAlone DEF StillAwaits, WorkingOn

\* Requests: only a requeue touches a failed job, and it ends the wait; the cook
\* completes sent tickets alone.
LEMMA RequestAwaits ==
    ASSUME TypeInv, AllKept, NEW h \in Handlers,
           \/ \E p \in Orders : RetryCheck(h, p)
           \/ \E m \in DOMAIN kitchen : TapDone(h, m)
           \/ RequeueJob(h) \/ CompleteTicket(h) \/ EditDone(h),
           NEW o \in Orders, Awaits(o)
    PROVE  StillAwaits(o)
<1>1. UNCHANGED worker /\ \A w \in Workers : WorkingOn(w, o)' <=> WorkingOn(w, o)
  BY DEF RetryCheck, TapDone, RequeueJob, CompleteTicket, EditDone, WorkingOn
<1>2. CASE UNCHANGED <<tickets, job>>
  BY <1>1, <1>2, AwaitsSame
<1>3. CASE RequeueJob(h)
  <2>1. CASE Requeueable(handler[h].order) /\ o = handler[h].order
    BY <1>3, <2>1 DEF RequeueJob, StillAwaits
  <2>2. CASE ~(Requeueable(handler[h].order) /\ o = handler[h].order)
    <3>1. job'[o] = job[o] /\ UNCHANGED tickets
      BY <1>3, <2>2 DEF RequeueJob, TypeInv, TypeOK
    <3> QED
      BY <1>1, <3>1, AwaitsSame
  <2> QED
    BY <2>1, <2>2
<1>4. CASE CompleteTicket(h) /\ Completes(h)
  <2>1. /\ handler[h].order \in Orders
        /\ handler[h].ticket \in 1..Len(tickets[handler[h].order])
        /\ tickets[handler[h].order][handler[h].ticket].status = "sent"
        /\ tickets \in [Orders -> Seq(TicketRow)]
    BY <1>4 DEF CompleteTicket, Completes, TypeInv, TypeOK, HandlerRefs
  <2>2. handler[h].order # o
    <3>1. ASSUME handler[h].order = o PROVE FALSE
      <4>1. PICK s \in Seq(TicketRow) : s = tickets[o]
        BY <2>1
      <4>2. PICK k \in 1..Len(s) : s[k].status = "sent"
        BY <2>1, <3>1, <4>1
      <4>3. RowsKept(o)
        BY DEF AllKept
      <4>4. Len(s) \in Nat /\ ~(k < Len(s))
        BY <4>1, <4>2, <4>3 DEF RowsKept
      <4>5. k = Len(s) /\ s # << >>
        BY <4>1, <4>4
      <4> QED
        BY <4>1, <4>2, <4>5 DEF Awaits, LatestStatus
    <3> QED
      BY <3>1
  <2>3. tickets'[o] = tickets[o] /\ UNCHANGED job
    BY <1>4, <2>1, <2>2 DEF CompleteTicket
  <2> QED
    BY <1>1, <2>3, AwaitsSame
<1> QED
  BY <1>2, <1>3, <1>4 DEF RetryCheck, TapDone, CompleteTicket, EditDone

\* Payments, expired locks, ended backoffs and reconnections leave a failed job so.
LEMMA EventAwaits ==
    ASSUME TypeInv, NEW o \in Orders, Awaits(o),
           \/ \E p \in Orders : OrderEvent(p)
           \/ \E c \in Chats : ReconnectChat(c)
           \/ UNCHANGED vars
    PROVE  StillAwaits(o)
<1>1. UNCHANGED <<tickets, worker>>
  BY DEF OrderEvent, ConfirmPayment, LeaseExpires, BackoffEnds, ReconnectChat, vars
<1>2. \A w \in Workers : WorkingOn(w, o)' <=> WorkingOn(w, o)
  BY <1>1 DEF WorkingOn
<1>3. job[o].status = "failed" => job'[o].status = "failed"
  BY DEF OrderEvent, ConfirmPayment, EnqueuedJob, LeaseExpires, BackoffEnds, ReconnectChat,
     vars, TypeInv, TypeOK, JobRow
<1> QED
  BY <1>1, <1>2, <1>3, AwaitsSame

\* One step, while no lock is outlasted.
LEMMA ReviewStep ==
    ASSUME ReviewInv, budget.slow = MaxSlow, [Next]_vars, [NothingBetween]_vars
    PROVE  \A o \in unreviewed \cup unreviewed' : StillAwaits(o)
<1>1. /\ TypeInv /\ AllHold /\ AllKept /\ unreviewed \subseteq Orders
      /\ \A o \in unreviewed : Awaits(o)
  BY DEF ReviewInv, DeliveryInv, ExclusiveInv, ClaimExclusive, AllHold, Holds, TypeInv, TypeOK
<1>2. unreviewed' \subseteq Orders
  BY <1>1, TypeStep DEF TypeInv, TypeOK
<1>3. ASSUME NEW o \in unreviewed PROVE StillAwaits(o)
  <2>1. o \in Orders /\ Awaits(o)
    BY <1>1
  <2>2. CASE \E w \in Workers : WorkerStep(w) \/ DatabaseFault(w) \/ Crash(w)
    <3>1. CASE NothingBetween
      BY <1>1, <2>1, <2>2, <3>1, WorkerStepAwaits
    <3>2. CASE UNCHANGED vars
      BY <1>1, <2>1, <3>2, EventAwaits
    <3> QED
      BY <3>1, <3>2
  <2>3. CASE \E w \in Workers, p \in Orders : Claim(w, p)
    BY <1>1, <2>1, <2>3, ClaimAwaits
  <2>4. CASE \E h \in Handlers : \/ \E p \in Orders : RetryCheck(h, p)
                                 \/ \E m \in DOMAIN kitchen : TapDone(h, m)
                                 \/ RequeueJob(h) \/ CompleteTicket(h) \/ EditDone(h)
    BY <1>1, <2>1, <2>4, RequestAwaits
  <2>5. CASE \/ \E p \in Orders : OrderEvent(p)
             \/ \E c \in Chats : ReconnectChat(c)
             \/ UNCHANGED vars
    BY <1>1, <2>1, <2>5, EventAwaits
  <2> QED
    BY <2>2, <2>3, <2>4, <2>5 DEF Next
<1>4. ASSUME NEW o \in unreviewed' \ unreviewed PROVE StillAwaits(o)
  <2>1. \E w \in Workers : Crash(w)
    BY <1>4 DEF Next, OrderEvent, ConfirmPayment, LeaseExpires, BackoffEnds, Claim, WorkerStep,
       Inspect, FailPendingTicket, LookupTicket, OpenTicket, SkipDispatch, SendAcknowledged,
       SendAnswerLost, SendRejected, ReloadChat, SaveSent, SaveFailed, SaveRefused, MarkSent,
       MarkFailed, DatabaseFault, RetryCheck, TapDone, RequeueJob, CompleteTicket, EditDone,
       ReconnectChat, vars
  <2> QED
    BY <1>1, <1>2, <1>4, <2>1, CrashAwaits
<1> QED
  BY <1>3, <1>4

\* While locks are not outlasted, a send with an unknown result is not repeated before
\* staff have asked for it, provided that nothing comes between the two statements that
\* fail its ticket and its job (processClaimedJob): that gap is the one way to a second
\* message, through any number of stops, faults, retries and requeues elsewhere.
THEOREM GapIsTheCause ==
    Spec /\ [](budget.slow = MaxSlow) /\ [][NothingBetween]_vars => UnknownSendAwaitsReview
<1>1. Init => ReviewInv
  BY DeliveryInit DEF Init, ReviewInv
<1>2. /\ ReviewInv /\ budget.slow = MaxSlow /\ [Next]_vars /\ [NothingBetween]_vars
      => ReviewInv'
  <2> SUFFICES ASSUME ReviewInv, budget.slow = MaxSlow, [Next]_vars, [NothingBetween]_vars
               PROVE  ReviewInv'
    OBVIOUS
  <2>1. DeliveryInv'
    BY DeliveryStep DEF ReviewInv
  <2>2. \A o \in unreviewed' : Awaits(o)'
    BY ReviewStep DEF StillAwaits
  <2> QED
    BY <2>1, <2>2 DEF ReviewInv
<1>3. /\ ReviewInv /\ budget.slow = MaxSlow /\ [Next]_vars /\ [NothingBetween]_vars
      => [\A o \in unreviewed : Len(tickets'[o]) = Len(tickets[o])]_vars
  BY ReviewStep DEF StillAwaits
<1> QED
  BY <1>1, <1>2, <1>3, PTL DEF Spec, UnknownSendAwaitsReview
=============================================================================

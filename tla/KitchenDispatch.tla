-------------------------- MODULE KitchenDispatch --------------------------
(***************************************************************************)
(* The kitchen outbox of the backend: a cash payment enqueues one durable  *)
(* dispatch job per order in its own transaction; worker processes claim   *)
(* due jobs, open a ticket row, call Telegram and record the outcome; the  *)
(* cook completes the ticket from the kitchen chat; staff requeue failed   *)
(* jobs by hand.  Every database statement that commits on its own is one  *)
(* action, so a crash, a fault or another actor may come between any two.  *)
(*                                                                         *)
(* Time is abstracted: due says next_attempt_at <= now, stale says that    *)
(* locked_at is older than the lock timeout.                               *)
(***************************************************************************)
EXTENDS Integers, Sequences, FiniteSets

CONSTANTS
    Orders,       \* orders of one stall
    Workers,      \* server processes, each with one dispatch worker
    Handlers,     \* concurrent HTTP requests: cook callbacks, manual retries
    Chats,        \* Telegram groups the stall may be connected to
    NoOne,        \* no worker, no chat, no order
    MaxAttempts,  \* TELEGRAM_DISPATCH_MAX_ATTEMPTS
    \* Bounds on what the environment does
    MaxCrashes,    \* processes stopped in the middle of a dispatch
    MaxFaults,     \* database statements of a worker that fail
    MaxRequeues,   \* manual retries
    MaxReconnects, \* changes of the stall's kitchen group
    MaxSlow        \* dispatches that outlast the lock timeout

ASSUME NoOneAssumption == NoOne \notin Orders \cup Workers \cup Chats
ASSUME MaxAttemptsAssumption == MaxAttempts \in Nat \ {0}
ASSUME BoundsAssumption ==
    /\ MaxCrashes \in Nat
    /\ MaxFaults \in Nat
    /\ MaxRequeues \in Nat
    /\ MaxReconnects \in Nat
    /\ MaxSlow \in Nat

VARIABLES
    orderStatus,  \* orders.status
    job,          \* telegram_dispatch_jobs, one row per order
    tickets,      \* telegram_tickets of each order, in id order
    stallChat,    \* stalls.telegram_chat_id
    kitchen,      \* messages shown in Telegram, in the order they arrived
    worker,       \* memory of each dispatch worker
    handler,      \* memory of each HTTP request
    unreviewed,   \* history: orders with a send lost to a stop, until a requeue
    budget        \* what the environment may still do

vars == <<orderStatus, job, tickets, stallChat, kitchen, worker, handler,
          unreviewed, budget>>
-----------------------------------------------------------------------------
(* callTelegramApi makes at most this many attempts per call. *)
ApiAttempts == 2

JobStatus == {"none", "pending", "processing", "retry", "sent", "failed"}
TicketStatus == {"pending", "sent", "failed", "done"}

JobRow == [status : JobStatus, attempts : Nat, lockedBy : Workers \cup {NoOne},
           due : BOOLEAN, stale : BOOLEAN]
\* msg = 0 : telegram_msg_id is null
TicketRow == [status : TicketStatus, chat : Chats, msg : Nat]
\* message ids count up within a chat
Message == [order : Orders, chat : Chats, id : Nat, button : BOOLEAN]

WorkerPC == {"idle", "claimed", "fail_pending", "lookup", "open", "calling",
             "reload", "save_sent", "save_failed", "mark_sent", "mark_terminal",
             "mark_failed", "mark_catch"}
\* attempts: job.attempt_count as claimed; ticket: index of the row in hand;
\* force: options.forceRetry; try: attempt of callTelegramApi; msg: result id;
\* chat: finalChatId once re-read
WorkerMemory == [pc : WorkerPC, order : Orders \cup {NoOne}, attempts : Nat,
                 ticket : Nat, force : BOOLEAN, try : Nat, msg : Nat,
                 chat : Chats \cup {NoOne}]
IdleWorker == [pc |-> "idle", order |-> NoOne, attempts |-> 0, ticket |-> 0,
               force |-> FALSE, try |-> 0, msg |-> 0, chat |-> NoOne]

\* message: the kitchen message whose button was tapped
HandlerMemory == [pc : {"idle", "requeue", "complete", "edit"},
                  order : Orders \cup {NoOne}, ticket : Nat, message : Nat]
IdleHandler == [pc |-> "idle", order |-> NoOne, ticket |-> 0, message |-> 0]

Budget == [crashes : Nat, faults : Nat, requeues : Nat, reconnects : Nat, slow : Nat]

TypeOK ==
    /\ orderStatus \in [Orders -> {"pending_payment", "paid"}]
    /\ job \in [Orders -> JobRow]
    /\ tickets \in [Orders -> Seq(TicketRow)]
    /\ stallChat \in Chats \cup {NoOne}
    /\ kitchen \in Seq(Message)
    /\ worker \in [Workers -> WorkerMemory]
    /\ handler \in [Handlers -> HandlerMemory]
    /\ unreviewed \subseteq Orders
    /\ budget \in Budget

Init ==
    /\ orderStatus = [o \in Orders |-> "pending_payment"]
    /\ job = [o \in Orders |-> [status |-> "none", attempts |-> 0,
                                lockedBy |-> NoOne, due |-> FALSE, stale |-> FALSE]]
    /\ tickets = [o \in Orders |-> << >>]
    /\ stallChat \in Chats \cup {NoOne}
    /\ kitchen = << >>
    /\ worker = [w \in Workers |-> IdleWorker]
    /\ handler = [h \in Handlers |-> IdleHandler]
    /\ unreviewed = {}
    /\ budget = [crashes |-> MaxCrashes, faults |-> MaxFaults,
                 requeues |-> MaxRequeues, reconnects |-> MaxReconnects,
                 slow |-> MaxSlow]
-----------------------------------------------------------------------------
LatestStatus(o) ==
    IF tickets[o] = << >> THEN "none" ELSE tickets[o][Len(tickets[o])].status

HasKitchenChat == stallChat # NoOne

PendingJob == [status |-> "pending", attempts |-> 0, lockedBy |-> NoOne,
               due |-> TRUE, stale |-> FALSE]

\* Faulty variant: the outbox row is left out of the payment transaction.
EnqueuedJobForgotten(o) == job[o]

\* An existing row is left as it is (updateOnDuplicate names the key only).
EnqueuedJob(o) == IF job[o].status = "none" THEN PendingJob ELSE job[o]

\* confirmCashPayment commits the paid status and the outbox row together.
ConfirmPayment(o) ==
    /\ orderStatus[o] = "pending_payment"
    /\ orderStatus' = [orderStatus EXCEPT ![o] = "paid"]
    /\ job' = [job EXCEPT ![o] = EnqueuedJob(o)]
    /\ UNCHANGED <<tickets, stallChat, kitchen, worker, handler, unreviewed, budget>>
-----------------------------------------------------------------------------
(* Worker: runTelegramDispatchWorkerOnce, one claimed job at a time. *)

Goto(w, pc) == worker' = [worker EXCEPT ![w].pc = pc]

Rest(w) == worker' = [worker EXCEPT ![w] = IdleWorker]

InHand(w) == tickets[worker[w].order][worker[w].ticket]

\* ticket.save(): writes the changed columns of the row in hand.
SaveTicket(w, row) ==
    tickets' = [tickets EXCEPT ![worker[w].order][worker[w].ticket] = row]

\* markJobSent and markJobFailed: a blind UPDATE of the row by its id.
SaveJob(w, status) ==
    job' = [job EXCEPT ![worker[w].order] =
               [@ EXCEPT !.status = status, !.lockedBy = NoOne,
                         !.due = (status # "retry"), !.stale = FALSE]]

\* Faulty variant: a job in processing is claimed before its lock expires.
ClaimableWithoutLease(o) ==
    job[o].status \in {"pending", "retry", "processing"} /\ job[o].due

\* Faulty variant: expired locks are not taken over.
ClaimableUnlockedOnly(o) == job[o].status \in {"pending", "retry"} /\ job[o].due

Claimable(o) ==
    \/ job[o].status \in {"pending", "retry"} /\ job[o].due
    \/ job[o].status = "processing" /\ job[o].stale

Claim(w, o) ==
    /\ worker[w].pc = "idle"
    /\ Claimable(o)
    /\ job' = [job EXCEPT ![o] =
           [@ EXCEPT !.status = "processing", !.attempts = job[o].attempts + 1,
                     !.lockedBy = w, !.stale = FALSE]]
    /\ worker' = [worker EXCEPT ![w] =
           [IdleWorker EXCEPT !.pc = "claimed", !.order = o,
                              !.attempts = job[o].attempts + 1]]
    /\ UNCHANGED <<orderStatus, tickets, stallChat, kitchen, handler, unreviewed, budget>>

\* Faulty variant: a pending ticket does not stop the dispatch.
NextStepIgnoringPending(o) ==
    CASE orderStatus[o] # "paid" -> "mark_terminal"
      [] LatestStatus(o) \in {"sent", "done"} -> "mark_sent"
      [] OTHER -> "lookup"

\* Faulty variant: any ticket counts as delivered.
NextStepTrustingAnyTicket(o) ==
    CASE orderStatus[o] # "paid" -> "mark_terminal"
      [] LatestStatus(o) # "none" -> "mark_sent"
      [] OTHER -> "lookup"

\* Faulty variant: any ticket but a failed one is taken for an unknown send.
NextStepFailingAnyTicket(o) ==
    CASE orderStatus[o] # "paid" -> "mark_terminal"
      [] LatestStatus(o) \notin {"none", "failed"} -> "fail_pending"
      [] OTHER -> "lookup"

\* processClaimedJob reads the order and its latest ticket and chooses.
NextStep(o) ==
    CASE orderStatus[o] # "paid" -> "mark_terminal"
      [] LatestStatus(o) \in {"sent", "done"} -> "mark_sent"
      [] LatestStatus(o) = "pending" -> "fail_pending"
      [] OTHER -> "lookup"

Inspect(w) ==
    LET o == worker[w].order IN
    /\ worker[w].pc = "claimed"
    /\ worker' = [worker EXCEPT ![w].pc = NextStep(o),
                                ![w].ticket = Len(tickets[o]),
                                ![w].force = (tickets[o] # << >>)]
    /\ UNCHANGED <<orderStatus, job, tickets, stallChat, kitchen, handler,
                   unreviewed, budget>>

\* A pending ticket found on a claimed job: the earlier send is unknown.
FailPendingTicket(w) ==
    /\ worker[w].pc = "fail_pending"
    /\ SaveTicket(w, [InHand(w) EXCEPT !.status = "failed"])
    /\ Goto(w, "mark_terminal")
    /\ UNCHANGED <<orderStatus, job, stallChat, kitchen, handler, unreviewed, budget>>

\* dispatchToTelegram looks the ticket up again before it opens a new one.
LookupOutcome(w) ==
    LET latest == LatestStatus(worker[w].order) IN
    CASE latest \in {"sent", "done"} -> "mark_sent"
      [] latest # "none" /\ ~worker[w].force -> "mark_failed"
      [] OTHER -> "open"

LookupTicket(w) ==
    /\ worker[w].pc = "lookup"
    /\ Goto(w, LookupOutcome(w))
    /\ UNCHANGED <<orderStatus, job, tickets, stallChat, kitchen, handler,
                   unreviewed, budget>>

\* The stall is read and the pending row inserted for its chat.
OpenTicket(w) ==
    LET o == worker[w].order IN
    /\ worker[w].pc = "open"
    /\ HasKitchenChat
    /\ tickets' = [tickets EXCEPT ![o] =
           Append(@, [status |-> "pending", chat |-> stallChat, msg |-> 0])]
    /\ worker' = [worker EXCEPT ![w].pc = "calling", ![w].try = 1,
                                ![w].ticket = Len(tickets[o]) + 1]
    /\ UNCHANGED <<orderStatus, job, stallChat, kitchen, handler, unreviewed, budget>>

SkipDispatch(w) ==
    /\ worker[w].pc = "open"
    /\ ~HasKitchenChat
    /\ Goto(w, "mark_failed")
    /\ UNCHANGED <<orderStatus, job, tickets, stallChat, kitchen, handler,
                   unreviewed, budget>>

\* One HTTP attempt of sendMessage.  Telegram may show the message and the
\* answer still be lost to the timeout, in which case the call is repeated.
NextId(c) == Cardinality({m \in DOMAIN kitchen : kitchen[m].chat = c}) + 1

Deliver(w) ==
    LET c == InHand(w).chat IN
    kitchen' = Append(kitchen, [order |-> worker[w].order, chat |-> c,
                                id |-> NextId(c), button |-> TRUE])

\* Faulty variant: the last error of callTelegramApi is not thrown.
NextTrySwallowed(w) ==
    worker' = [worker EXCEPT ![w] =
        IF @.try < ApiAttempts THEN [@ EXCEPT !.try = worker[w].try + 1]
                               ELSE [@ EXCEPT !.pc = "reload"]]

NextTry(w) ==
    worker' = [worker EXCEPT ![w] =
        IF @.try < ApiAttempts THEN [@ EXCEPT !.try = worker[w].try + 1]
                               ELSE [@ EXCEPT !.pc = "save_failed"]]

SendAcknowledged(w) ==
    /\ worker[w].pc = "calling"
    /\ Deliver(w)
    /\ worker' = [worker EXCEPT ![w].pc = "reload", ![w].msg = NextId(InHand(w).chat)]
    /\ UNCHANGED <<orderStatus, job, tickets, stallChat, handler, unreviewed, budget>>

SendAnswerLost(w) ==
    /\ worker[w].pc = "calling"
    /\ Deliver(w)
    /\ NextTry(w)
    /\ UNCHANGED <<orderStatus, job, tickets, stallChat, handler, unreviewed, budget>>

SendRejected(w) ==
    /\ worker[w].pc = "calling"
    /\ NextTry(w)
    /\ UNCHANGED <<orderStatus, job, tickets, stallChat, kitchen, handler,
                   unreviewed, budget>>

\* The sent row takes the chat the stall has now, re-read after the send.
ReloadChat(w) ==
    /\ worker[w].pc = "reload"
    /\ worker' = [worker EXCEPT ![w].pc = "save_sent",
                      ![w].chat = IF HasKitchenChat THEN stallChat ELSE InHand(w).chat]
    /\ UNCHANGED <<orderStatus, job, tickets, stallChat, kitchen, handler,
                   unreviewed, budget>>

\* The ticket as the worker's memory holds it, with the given status: the send
\* result is part of it once the chat has been re-read.
RowWith(w, status) ==
    IF worker[w].chat = NoOne
    THEN [InHand(w) EXCEPT !.status = status]
    ELSE [status |-> status, chat |-> worker[w].chat, msg |-> worker[w].msg]

\* uq_telegram_ticket_message: no other ticket names that chat and message.
MessageFree(w) ==
    LET c == worker[w].chat IN
    \/ c = NoOne
    \/ \A o \in Orders : \A t \in DOMAIN tickets[o] :
          tickets[o][t].chat = c /\ tickets[o][t].msg = worker[w].msg =>
              o = worker[w].order /\ t = worker[w].ticket

SaveSent(w) ==
    /\ worker[w].pc = "save_sent"
    /\ MessageFree(w)
    /\ SaveTicket(w, RowWith(w, "sent"))
    /\ Goto(w, "mark_sent")
    /\ UNCHANGED <<orderStatus, job, stallChat, kitchen, handler, unreviewed, budget>>

\* The catch block of dispatchToTelegram.
SaveFailed(w) ==
    /\ worker[w].pc = "save_failed"
    /\ MessageFree(w)
    /\ SaveTicket(w, RowWith(w, "failed"))
    /\ Goto(w, "mark_failed")
    /\ UNCHANGED <<orderStatus, job, stallChat, kitchen, handler, unreviewed, budget>>

\* Where an exception thrown by the database statement at each point lands:
\* dispatchToTelegram catches what follows the send, the run loop catches the
\* rest and marks the job non-terminally, and a fault there ends the run.
FaultTarget(pc) ==
    CASE pc \in {"reload", "save_sent"} -> "save_failed"
      [] pc = "mark_catch" -> "idle"
      [] OTHER -> "mark_catch"

\* The chat re-read after the send is another one, in which that message id
\* belongs to an earlier ticket: both saves throw on the unique key.
SaveRefused(w) ==
    /\ worker[w].pc \in {"save_sent", "save_failed"}
    /\ ~MessageFree(w)
    /\ Goto(w, FaultTarget(worker[w].pc))
    /\ UNCHANGED <<orderStatus, job, tickets, stallChat, kitchen, handler,
                   unreviewed, budget>>

MarkSent(w) ==
    /\ worker[w].pc = "mark_sent"
    /\ SaveJob(w, "sent")
    /\ Rest(w)
    /\ UNCHANGED <<orderStatus, tickets, stallChat, kitchen, handler, unreviewed, budget>>

ShouldStop(w) == worker[w].pc = "mark_terminal" \/ worker[w].attempts >= MaxAttempts

MarkFailed(w) ==
    /\ worker[w].pc \in {"mark_terminal", "mark_failed", "mark_catch"}
    /\ SaveJob(w, IF ShouldStop(w) THEN "failed" ELSE "retry")
    /\ Rest(w)
    /\ UNCHANGED <<orderStatus, tickets, stallChat, kitchen, handler, unreviewed, budget>>

WorkerStep(w) ==
    \/ Inspect(w) \/ FailPendingTicket(w) \/ LookupTicket(w)
    \/ OpenTicket(w) \/ SkipDispatch(w)
    \/ SendAcknowledged(w) \/ SendAnswerLost(w) \/ SendRejected(w)
    \/ ReloadChat(w) \/ SaveSent(w) \/ SaveFailed(w) \/ SaveRefused(w)
    \/ MarkSent(w) \/ MarkFailed(w)
-----------------------------------------------------------------------------
(* What goes wrong around the worker. *)

\* A statement of the worker fails.
DatabaseFault(w) ==
    LET target == FaultTarget(worker[w].pc) IN
    /\ worker[w].pc \notin {"idle", "calling"}
    /\ budget.faults > 0
    /\ IF target = "idle" THEN Rest(w) ELSE Goto(w, target)
    /\ budget' = [budget EXCEPT !.faults = @ - 1]
    /\ UNCHANGED <<orderStatus, job, tickets, stallChat, kitchen, handler, unreviewed>>

\* The process stops: what it held in memory is gone, its rows stay.
Crash(w) ==
    /\ worker[w].pc # "idle"
    /\ budget.crashes > 0
    /\ Rest(w)
    /\ unreviewed' = IF worker[w].pc \in {"calling", "reload", "save_sent"}
                     THEN unreviewed \cup {worker[w].order} ELSE unreviewed
    /\ budget' = [budget EXCEPT !.crashes = @ - 1]
    /\ UNCHANGED <<orderStatus, job, tickets, stallChat, kitchen, handler>>

WorkingOn(w, o) == worker[w].pc # "idle" /\ worker[w].order = o

\* Only MaxSlow times does the lock timeout pass while the dispatch still runs.
LeaseExpires(o) ==
    LET running == \E w \in Workers : WorkingOn(w, o) IN
    /\ job[o].status = "processing"
    /\ ~job[o].stale
    /\ running => budget.slow > 0
    /\ job' = [job EXCEPT ![o].stale = TRUE]
    /\ budget' = [budget EXCEPT !.slow = IF running THEN @ - 1 ELSE @]
    /\ UNCHANGED <<orderStatus, tickets, stallChat, kitchen, worker, handler, unreviewed>>

BackoffEnds(o) ==
    /\ job[o].status = "retry"
    /\ ~job[o].due
    /\ job' = [job EXCEPT ![o].due = TRUE]
    /\ UNCHANGED <<orderStatus, tickets, stallChat, kitchen, worker, handler,
                   unreviewed, budget>>
-----------------------------------------------------------------------------
(* Requests: retryTelegramDispatch and the cook's Done button. *)

EndRequest(h) == handler' = [handler EXCEPT ![h] = IdleHandler]

RetryCheck(h, o) ==
    /\ handler[h].pc = "idle"
    /\ budget.requeues > 0
    /\ orderStatus[o] = "paid"
    /\ LatestStatus(o) \in {"none", "failed"}
    /\ HasKitchenChat
    /\ handler' = [handler EXCEPT ![h].pc = "requeue", ![h].order = o]
    /\ budget' = [budget EXCEPT !.requeues = @ - 1]
    /\ UNCHANGED <<orderStatus, job, tickets, stallChat, kitchen, worker, unreviewed>>

\* requeueTelegramDispatchJob, under the row lock: only a failed or absent job.
Requeueable(o) == job[o].status \in {"none", "failed"}

RequeueJob(h) ==
    LET o == handler[h].order IN
    /\ handler[h].pc = "requeue"
    /\ job' = [job EXCEPT ![o] = IF Requeueable(o) THEN PendingJob ELSE @]
    /\ unreviewed' = IF Requeueable(o) THEN unreviewed \ {o} ELSE unreviewed
    /\ EndRequest(h)
    /\ UNCHANGED <<orderStatus, tickets, stallChat, kitchen, worker, budget>>

\* Faulty variant: message ids compared without their chat.
TicketMatchesById(o, t, m) == tickets[o][t].msg = kitchen[m].id

TicketMatches(o, t, m) ==
    /\ tickets[o][t].chat = kitchen[m].chat
    /\ tickets[o][t].msg = kitchen[m].id

\* processTelegramCallback: the ticket must match order, chat and message, the
\* stall must still use that chat, and the ticket must be sent.
TapDone(h, m) ==
    LET o == kitchen[m].order IN
    /\ handler[h].pc = "idle"
    /\ kitchen[m].button
    /\ stallChat = kitchen[m].chat
    /\ orderStatus[o] = "paid"
    /\ \E t \in DOMAIN tickets[o] :
          /\ TicketMatches(o, t, m)
          /\ tickets[o][t].status = "sent"
          /\ handler' = [handler EXCEPT ![h] =
                 [pc |-> "complete", order |-> o, ticket |-> t, message |-> m]]
    /\ UNCHANGED <<orderStatus, job, tickets, stallChat, kitchen, worker,
                   unreviewed, budget>>

\* completeTelegramTicketAtomically finds the row again under its lock.
Completes(h) ==
    LET o == handler[h].order
        t == handler[h].ticket
    IN  TicketMatches(o, t, handler[h].message) /\ tickets[o][t].status = "sent"

CompleteTicket(h) ==
    LET o == handler[h].order
        t == handler[h].ticket
    IN
    /\ handler[h].pc = "complete"
    /\ IF Completes(h)
       THEN /\ tickets' = [tickets EXCEPT ![o][t].status = "done"]
            /\ handler' = [handler EXCEPT ![h].pc = "edit"]
       ELSE /\ UNCHANGED tickets
            /\ EndRequest(h)
    /\ UNCHANGED <<orderStatus, job, stallChat, kitchen, worker, unreviewed, budget>>

\* editMessageDone removes the button, or fails and leaves it.
EditDone(h) ==
    /\ handler[h].pc = "edit"
    /\ \/ kitchen' = [kitchen EXCEPT ![handler[h].message].button = FALSE]
       \/ UNCHANGED kitchen
    /\ EndRequest(h)
    /\ UNCHANGED <<orderStatus, job, tickets, stallChat, worker, unreviewed, budget>>

\* consumeConnection moves the stall to another group.
ReconnectChat(c) ==
    /\ budget.reconnects > 0
    /\ stallChat # c
    /\ stallChat' = c
    /\ budget' = [budget EXCEPT !.reconnects = @ - 1]
    /\ UNCHANGED <<orderStatus, job, tickets, kitchen, worker, handler, unreviewed>>
-----------------------------------------------------------------------------
OrderEvent(o) == ConfirmPayment(o) \/ LeaseExpires(o) \/ BackoffEnds(o)

Next ==
    \/ \E o \in Orders : OrderEvent(o)
    \/ \E w \in Workers, o \in Orders : Claim(w, o)
    \/ \E w \in Workers : WorkerStep(w) \/ DatabaseFault(w) \/ Crash(w)
    \/ \E h \in Handlers, o \in Orders : RetryCheck(h, o)
    \/ \E h \in Handlers, m \in DOMAIN kitchen : TapDone(h, m)
    \/ \E h \in Handlers : RequeueJob(h) \/ CompleteTicket(h) \/ EditDone(h)
    \/ \E c \in Chats : ReconnectChat(c)

Spec == Init /\ [][Next]_vars

(***************************************************************************)
(* The worker timer fires while any process runs, so a claimable job is    *)
(* claimed: the claim takes the job that became due first, hence fairness  *)
(* per order.  A running worker takes its next step, backoffs and leases   *)
(* end with the clock, and a started requeue finishes.  Nobody has to pay, *)
(* press Done, retry or reconnect.                                         *)
(***************************************************************************)
Fairness ==
    /\ \A o \in Orders : /\ SF_vars(\E w \in Workers : Claim(w, o))
                         /\ WF_vars(LeaseExpires(o))
                         /\ WF_vars(BackoffEnds(o))
    /\ \A w \in Workers : WF_vars(WorkerStep(w))
    /\ \A h \in Handlers : WF_vars(RequeueJob(h))

FairSpec == Spec /\ Fairness
-----------------------------------------------------------------------------
(* Safety. *)

\* As long as no dispatch has outlasted the lock timeout, a job is worked on only
\* by the worker that holds its unexpired lock, so two processes never dispatch
\* the same order at once (claimNextTelegramDispatchJob).
ClaimExclusive ==
    budget.slow = MaxSlow =>
        \A w \in Workers, o \in Orders :
            WorkingOn(w, o) => /\ job[o].status = "processing"
                               /\ job[o].lockedBy = w
                               /\ ~job[o].stale

\* As long as no dispatch has outlasted the lock timeout, a kitchen ticket is opened
\* for an order only when all its earlier tickets have failed, across crashes,
\* retries and requeues (dispatchToTelegram).
EarlierTicketsFailed ==
    budget.slow = MaxSlow =>
        \A o \in Orders : \A t \in DOMAIN tickets[o] :
            t < Len(tickets[o]) => tickets[o][t].status = "failed"

\* A ticket recorded as sent or done carries the id of a message of that order
\* that Telegram really shows.
SentTicketShown ==
    \A o \in Orders : \A t \in DOMAIN tickets[o] :
        tickets[o][t].status \in {"sent", "done"} =>
            \E m \in DOMAIN kitchen : /\ kitchen[m].order = o
                                      /\ kitchen[m].id = tickets[o][t].msg

\* A ticket is completed only from a message of its own order, shown in the chat
\* the ticket names (processTelegramCallback).
DoneFromItsMessage ==
    \A o \in Orders : \A t \in DOMAIN tickets[o] :
        tickets[o][t].status = "done" =>
            \E m \in DOMAIN kitchen :
                /\ kitchen[m].order = o
                /\ kitchen[m].chat = tickets[o][t].chat
                /\ kitchen[m].id = tickets[o][t].msg

\* As long as no dispatch has outlasted the lock timeout, the outbox calls an order
\* delivered only when its latest ticket is.
SentJobDelivered ==
    budget.slow = MaxSlow =>
        \A o \in Orders :
            job[o].status = "sent" => LatestStatus(o) \in {"sent", "done"}

\* The attempt limit is overrun only by dispatches that were cut short: each
\* crash, database fault or outlasted lock buys at most one claim beyond
\* MaxAttempts.
Interruptions == (MaxCrashes - budget.crashes) + (MaxFaults - budget.faults)
                 + (MaxSlow - budget.slow)

AttemptsBounded ==
    \A o \in Orders : job[o].attempts <= MaxAttempts + Interruptions
-----------------------------------------------------------------------------
(* Action properties. *)

\* Once the cook has completed a ticket nothing changes it: no late save, retry
\* or second tap reopens or fails it, as long as no dispatch has outlasted the
\* lock timeout.
DoneIsFinal ==
    [][budget.slow = MaxSlow =>
          \A o \in Orders : \A t \in DOMAIN tickets[o] :
              tickets[o][t].status = "done" => tickets'[o][t] = tickets[o][t]]_vars

\* "If the process stops while a Telegram sendMessage result is unknown, the
\* worker marks the pending ticket/job failed for manual review instead of
\* automatically risking a duplicate kitchen message" (context/architecture.md):
\* no new ticket is opened for such an order until staff requeue it.
UnknownSendAwaitsReview ==
    [][\A o \in unreviewed : Len(tickets'[o]) = Len(tickets[o])]_vars
-----------------------------------------------------------------------------
(* Liveness. *)

\* Every paid order is eventually delivered or handed to staff as failed.
PaidOrderSettles ==
    \A o \in Orders : orderStatus[o] = "paid" ~> job[o].status \in {"sent", "failed"}

\* A ticket that is pending, which nobody may retry, does not stay so: the
\* backend marks it sent or failed (docs/api/endpoints.md, telegram/retry),
\* unless the database refuses a statement meanwhile.
PendingTicketResolves ==
    \A o \in Orders :
        LatestStatus(o) = "pending"
            ~> LatestStatus(o) # "pending" \/ budget.faults < MaxFaults
=============================================================================

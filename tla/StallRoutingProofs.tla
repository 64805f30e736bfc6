-------------------------- MODULE StallRoutingProofs --------------------------
(***************************************************************************)
(* Proofs about StallRouting: its states are well formed, every chat has   *)
(* at most one stall, the routing implements ChatDirectory, a link is      *)
(* spent once, and tickets follow their group through a migration.         *)
(*                                                                         *)
(* The inductive invariant adds to TypeOK what a request knows once it is  *)
(* under way: Connect and Migrate write a chat they took from their own    *)
(* memory, so its range has to be known in the state before.               *)
(***************************************************************************)
EXTENDS StallRouting, FiniteSetTheorems, TLAPS

Underway ==
    /\ \A l \in Links : link[l].state # "none" => link[l].stall \in Stalls
    /\ \A r \in Starts : start[r].pc # "idle" =>
          /\ start[r].link \in Links
          /\ start[r].chat \in Chats
          /\ link[start[r].link].state \notin {"none", "asked"}
    /\ \A k \in Tickets : send[k].pc # "idle" => send[k].chat \in Chats
    /\ \A h \in Taps : tap[h].pc = "complete" => tap[h].ticket \in Tickets

IInv == TypeOK /\ Underway /\ OneStallPerChat

USE NoneAssumption, StallOfAssumption, BoundsAssumption

LEMMA LiveChatIsChat ==
    ASSUME NEW g \in Groups
    PROVE  LiveChat(g) \in Chats
BY DEF LiveChat, Chats

LEMMA NewChatIsChat ==
    ASSUME NEW k \in Tickets, send[k].chat \in Chats
    PROVE  NewChat(k) \in Chats
BY LiveChatIsChat DEF NewChat, Chats

LEMMA InitHolds == Init => IInv
BY DEF Init, IInv, TypeOK, Underway, OneStallPerChat, Active, LinkRow,
       StartMemory, TicketRow, SendMemory, TapMemory

\* Nothing that leaves the stalls as they are can give a chat a second one.
LEMMA SameStalls ==
    ASSUME OneStallPerChat, UNCHANGED <<chatOf, deleted>>
    PROVE  OneStallPerChat'
BY DEF OneStallPerChat, Active

\* A stall that takes a chat no other active stall has keeps the chats apart.
LEMMA TakenChatIsFree ==
    ASSUME TypeOK, OneStallPerChat, NEW s \in Stalls, NEW c \in Chats,
           FreeFor(s, c), chatOf' = [chatOf EXCEPT ![s] = c], UNCHANGED deleted
    PROVE  OneStallPerChat'
BY DEF TypeOK, OneStallPerChat, Active, FreeFor

LEMMA LinkSteps ==
    ASSUME IInv, NEW l \in Links,
           (\E s \in Stalls : AskLink(l, s)) \/ CreateLink(l) \/ ExpireLink(l)
    PROVE  IInv'
<1>1. UNCHANGED <<chatOf, deleted, start, dispatch, kitchen, upgraded>>
  BY DEF AskLink, CreateLink, ExpireLink
<1>2. OneStallPerChat'
  BY <1>1, SameStalls DEF IInv
<1>3. CASE \E s \in Stalls : AskLink(l, s)
  <2>1. PICK s \in Stalls : AskLink(l, s)
    BY <1>3
  <2>2. TypeOK'
    BY <2>1 DEF IInv, AskLink, TypeOK, LinkRow, dispatch, kitchen
  <2>3. Underway'
    BY <2>1 DEF IInv, AskLink, TypeOK, LinkRow, Underway, dispatch, kitchen
  <2> QED BY <1>2, <2>2, <2>3 DEF IInv
<1>4. CASE CreateLink(l)
  <2>1. \A m \in Links : \/ link'[m] = link[m]
                         \/ m = l /\ link'[m] = [link[m] EXCEPT !.state = "open"]
                         \/ m \in Replaces(l) /\ link'[m] = [link[m] EXCEPT !.state = "replaced"]
    BY <1>4 DEF CreateLink
  <2>2. link' \in [Links -> LinkRow]
    <3>1. ASSUME NEW m \in Links PROVE link'[m] \in LinkRow
      <4>1. link[m] \in LinkRow
        BY DEF IInv, TypeOK
      <4> QED BY <2>1, <4>1 DEF LinkRow
    <3>2. link' = [m \in Links |-> link'[m]]
      BY <1>4 DEF CreateLink
    <3> QED BY <3>1, <3>2
  <2>3. TypeOK'
    BY <1>4, <2>2 DEF IInv, CreateLink, TypeOK, dispatch, kitchen
  <2>4. \A m \in Links : /\ link'[m].stall = link[m].stall
                         /\ link'[m].state = "none" <=> link[m].state = "none"
                         /\ link[m].state \notin {"none", "asked"}
                              => link'[m].state \notin {"none", "asked"}
    <3>1. link \in [Links -> LinkRow] /\ link[l].state = "asked"
      BY <1>4 DEF IInv, TypeOK, CreateLink
    <3> TAKE m \in Links
    <3>2. CASE link'[m] = link[m]
      BY <3>2
    <3>3. CASE m = l /\ link'[m] = [link[m] EXCEPT !.state = "open"]
      BY <3>1, <3>3 DEF LinkRow
    <3>4. CASE m \in Replaces(l) /\ link'[m] = [link[m] EXCEPT !.state = "replaced"]
      BY <3>1, <3>4 DEF LinkRow, Replaces
    <3> QED BY <2>1, <3>2, <3>3, <3>4
  <2>5. \A m \in Links : link'[m].state # "none" => link'[m].stall \in Stalls
    BY <2>4 DEF IInv, Underway
  <2>6. Underway'
    BY <1>4, <2>4, <2>5 DEF IInv, CreateLink, Underway, dispatch, kitchen
  <2> QED BY <1>2, <2>3, <2>6 DEF IInv
<1>5. CASE ExpireLink(l)
  <2>1. TypeOK'
    BY <1>5 DEF IInv, ExpireLink, TypeOK, dispatch, kitchen
  <2>2. Underway'
    BY <1>5 DEF IInv, ExpireLink, Underway, dispatch, kitchen
  <2> QED BY <1>2, <2>1, <2>2 DEF IInv
<1> QED BY <1>3, <1>4, <1>5

LEMMA StallSteps ==
    ASSUME IInv, NEW s \in Stalls, DeleteStall(s)
    PROVE  IInv'
<1>1. TypeOK'
  BY DEF IInv, DeleteStall, TypeOK, dispatch, kitchen
<1>2. Underway'
  BY DEF IInv, DeleteStall, Underway, dispatch, kitchen
<1>3. OneStallPerChat'
  BY DEF IInv, DeleteStall, OneStallPerChat, Active
<1> QED BY <1>1, <1>2, <1>3 DEF IInv

LEMMA StartSteps ==
    ASSUME IInv, NEW r \in Starts,
           StartStep(r) \/ \E l \in Links, g \in Groups : ReceiveStart(r, l, g)
    PROVE  IInv'
<1>1. CASE \E l \in Links, g \in Groups : ReceiveStart(r, l, g)
  <2>1. PICK l \in Links, g \in Groups : ReceiveStart(r, l, g)
    BY <1>1
  <2>2. LiveChat(g) \in Chats
    BY LiveChatIsChat
  <2>3. TypeOK'
    BY <2>1, <2>2 DEF IInv, ReceiveStart, TypeOK, StartMemory, routes, dispatch, kitchen
  <2>4. Underway'
    BY <2>1, <2>2 DEF IInv, ReceiveStart, TypeOK, StartMemory, Underway, routes, dispatch, kitchen
  <2>5. OneStallPerChat'
    BY <2>1, SameStalls DEF IInv, ReceiveStart, routes
  <2> QED BY <2>3, <2>4, <2>5 DEF IInv
<1>2. CASE LockLink(r) \/ LockStall(r) \/ StartLosesDeadlock(r)
  <2>1. PICK pc \in {"stall", "search", "done"} :
          /\ start[r].pc # "idle"
          /\ start' = [start EXCEPT ![r].pc = pc]
          /\ UNCHANGED <<routes, dispatch, kitchen, upgraded, budget>>
    BY <1>2 DEF LockLink, LockStall, StartLosesDeadlock, EndStart
  <2>2. TypeOK'
    BY <2>1 DEF IInv, TypeOK, StartMemory, routes, dispatch, kitchen
  <2>3. \A q \in Starts : start'[q].pc # "idle" =>
           start[q].pc # "idle" /\ start'[q].link = start[q].link /\ start'[q].chat = start[q].chat
    BY <2>1 DEF IInv, TypeOK, StartMemory
  <2>4. Underway'
    BY <2>1, <2>3 DEF IInv, Underway, routes, dispatch, kitchen
  <2>5. OneStallPerChat'
    BY <2>1, SameStalls DEF IInv, routes
  <2> QED BY <2>2, <2>4, <2>5 DEF IInv
<1>3. CASE Connect(r)
  <2> DEFINE l == start[r].link
             s == link[l].stall
             c == start[r].chat
  <2>1. /\ l \in Links /\ s \in Stalls /\ c \in Chats
        /\ link[l].state \notin {"none", "asked"}
    BY <1>3 DEF IInv, Underway, Connect
  <2>2. CASE FreeFor(s, c)
    <3>1. /\ chatOf' = [chatOf EXCEPT ![s] = c]
          /\ link' = [link EXCEPT ![l].state = "consumed"]
          /\ start' = [start EXCEPT ![r].pc = "done"]
          /\ UNCHANGED <<deleted, expired, dispatch, kitchen, upgraded, budget>>
      BY <1>3, <2>2 DEF Connect, EndStart
    <3>2. TypeOK'
      BY <2>1, <3>1 DEF IInv, TypeOK, LinkRow, StartMemory, dispatch, kitchen
    <3>3. \A q \in Starts : start'[q].pc # "idle" =>
             start[q].pc # "idle" /\ start'[q].link = start[q].link /\ start'[q].chat = start[q].chat
      BY <1>3, <3>1 DEF IInv, TypeOK, StartMemory, Connect
    <3>4. \A m \in Links : /\ link'[m].stall = link[m].stall
                           /\ link'[m].state = "none" <=> link[m].state = "none"
                           /\ link[m].state \notin {"none", "asked"}
                                => link'[m].state \notin {"none", "asked"}
      BY <2>1, <3>1 DEF IInv, TypeOK, LinkRow
    <3>5. Underway'
      BY <3>1, <3>3, <3>4 DEF IInv, Underway, dispatch, kitchen
    <3>6. OneStallPerChat'
      BY <2>1, <2>2, <3>1, TakenChatIsFree DEF IInv
    <3> QED BY <3>2, <3>5, <3>6 DEF IInv
  <2>3. CASE ~FreeFor(s, c)
    <3>1. /\ start' = [start EXCEPT ![r].pc = "done"]
          /\ UNCHANGED <<routes, dispatch, kitchen, upgraded, budget>>
      BY <1>3, <2>3 DEF Connect, EndStart
    <3>2. TypeOK'
      BY <3>1 DEF IInv, TypeOK, StartMemory, routes, dispatch, kitchen
    <3>3. Underway'
      BY <2>1, <3>1, <1>3 DEF IInv, TypeOK, StartMemory, Underway, routes, dispatch, kitchen, Connect
    <3>4. OneStallPerChat'
      BY <3>1, SameStalls DEF IInv, routes
    <3> QED BY <3>2, <3>3, <3>4 DEF IInv
  <2> QED BY <2>2, <2>3
<1> QED BY <1>1, <1>2, <1>3 DEF StartStep

\* What every step of a dispatch but a migration may do to the memory.
LEMMA SendMoves ==
    ASSUME IInv, NEW k \in Tickets, ReadStall(k) \/ SendStep(k), ~Migrate(k)
    PROVE  IInv'
<1>1. UNCHANGED <<routes, start, kitchen, upgraded>>
  BY DEF ReadStall, SendStep, InsertTicket, Deliver, CallFails, LearnMigration,
         LockForMigration, MigrationRefused, Resend, ReloadStall, SaveSent
<1>2. OneStallPerChat'
  BY <1>1, SameStalls DEF IInv, routes
<1>3. /\ send' \in [Tickets -> SendMemory]
      /\ \A t \in Tickets : send'[t].pc # "idle" => send'[t].chat \in Chats
  <2>0. /\ send \in [Tickets -> SendMemory]
        /\ chatOf[StallOf[k]] \in Chats \cup {None}
        /\ \A t \in Tickets : send[t].pc # "idle" => send[t].chat \in Chats
    BY DEF IInv, TypeOK, Underway
  <2>1. CASE ReadStall(k)
    <3>1. send' = [send EXCEPT ![k].pc = "insert", ![k].chat = chatOf[StallOf[k]]]
      BY <2>1 DEF ReadStall
    <3>2. chatOf[StallOf[k]] \in Chats
      BY <2>0, <2>1 DEF ReadStall
    <3> QED BY <2>0, <3>1, <3>2 DEF SendMemory
  <2>2. CASE NextTry(k) /\ send[k].pc # "idle"
    BY <2>0, <2>2 DEF NextTry, SendMemory
  <2>3. CASE ReloadStall(k)
    <3>1. send' = [send EXCEPT ![k].pc = "save", ![k].final = chatOf[StallOf[k]]]
      BY <2>3 DEF ReloadStall
    <3>2. send[k].chat \in Chats
      BY <2>0, <2>3 DEF ReloadStall
    <3> QED BY <2>0, <3>1, <3>2 DEF SendMemory
  <2>4. CASE /\ send[k].pc # "idle"
             /\ \E pc \in {"call", "stall", "search", "resend", "reload", "done"} :
                   send' = [send EXCEPT ![k].pc = pc]
    <3>1. PICK pc \in {"call", "stall", "search", "resend", "reload", "done"} :
            send' = [send EXCEPT ![k].pc = pc]
      BY <2>4
    <3> QED BY <2>0, <2>4, <3>1 DEF SendMemory
  <2> QED BY <2>1, <2>2, <2>3, <2>4
          DEF SendStep, InsertTicket, Deliver, CallFails, LearnMigration,
              LockForMigration, MigrationRefused, Resend, SaveSent
<1>4. ticket' \in [Tickets -> TicketRow]
  <2>1. CASE NextTry(k)
    BY <2>1 DEF NextTry, IInv, TypeOK, TicketRow
  <2>2. CASE InsertTicket(k)
    BY <2>2 DEF InsertTicket, IInv, TypeOK, Underway, TicketRow
  <2>3. CASE SaveSent(k)
    <3>1. SavedChat(k) \in Chats \cup {None}
      BY DEF SavedChat, IInv, TypeOK, TicketRow, SendMemory
    <3> QED BY <2>3, <3>1 DEF SaveSent, IInv, TypeOK, TicketRow
  <2>4. CASE UNCHANGED ticket
    BY <2>4 DEF IInv, TypeOK
  <2> QED BY <2>1, <2>2, <2>3, <2>4
          DEF ReadStall, SendStep, Deliver, CallFails, LearnMigration,
              LockForMigration, MigrationRefused, Resend, ReloadStall
<1>5. shown' \in [Tickets -> Chats \cup {None}]
  <2>1. CASE Deliver(k)
    BY <2>1 DEF Deliver, IInv, TypeOK, Underway
  <2>2. CASE Resend(k)
    BY <2>2, NewChatIsChat DEF Resend, IInv, TypeOK, Underway
  <2>3. CASE UNCHANGED shown
    BY <2>3 DEF IInv, TypeOK
  <2> QED BY <2>1, <2>2, <2>3
          DEF ReadStall, SendStep, InsertTicket, CallFails, LearnMigration,
              LockForMigration, MigrationRefused, ReloadStall, SaveSent
<1>6. budget' \in [changes : Nat, failures : Nat]
  <2>1. CASE CallFails(k)
    BY <2>1 DEF CallFails, IInv, TypeOK
  <2>2. CASE UNCHANGED budget
    BY <2>2 DEF IInv, TypeOK
  <2> QED BY <2>1, <2>2
          DEF ReadStall, SendStep, InsertTicket, Deliver, LearnMigration,
              LockForMigration, MigrationRefused, Resend, ReloadStall, SaveSent
<1>7. TypeOK'
  BY <1>1, <1>3, <1>4, <1>5, <1>6 DEF IInv, TypeOK, routes, kitchen
<1>8. Underway'
  BY <1>1, <1>3 DEF IInv, Underway, routes, kitchen
<1> QED BY <1>2, <1>7, <1>8 DEF IInv

LEMMA MigrateStep ==
    ASSUME IInv, NEW k \in Tickets, Migrate(k)
    PROVE  IInv'
<1>1. NewChat(k) \in Chats /\ StallOf[k] \in Stalls
  BY NewChatIsChat DEF IInv, Underway, Migrate
<1>2. ticket' \in [Tickets -> TicketRow]
  <2>1. ticket \in [Tickets -> TicketRow]
    BY DEF IInv, TypeOK
  <2>2. ticket' = [t \in Tickets |->
           IF Moves(k, t) THEN [ticket[t] EXCEPT !.chat = NewChat(k)] ELSE ticket[t]]
    BY DEF Migrate
  <2> QED BY <1>1, <2>1, <2>2 DEF TicketRow
<1>3. send' \in [Tickets -> SendMemory]
  <2>1. send \in [Tickets -> SendMemory] /\ send' = [send EXCEPT ![k].pc = "resend"]
    BY DEF Migrate, IInv, TypeOK
  <2> QED BY <2>1 DEF SendMemory
<1>4. TypeOK'
  BY <1>1, <1>2, <1>3 DEF Migrate, IInv, TypeOK, kitchen
<1>5. Underway'
  BY DEF Migrate, IInv, TypeOK, SendMemory, Underway, kitchen
<1>6. OneStallPerChat'
  BY <1>1, TakenChatIsFree DEF Migrate, IInv
<1> QED BY <1>4, <1>5, <1>6 DEF IInv

LEMMA KitchenSteps ==
    ASSUME IInv,
           \/ \E s \in Stalls, u \in Cooks : AuthorizeCook(s, u) \/ RevokeCook(s, u)
           \/ \E h \in Taps, k \in Tickets, u \in Cooks : CheckTap(h, k, u)
           \/ \E h \in Taps : CompleteTap(h)
           \/ \E g \in Groups : Upgrade(g)
    PROVE  IInv'
<1>1. UNCHANGED <<routes, start, send, shown>>
  BY DEF AuthorizeCook, RevokeCook, CheckTap, CompleteTap, Upgrade, dispatch
<1>2. OneStallPerChat'
  BY <1>1, SameStalls DEF IInv, routes
<1>3. CASE \E s \in Stalls, u \in Cooks : AuthorizeCook(s, u) \/ RevokeCook(s, u)
  <2>1. TypeOK' /\ Underway'
    BY <1>3 DEF AuthorizeCook, RevokeCook, IInv, TypeOK, Underway, routes, dispatch
  <2> QED BY <1>2, <2>1 DEF IInv
<1>4. CASE \E h \in Taps, k \in Tickets, u \in Cooks : CheckTap(h, k, u)
  <2>1. TypeOK' /\ Underway'
    BY <1>4 DEF CheckTap, IInv, TypeOK, TapMemory, Underway, routes, dispatch
  <2> QED BY <1>2, <2>1 DEF IInv
<1>5. CASE \E h \in Taps : CompleteTap(h)
  <2>1. PICK h \in Taps : CompleteTap(h)
    BY <1>5
  <2>2. ticket' \in [Tickets -> TicketRow]
    <3>1. ticket' = ticket \/ ticket' = [ticket EXCEPT ![tap[h].ticket].status = "done"]
      BY <2>1 DEF CompleteTap
    <3>2. ticket \in [Tickets -> TicketRow]
      BY DEF IInv, TypeOK
    <3> QED BY <3>1, <3>2 DEF TicketRow
  <2>3. tap' \in [Taps -> TapMemory]
    <3>1. tap \in [Taps -> TapMemory] /\ tap' = [tap EXCEPT ![h].pc = "done"]
      BY <2>1 DEF CompleteTap, IInv, TypeOK
    <3> QED BY <3>1 DEF TapMemory
  <2>4. TypeOK'
    BY <2>1, <2>2, <2>3 DEF CompleteTap, IInv, TypeOK, routes
  <2>5. Underway'
    BY <2>1 DEF CompleteTap, IInv, TypeOK, TapMemory, Underway, routes
  <2> QED BY <1>2, <2>4, <2>5 DEF IInv
<1>6. CASE \E g \in Groups : Upgrade(g)
  <2>1. TypeOK' /\ Underway'
    BY <1>6 DEF Upgrade, IInv, TypeOK, Underway, routes, dispatch, kitchen
  <2> QED BY <1>2, <2>1 DEF IInv
<1> QED BY <1>3, <1>4, <1>5, <1>6

LEMMA StutterStep ==
    ASSUME IInv, UNCHANGED vars
    PROVE  IInv'
BY DEF IInv, TypeOK, Underway, OneStallPerChat, Active, vars

LEMMA NextHolds == IInv /\ [Next]_vars => IInv'
BY LinkSteps, StallSteps, StartSteps, SendMoves, MigrateStep, KitchenSteps, StutterStep
   DEF Next

LEMMA InvariantHolds == Spec => []IInv
BY InitHolds, NextHolds, PTL DEF Spec

\* Every reachable state of the routing is well formed.
THEOREM TypeCorrect == Spec => []TypeOK
BY InvariantHolds, PTL DEF IInv

\* No two active stalls are ever connected to one chat.
THEOREM ChatsHaveOneStall == Spec => []OneStallPerChat
BY InvariantHolds, PTL DEF IInv
-----------------------------------------------------------------------------
(* Refinement: the owner of a chat is the active stall connected to it.    *)

LEMMA OwnerIsTheStall ==
    ASSUME OneStallPerChat, NEW c \in Chats, NEW s \in Stalls
    PROVE  OwnerOf(c) = s <=> Active(s) /\ chatOf[s] = c
<1>1. CASE Active(s) /\ chatOf[s] = c
  <2>1. \A z \in Stalls : Active(z) /\ chatOf[z] = c => z = s
    BY <1>1 DEF OneStallPerChat
  <2> QED BY <1>1, <2>1 DEF OwnerOf
<1>2. CASE ~(Active(s) /\ chatOf[s] = c)
  <2>1. CASE \E z \in Stalls : Active(z) /\ chatOf[z] = c
    BY <1>2, <2>1 DEF OwnerOf
  <2>2. CASE ~\E z \in Stalls : Active(z) /\ chatOf[z] = c
    BY <1>2, <2>2 DEF OwnerOf
  <2> QED BY <2>1, <2>2
<1> QED BY <1>1, <1>2

LEMMA OwnerIsAStall ==
    ASSUME NEW c \in Chats
    PROVE  OwnerOf(c) \in Stalls \cup {None}
BY DEF OwnerOf

\* The same of the state after a step.
LEMMA NextOwnerIsTheStall ==
    ASSUME OneStallPerChat', NEW c \in Chats, NEW s \in Stalls
    PROVE  OwnerOf(c)' = s <=> Active(s)' /\ chatOf'[s] = c
<1>1. CASE Active(s)' /\ chatOf'[s] = c
  <2>1. \A z \in Stalls : Active(z)' /\ chatOf'[z] = c => z = s
    BY <1>1 DEF OneStallPerChat, Active
  <2> QED BY <1>1, <2>1 DEF OwnerOf, Active
<1>2. CASE ~(Active(s)' /\ chatOf'[s] = c)
  <2>1. CASE \E z \in Stalls : Active(z)' /\ chatOf'[z] = c
    BY <1>2, <2>1 DEF OwnerOf, Active
  <2>2. CASE ~\E z \in Stalls : Active(z)' /\ chatOf'[z] = c
    BY <1>2, <2>2 DEF OwnerOf, Active
  <2> QED BY <2>1, <2>2
<1> QED BY <1>1, <1>2

LEMMA NextOwnerIsAStall ==
    ASSUME NEW c \in Chats
    PROVE  OwnerOf(c)' \in Stalls \cup {None}
BY DEF OwnerOf, Active

LEMMA InitRefines == Init => Directory!Init
BY DEF Init, Directory!Init, owners, OwnerOf, Active

\* Taking a free chat, or the chat the stall has already, is a step of the
\* directory or none.
LEMMA TakingRefines ==
    ASSUME OneStallPerChat, OneStallPerChat', NEW s \in Stalls, NEW c \in Chats,
           chatOf \in [Stalls -> Chats \cup {None}], FreeFor(s, c),
           chatOf' = [chatOf EXCEPT ![s] = c], UNCHANGED deleted
    PROVE  [Directory!Next]_owners
<1>1. CASE ~Active(s) \/ chatOf[s] = c
  <2>1. \A x \in Chats, z \in Stalls : Active(z)' /\ chatOf'[z] = x <=> Active(z) /\ chatOf[z] = x
    BY <1>1 DEF Active
  <2>2. \A x \in Chats : OwnerOf(x)' = OwnerOf(x)
    BY <2>1, OwnerIsTheStall, NextOwnerIsTheStall, OwnerIsAStall, NextOwnerIsAStall
  <2> QED BY <2>2 DEF owners
<1>2. CASE Active(s) /\ chatOf[s] # c
  <2>1. OwnerOf(c) = None
    BY <1>2, OwnerIsTheStall, NextOwnerIsTheStall, OwnerIsAStall, NextOwnerIsAStall DEF FreeFor
  <2>2. OwnerOf(c)' = s
    BY <1>2, OwnerIsTheStall, NextOwnerIsTheStall DEF Active
  <2>3. ASSUME NEW x \in Chats, x # c
        PROVE  OwnerOf(x)' = IF OwnerOf(x) = s THEN None ELSE OwnerOf(x)
    <3>1. Active(s)' /\ chatOf'[s] = c
      BY <1>2 DEF Active
    <3>2. \A z \in Stalls : z # s => (Active(z)' /\ chatOf'[z] = x <=> Active(z) /\ chatOf[z] = x)
      BY DEF Active
    <3>3. OwnerOf(x)' # s
      BY <2>3, <3>1, OwnerIsTheStall, NextOwnerIsTheStall
    <3>4. \A z \in Stalls : z # s => (OwnerOf(x)' = z <=> OwnerOf(x) = z)
      BY <3>2, OwnerIsTheStall, NextOwnerIsTheStall
    <3> QED BY <3>3, <3>4, OwnerIsAStall, NextOwnerIsAStall
  <2>4. Directory!Give(c, s)
    BY <2>1, <2>2, <2>3 DEF Directory!Give, Directory!Without, owners
  <2> QED BY <2>4 DEF Directory!Next
<1> QED BY <1>1, <1>2

LEMMA StepRefines ==
    ASSUME IInv, IInv', [Next]_vars
    PROVE  [Directory!Next]_owners
<1>1. chatOf \in [Stalls -> Chats \cup {None}] /\ OneStallPerChat /\ OneStallPerChat'
  BY DEF IInv, TypeOK
<1>2. ASSUME UNCHANGED <<chatOf, deleted>> PROVE UNCHANGED owners
  BY <1>2 DEF owners, OwnerOf, Active
<1>3. ASSUME NEW s \in Stalls, DeleteStall(s) PROVE [Directory!Next]_owners
  <2>1. Active(s) /\ UNCHANGED chatOf
    BY <1>3 DEF DeleteStall
  <2>2. \A z \in Stalls : Active(z)' <=> Active(z) /\ z # s
    BY <1>3 DEF DeleteStall, Active
  <2>3. ASSUME NEW c \in Chats
        PROVE  OwnerOf(c)' = IF OwnerOf(c) = s THEN None ELSE OwnerOf(c)
    <3>1. OwnerOf(c)' # s
      BY <1>1, <2>2, OwnerIsTheStall, NextOwnerIsTheStall
    <3>2. \A z \in Stalls : z # s => (OwnerOf(c)' = z <=> OwnerOf(c) = z)
      BY <1>1, <2>1, <2>2, OwnerIsTheStall, NextOwnerIsTheStall
    <3> QED BY <3>1, <3>2, OwnerIsAStall, NextOwnerIsAStall
  <2>4. Directory!Retire(s)
    BY <2>3 DEF Directory!Retire, Directory!Without, owners
  <2> QED BY <2>4 DEF Directory!Next
<1>4. ASSUME NEW r \in Starts, Connect(r) PROVE [Directory!Next]_owners
  <2> DEFINE s == link[start[r].link].stall
             c == start[r].chat
  <2>1. s \in Stalls /\ c \in Chats
    BY <1>4 DEF IInv, Underway, Connect
  <2>2. CASE FreeFor(s, c)
    <3>1. chatOf' = [chatOf EXCEPT ![s] = c] /\ UNCHANGED deleted
      BY <1>4, <2>2 DEF Connect
    <3> HIDE DEF s, c
    <3> QED BY <1>1, <2>1, <2>2, <3>1, TakingRefines
  <2>3. CASE ~FreeFor(s, c)
    BY <1>2, <1>4, <2>3 DEF Connect, routes
  <2> QED BY <2>2, <2>3
<1>5. ASSUME NEW k \in Tickets, Migrate(k) PROVE [Directory!Next]_owners
  <2>1. NewChat(k) \in Chats /\ StallOf[k] \in Stalls
    BY <1>5, NewChatIsChat DEF IInv, Underway, Migrate
  <2>2. /\ FreeFor(StallOf[k], NewChat(k)) /\ UNCHANGED deleted
        /\ chatOf' = [chatOf EXCEPT ![StallOf[k]] = NewChat(k)]
    BY <1>5 DEF Migrate
  <2> QED BY <1>1, <2>1, <2>2, TakingRefines
<1>6. \/ UNCHANGED <<chatOf, deleted>>
      \/ \E s \in Stalls : DeleteStall(s)
      \/ \E r \in Starts : Connect(r)
      \/ \E k \in Tickets : Migrate(k)
  BY DEF Next, vars, routes, AskLink, CreateLink, ExpireLink, ReceiveStart, StartStep, LockLink,
         LockStall, StartLosesDeadlock, ReadStall, SendStep, InsertTicket, Deliver, CallFails,
         LearnMigration, LockForMigration, MigrationRefused, Resend, ReloadStall, SaveSent,
         AuthorizeCook, RevokeCook, CheckTap, CompleteTap, Upgrade
<1> QED BY <1>2, <1>3, <1>4, <1>5, <1>6

\* Connecting, migrating and deleting stalls implement the chat directory: a
\* chat goes from one stall to another only after it was free.
THEOREM RoutingIsADirectory == Spec => ImplementsDirectory
<1>1. []IInv /\ [][Next]_vars => [][Directory!Next]_owners
  BY StepRefines, PTL
<1> QED BY <1>1, InitRefines, InvariantHolds, PTL DEF Spec, ImplementsDirectory, Directory!Spec
-----------------------------------------------------------------------------
(* Links. *)

\* Two answers never hold one link, and a link that is about to connect is open.
LinkInv ==
    /\ \A r, q \in Starts :
          r # q /\ start[r].pc \in {"stall", "search"} /\ start[q].pc \in {"stall", "search"}
            => start[r].link # start[q].link
    /\ \A r \in Starts : start[r].pc = "search" => link[start[r].link].state = "open"

\* What a step may do to the links: only an open link is replaced or consumed.
LinkMoves ==
    \A l \in Links : \/ link'[l] = link[l]
                     \/ link[l].state \in {"none", "asked", "open"}

LEMMA LinkInvInit == Init => LinkInv
BY DEF Init, LinkInv

LEMMA LinksKept ==
    ASSUME IInv, LinkInv, [Next]_vars
    PROVE  LinkInv' /\ LinkMoves
<1>1. /\ link \in [Links -> LinkRow] /\ start \in [Starts -> StartMemory]
      /\ \A r \in Starts : start[r].pc # "idle" => start[r].link \in Links
  BY DEF IInv, TypeOK, Underway
<1>2. CASE UNCHANGED <<link, start>>
  BY <1>2 DEF LinkInv, LinkMoves
<1>3. ASSUME NEW l \in Links, NEW s \in Stalls, AskLink(l, s)
      PROVE  LinkInv' /\ LinkMoves
  <2>1. /\ UNCHANGED start /\ link[l].state = "none"
        /\ \A m \in Links : m # l => link'[m] = link[m]
    BY <1>1, <1>3 DEF AskLink
  <2> QED BY <1>1, <2>1 DEF LinkInv, LinkMoves
<1>4. ASSUME NEW l \in Links, CreateLink(l)
      PROVE  LinkInv' /\ LinkMoves
  <2>1. /\ UNCHANGED start /\ link[l].state = "asked"
        /\ \A m \in Replaces(l) : LinkFree(m)
        /\ link' = [m \in Links |->
               CASE m = l -> [link[l] EXCEPT !.state = "open"]
                 [] m \in Replaces(l) -> [link[m] EXCEPT !.state = "replaced"]
                 [] OTHER -> link[m]]
    BY <1>4 DEF CreateLink
  <2>2. \A m \in Links : m # l /\ m \notin Replaces(l) => link'[m] = link[m]
    BY <2>1
  <2>3. \A m \in Replaces(l) : link[m].state = "open"
    BY DEF Replaces
  <2>4. ASSUME NEW r \in Starts, start[r].pc = "search"
        PROVE  start[r].link # l /\ start[r].link \notin Replaces(l)
    BY <2>1, <2>4 DEF LinkInv, LinkFree
  <2> QED BY <1>1, <2>1, <2>2, <2>3, <2>4 DEF LinkInv, LinkMoves
<1>5. ASSUME NEW r \in Starts, NEW l \in Links, NEW g \in Groups, ReceiveStart(r, l, g)
      PROVE  LinkInv' /\ LinkMoves
  <2>1. /\ UNCHANGED link /\ start'[r].pc = "link"
        /\ \A q \in Starts : q # r => start'[q] = start[q]
    BY <1>1, <1>5 DEF ReceiveStart, routes
  <2> QED BY <2>1 DEF LinkInv, LinkMoves
<1>6. ASSUME NEW r \in Starts, LockLink(r)
      PROVE  LinkInv' /\ LinkMoves
  <2>1. PICK pc \in {"done", "stall"} : start' = [start EXCEPT ![r].pc = pc]
    BY <1>6 DEF LockLink
  <2>2. /\ UNCHANGED link /\ start'[r].pc \in {"done", "stall"}
        /\ start'[r].link = start[r].link
        /\ \A q \in Starts : q # r => start'[q] = start[q]
    BY <1>1, <1>6, <2>1 DEF LockLink, routes, StartMemory
  <2>3. \A q \in Starts : start[q].pc \in {"stall", "search"} => start[q].link # start[r].link
    BY <1>6 DEF LockLink, LinkFree
  <2> QED BY <2>2, <2>3 DEF LinkInv, LinkMoves
<1>7. ASSUME NEW r \in Starts, LockStall(r)
      PROVE  LinkInv' /\ LinkMoves
  <2>1. PICK pc \in {"done", "search"} :
          /\ start' = [start EXCEPT ![r].pc = pc]
          /\ pc = "search" => link[start[r].link].state = "open"
    BY <1>7 DEF LockStall, Usable
  <2>2. /\ UNCHANGED link /\ start'[r].pc = pc /\ start[r].pc = "stall"
        /\ start'[r].link = start[r].link
        /\ \A q \in Starts : q # r => start'[q] = start[q]
    BY <1>1, <1>7, <2>1 DEF LockStall, routes, StartMemory
  <2> QED BY <2>1, <2>2 DEF LinkInv, LinkMoves
<1>8. ASSUME NEW r \in Starts, Connect(r) \/ StartLosesDeadlock(r)
      PROVE  LinkInv' /\ LinkMoves
  <2>1. /\ start[r].pc = "search" /\ start'[r].pc = "done"
        /\ \A q \in Starts : q # r => start'[q] = start[q]
    BY <1>1, <1>8 DEF Connect, StartLosesDeadlock, EndStart, StartMemory
  <2>2. \/ UNCHANGED link
        \/ link' = [link EXCEPT ![start[r].link].state = "consumed"]
    BY <1>8 DEF Connect, StartLosesDeadlock, routes
  <2>3. link[start[r].link].state = "open" /\ start[r].link \in Links
    BY <1>1, <2>1 DEF LinkInv
  <2>4. \A m \in Links : m # start[r].link => link'[m] = link[m]
    BY <1>1, <2>2, <2>3
  <2>5. ASSUME NEW q \in Starts, q # r, start[q].pc = "search"
        PROVE  start[q].link \in Links /\ start[q].link # start[r].link
    BY <1>1, <2>1, <2>5 DEF LinkInv
  <2> QED BY <2>1, <2>3, <2>4, <2>5 DEF LinkInv, LinkMoves
<1>9. ASSUME NEW k \in Tickets, ReadStall(k) \/ SendStep(k)
      PROVE  UNCHANGED <<link, start>>
  BY <1>9 DEF ReadStall, SendStep, InsertTicket, Deliver, CallFails, LearnMigration,
              LockForMigration, Migrate, MigrationRefused, Resend, ReloadStall, SaveSent, routes
<1>10. ASSUME \/ \E l \in Links : ExpireLink(l)
              \/ \E s \in Stalls : DeleteStall(s)
              \/ \E s \in Stalls, u \in Cooks : AuthorizeCook(s, u) \/ RevokeCook(s, u)
              \/ \E h \in Taps, k \in Tickets, u \in Cooks : CheckTap(h, k, u)
              \/ \E h \in Taps : CompleteTap(h)
              \/ \E g \in Groups : Upgrade(g)
       PROVE  UNCHANGED <<link, start>>
  BY <1>10 DEF ExpireLink, DeleteStall, AuthorizeCook, RevokeCook, CheckTap, CompleteTap,
               Upgrade, routes
<1>11. CASE UNCHANGED vars
  BY <1>2, <1>11 DEF vars
<1>12. CASE Next
  BY <1>2, <1>3, <1>4, <1>5, <1>6, <1>7, <1>8, <1>9, <1>10, <1>12, Zenon DEF Next, StartStep
<1> QED BY <1>11, <1>12

LEMMA LinkInvHolds == Spec => [](IInv /\ LinkInv)
BY InitHolds, NextHolds, LinkInvInit, LinksKept, PTL DEF Spec

\* Whoever answers it and whenever: a link that was used or replaced does nothing more.
THEOREM LinksAreSpent == Spec => SpentLinksStayOut
<1>1. IInv /\ LinkInv /\ [Next]_vars
      => [\A l \in Links : link[l].state \in {"replaced", "consumed"} => link'[l] = link[l]]_vars
  BY LinksKept DEF LinkMoves
<1> QED BY <1>1, LinkInvHolds, PTL DEF SpentLinksStayOut, Spec
-----------------------------------------------------------------------------
(* Tickets follow a migration. *)

\* A supergroup's chat id is known only after the upgrade.
Known(c) == c # None /\ c[2] = "super" => c[1] \in upgraded

KnownInv ==
    /\ \A s \in Stalls : Known(chatOf[s])
    /\ \A r \in Starts : Known(start[r].chat)
    /\ \A k \in Tickets : Known(send[k].chat)

LEMMA ChatParts ==
    ASSUME NEW c \in Chats
    PROVE  c[1] \in Groups /\ c[2] \in {"basic", "super"} /\ c = <<c[1], c[2]>>
BY DEF Chats

LEMMA LiveChatIsKnown ==
    ASSUME NEW g \in Groups
    PROVE  Known(LiveChat(g))
BY DEF Known, LiveChat

LEMMA KnownInit == Init => KnownInv
BY DEF Init, KnownInv, Known

LEMMA KnownStep ==
    ASSUME IInv, KnownInv, [Next]_vars
    PROVE  KnownInv'
<1> DEFINE Chat == Chats \cup {None}
<1>1. /\ chatOf \in [Stalls -> Chat] /\ start \in [Starts -> StartMemory]
      /\ send \in [Tickets -> SendMemory]
      /\ \A r \in Starts : start[r].pc # "idle" => start[r].link \in Links
      /\ \A l \in Links : link[l].state # "none" => link[l].stall \in Stalls
      /\ \A r \in Starts : start[r].pc # "idle" => link[start[r].link].state # "none"
  BY DEF IInv, TypeOK, Underway
<1>2. upgraded \subseteq upgraded'
  BY DEF Next, vars, routes, dispatch, kitchen, AskLink, CreateLink, ExpireLink, DeleteStall,
         ReceiveStart, StartStep, LockLink, LockStall, Connect, StartLosesDeadlock, ReadStall,
         SendStep, InsertTicket, Deliver, CallFails, LearnMigration, LockForMigration, Migrate,
         MigrationRefused, Resend, ReloadStall, SaveSent, AuthorizeCook, RevokeCook, CheckTap,
         CompleteTap, Upgrade
<1>3. CASE UNCHANGED <<chatOf, start, send>>
  BY <1>2, <1>3 DEF KnownInv, Known
<1>4. ASSUME NEW r \in Starts, NEW l \in Links, NEW g \in Groups, ReceiveStart(r, l, g)
      PROVE  KnownInv'
  <2>1. /\ UNCHANGED <<chatOf, send, upgraded>> /\ start'[r].chat = LiveChat(g)
        /\ \A q \in Starts : q # r => start'[q] = start[q]
    BY <1>1, <1>4 DEF ReceiveStart, routes, dispatch
  <2> QED BY <2>1, LiveChatIsKnown DEF KnownInv, Known
<1>5. ASSUME NEW r \in Starts, LockLink(r) \/ LockStall(r) \/ StartLosesDeadlock(r)
      PROVE  KnownInv'
  <2>1. PICK pc \in {"done", "stall", "search"} : start' = [start EXCEPT ![r].pc = pc]
    BY <1>5 DEF LockLink, LockStall, StartLosesDeadlock, EndStart
  <2>2. UNCHANGED <<chatOf, send, upgraded>>
    BY <1>5 DEF LockLink, LockStall, StartLosesDeadlock, routes, dispatch
  <2>3. \A q \in Starts : start'[q].chat = start[q].chat
    BY <1>1, <2>1 DEF StartMemory
  <2> QED BY <2>2, <2>3 DEF KnownInv, Known
<1>6. ASSUME NEW r \in Starts, Connect(r)
      PROVE  KnownInv'
  <2>1. UNCHANGED <<send, upgraded>> /\ start' = [start EXCEPT ![r].pc = "done"]
    BY <1>6 DEF Connect, EndStart, dispatch
  <2>2. \A q \in Starts : start'[q].chat = start[q].chat
    BY <1>1, <2>1 DEF StartMemory
  <2>3. \A s \in Stalls : chatOf'[s] = chatOf[s] \/ chatOf'[s] = start[r].chat
    BY <1>1, <1>6 DEF Connect, routes
  <2> QED BY <2>1, <2>2, <2>3 DEF KnownInv, Known
<1>7. ASSUME NEW k \in Tickets, Migrate(k)
      PROVE  KnownInv'
  <2>1. UNCHANGED <<start, upgraded>> /\ send' = [send EXCEPT ![k].pc = "resend"]
    BY <1>7 DEF Migrate
  <2>2. \A q \in Tickets : send'[q].chat = send[q].chat
    BY <1>1, <2>1 DEF SendMemory
  <2>3. \A s \in Stalls : chatOf'[s] = chatOf[s] \/ chatOf'[s] = NewChat(k)
    BY <1>1, <1>7 DEF Migrate
  <2>4. Known(NewChat(k))
    BY <1>7, ChatParts, LiveChatIsKnown DEF IInv, Underway, Migrate, NewChat
  <2> QED BY <2>1, <2>2, <2>3, <2>4 DEF KnownInv, Known
<1>8. ASSUME NEW k \in Tickets, ReadStall(k) \/ SendStep(k), ~Migrate(k)
      PROVE  KnownInv'
  <2>1. UNCHANGED <<chatOf, start, upgraded>>
    BY <1>8 DEF ReadStall, SendStep, InsertTicket, Deliver, CallFails, LearnMigration,
                LockForMigration, MigrationRefused, Resend, ReloadStall, SaveSent, routes, kitchen
  <2>2. ASSUME NEW q \in Tickets
        PROVE  send'[q].chat = send[q].chat \/ send'[q].chat = chatOf[StallOf[k]]
    <3>1. CASE ReadStall(k)
      BY <1>1, <3>1 DEF ReadStall, SendMemory
    <3>2. CASE NextTry(k)
      BY <1>1, <3>2 DEF NextTry, SendMemory
    <3>3. CASE ReloadStall(k)
      BY <1>1, <3>3 DEF ReloadStall, SendMemory
    <3>4. CASE \E pc \in {"call", "stall", "search", "resend", "reload", "done"} :
                 send' = [send EXCEPT ![k].pc = pc]
      BY <1>1, <3>4 DEF SendMemory
    <3> QED BY <1>8, <3>1, <3>2, <3>3, <3>4
            DEF SendStep, InsertTicket, Deliver, CallFails, LearnMigration,
                LockForMigration, MigrationRefused, Resend, SaveSent
  <2> QED BY <2>1, <2>2 DEF KnownInv, Known
<1>9. ASSUME \/ \E l \in Links : CreateLink(l) \/ ExpireLink(l)
             \/ \E l \in Links, s \in Stalls : AskLink(l, s)
             \/ \E s \in Stalls : DeleteStall(s)
             \/ \E s \in Stalls, u \in Cooks : AuthorizeCook(s, u) \/ RevokeCook(s, u)
             \/ \E h \in Taps, k \in Tickets, u \in Cooks : CheckTap(h, k, u)
             \/ \E h \in Taps : CompleteTap(h)
             \/ \E g \in Groups : Upgrade(g)
             \/ UNCHANGED vars
      PROVE  UNCHANGED <<chatOf, start, send>>
  BY <1>9 DEF AskLink, CreateLink, ExpireLink, DeleteStall, AuthorizeCook, RevokeCook, CheckTap,
              CompleteTap, Upgrade, routes, dispatch, vars
<1> QED BY <1>3, <1>4, <1>5, <1>6, <1>7, <1>8, <1>9 DEF Next, StartStep

\* d is the chat c, or the basic group that became c.
Ahead(d, c) == c[1] = d[1] /\ (c = d \/ (d[2] = "basic" /\ c[2] = "super"))

Sending == {"call", "stall", "search", "resend", "reload"}

\* How far a dispatch is and what its row says.
Dispatched(k) ==
    /\ send[k].pc \in {"idle", "insert"} => ticket[k].status = "none"
    /\ send[k].pc \in Sending \cup {"save"} => ticket[k].status = "pending"
    /\ send[k].pc # "idle" => chatOf[StallOf[k]] \in Chats

\* Where the dispatch, its row and its stall stand in the group's migration.
Follows(k) ==
    LET c == chatOf[StallOf[k]]
        d == send[k].chat
    IN
    /\ send[k].pc # "idle" => Ahead(d, c)
    /\ send[k].pc \in {"stall", "search"} => d[2] = "basic" /\ d[1] \in upgraded
    /\ send[k].pc = "search" => c = d
    /\ send[k].pc \in Sending => ticket[k].chat \in {c, d}
    /\ send[k].pc = "save" =>
          IF send[k].final = d THEN ticket[k].chat = c ELSE send[k].final = c
    /\ ticket[k].status = "sent" => ticket[k].chat = c

Once(s) == \A l, m \in ConnectedBy(s) : l = m

ConnectionInv ==
    \A s \in Stalls : /\ IsFiniteSet(ConnectedBy(s))
                      /\ ConnectedBy(s) = {} => chatOf[s] = None

FollowInv ==
    /\ ConnectionInv
    /\ \A k \in Tickets : Dispatched(k) /\ (Once(StallOf[k]) => Follows(k))

LEMMA FollowInit == Init => FollowInv
<1> SUFFICES ASSUME Init PROVE FollowInv
  OBVIOUS
<1>1. \A s \in Stalls : ConnectedBy(s) = {}
  BY DEF Init, ConnectedBy
<1>2. ConnectionInv
  BY <1>1, FS_EmptySet DEF Init, ConnectionInv
<1>3. \A k \in Tickets : Dispatched(k) /\ Follows(k)
  BY DEF Init, Dispatched, Follows, Sending
<1> QED BY <1>2, <1>3 DEF FollowInv

\* Steps that touch neither routes nor dispatches.
LEMMA Bystanders ==
    ASSUME FollowInv, UNCHANGED <<chatOf, ticket, send>>, upgraded \subseteq upgraded',
           \A s \in Stalls : ConnectedBy(s)' = ConnectedBy(s)
    PROVE  FollowInv'
<1>1. ConnectionInv'
  BY DEF FollowInv, ConnectionInv
<1>2. ASSUME NEW k \in Tickets
      PROVE  Dispatched(k)' /\ (Once(StallOf[k])' => Follows(k)')
  <2>1. Dispatched(k) /\ (Once(StallOf[k]) => Follows(k))
    BY DEF FollowInv
  <2>2. Once(StallOf[k])' = Once(StallOf[k])
    BY DEF Once
  <2>3. Dispatched(k)'
    BY <2>1 DEF Dispatched
  <2>4. ASSUME Follows(k) PROVE Follows(k)'
    BY <2>4 DEF Follows, Ahead
  <2> QED BY <2>1, <2>2, <2>3, <2>4
<1> QED BY <1>1, <1>2 DEF FollowInv

\* A first connection finds the stall without dispatches; a second one ends
\* the claim for that stall.
LEMMA ConnectingKeeps ==
    ASSUME IInv, LinkInv, FollowInv, NEW r \in Starts, Connect(r)
    PROVE  FollowInv'
<1>1. PICK l \in Links, s \in Stalls, c \in Chats :
        l = start[r].link /\ s = link[l].stall /\ c = start[r].chat
  BY DEF IInv, Underway, Connect
<1>2. /\ link[l].state = "open" /\ link \in [Links -> LinkRow]
      /\ chatOf \in [Stalls -> Chats \cup {None}]
      /\ UNCHANGED <<ticket, send, upgraded>>
  BY <1>1 DEF IInv, TypeOK, LinkInv, Connect, dispatch
<1>3. CASE ~FreeFor(s, c)
  <2>1. UNCHANGED <<chatOf, link>>
    BY <1>1, <1>3 DEF Connect, routes
  <2>2. \A z \in Stalls : ConnectedBy(z)' = ConnectedBy(z)
    BY <2>1 DEF ConnectedBy
  <2> QED BY <1>2, <2>1, <2>2, Bystanders
<1>4. CASE FreeFor(s, c)
  <2>1. /\ chatOf' = [chatOf EXCEPT ![s] = c]
        /\ link' = [link EXCEPT ![l].state = "consumed"]
    BY <1>1, <1>4 DEF Connect
  <2>2. /\ \A m \in Links : m # l => link'[m] = link[m]
        /\ link'[l].state = "consumed" /\ link'[l].stall = s
    BY <1>1, <1>2, <2>1 DEF LinkRow
  <2>3. \A z \in Stalls : z # s => ConnectedBy(z)' = ConnectedBy(z) /\ chatOf'[z] = chatOf[z]
    BY <1>1, <1>2, <2>1, <2>2 DEF ConnectedBy
  <2>4. ConnectedBy(s)' = ConnectedBy(s) \cup {l} /\ l \notin ConnectedBy(s)
    BY <1>1, <1>2, <2>2 DEF ConnectedBy
  <2>5. ConnectionInv'
    <3>1. IsFiniteSet(ConnectedBy(s)')
      BY <1>1, <2>4, FS_AddElement DEF FollowInv, ConnectionInv
    <3> QED BY <2>3, <2>4, <3>1 DEF FollowInv, ConnectionInv
  <2>6. ASSUME NEW k \in Tickets
        PROVE  Dispatched(k)' /\ (Once(StallOf[k])' => Follows(k)')
    <3>1. Dispatched(k) /\ (Once(StallOf[k]) => Follows(k)) /\ StallOf[k] \in Stalls
      BY DEF FollowInv
    <3>2. Dispatched(k)'
      BY <1>2, <2>1, <3>1 DEF Dispatched
    <3>3. CASE StallOf[k] # s
      <4>1. Once(StallOf[k])' = Once(StallOf[k]) /\ chatOf'[StallOf[k]] = chatOf[StallOf[k]]
        BY <2>3, <3>1, <3>3 DEF Once
      <4>2. ASSUME Follows(k) PROVE Follows(k)'
        BY <1>2, <4>1, <4>2 DEF Follows, Ahead
      <4> QED BY <3>1, <3>2, <4>1, <4>2
    <3>4. CASE StallOf[k] = s
      <4>1. ASSUME Once(s)' PROVE Follows(k)'
        <5>1. ConnectedBy(s) = {}
          BY <2>4, <4>1 DEF Once
        <5>2. chatOf[s] = None
          BY <1>1, <5>1 DEF FollowInv, ConnectionInv
        <5>3. send[k].pc = "idle" /\ ticket[k].status = "none"
          BY <3>1, <3>4, <5>2 DEF Dispatched
        <5> QED BY <1>2, <5>3 DEF Follows, Sending
      <4> QED BY <3>2, <3>4, <4>1
    <3> QED BY <3>3, <3>4
  <2> QED BY <2>5, <2>6 DEF FollowInv
<1> QED BY <1>3, <1>4

LEMMA TapKeeps ==
    ASSUME IInv, FollowInv, NEW h \in Taps, CompleteTap(h)
    PROVE  FollowInv'
<1>1. /\ UNCHANGED <<chatOf, link, send, upgraded>> /\ ticket \in [Tickets -> TicketRow]
      /\ tap[h].ticket \in Tickets
  BY DEF IInv, TypeOK, Underway, CompleteTap, routes
<1>2. \A k \in Tickets :
         \/ ticket'[k] = ticket[k]
         \/ ticket[k].status = "sent" /\ ticket'[k].status = "done"
  BY <1>1 DEF CompleteTap, Completable, TicketRow
<1>3. \A s \in Stalls : ConnectedBy(s)' = ConnectedBy(s)
  BY <1>1 DEF ConnectedBy
<1>4. ConnectionInv'
  BY <1>1, <1>3 DEF FollowInv, ConnectionInv
<1>5. ASSUME NEW k \in Tickets
      PROVE  Dispatched(k)' /\ (Once(StallOf[k])' => Follows(k)')
  <2>1. Dispatched(k) /\ (Once(StallOf[k]) => Follows(k)) /\ send[k] \in SendMemory
    BY DEF FollowInv, IInv, TypeOK
  <2>2. Once(StallOf[k])' = Once(StallOf[k])
    BY <1>3 DEF Once
  <2>3. CASE ticket'[k] = ticket[k]
    BY <1>1, <2>1, <2>2, <2>3 DEF Dispatched, Follows, Ahead
  <2>4. CASE ticket[k].status = "sent" /\ ticket'[k].status = "done"
    <3>1. send[k].pc = "done"
      BY <2>1, <2>4 DEF Dispatched, Sending, SendMemory
    <3> QED BY <1>1, <2>1, <2>2, <2>4, <3>1 DEF Dispatched, Follows, Sending, Ahead
  <2> QED BY <1>2, <2>3, <2>4
<1> QED BY <1>4, <1>5 DEF FollowInv

\* A dispatch that learns of a migration holds the basic group's chat.
LEMMA OldChatIsBasic ==
    ASSUME NEW d \in Chats, Known(d), Migrated(d)
    PROVE  d[2] = "basic" /\ d[1] \in upgraded
<1>1. d[2] \in {"basic", "super"} /\ d = <<d[1], d[2]>>
  BY ChatParts
<1> QED BY <1>1 DEF Known, Migrated, LiveChat

\* What a dispatch does to itself while its stall keeps its chat.
LEMMA OwnStep ==
    ASSUME IInv, KnownInv, NEW k \in Tickets, ReadStall(k) \/ SendStep(k), ~Migrate(k),
           Dispatched(k), UNCHANGED <<chatOf, upgraded>>
    PROVE  Dispatched(k)' /\ (Follows(k) => Follows(k)')
<1> USE DEF Sending
<1>1. /\ send \in [Tickets -> SendMemory] /\ ticket \in [Tickets -> TicketRow]
      /\ chatOf \in [Stalls -> Chats \cup {None}] /\ StallOf[k] \in Stalls
      /\ send[k].pc # "idle" => send[k].chat \in Chats
      /\ Known(send[k].chat)
  BY DEF IInv, TypeOK, Underway, KnownInv
<1>2. CASE ReadStall(k)
  <2>1. /\ send[k].pc = "idle" /\ chatOf[StallOf[k]] \in Chats /\ UNCHANGED ticket
        /\ send'[k].pc = "insert" /\ send'[k].chat = chatOf[StallOf[k]]
    BY <1>1, <1>2 DEF ReadStall, SendMemory
  <2> QED BY <2>1 DEF Dispatched, Follows, Ahead
<1>3. CASE InsertTicket(k)
  <2>1. /\ send[k].pc = "insert" /\ send'[k].pc = "call" /\ send'[k].chat = send[k].chat
        /\ ticket'[k].chat = send[k].chat /\ ticket'[k].status = "pending"
    BY <1>1, <1>3 DEF InsertTicket, SendMemory
  <2> QED BY <2>1 DEF Dispatched, Follows, Ahead
<1>4. CASE NextTry(k) /\ send[k].pc \in Sending
  <2>1. /\ send'[k].chat = send[k].chat /\ ticket'[k].chat = ticket[k].chat
        /\ \/ send'[k].pc = "call" /\ ticket'[k].status = ticket[k].status
           \/ send'[k].pc = "done" /\ ticket'[k].status = "failed"
    BY <1>1, <1>4 DEF NextTry, SendMemory, TicketRow
  <2> QED BY <1>4, <2>1 DEF Dispatched, Follows, Ahead
<1>5. CASE LearnMigration(k)
  <2>1. /\ send[k].pc = "call" /\ send'[k].pc = "stall" /\ send'[k].chat = send[k].chat
        /\ UNCHANGED ticket /\ Migrated(send[k].chat)
    BY <1>1, <1>5 DEF LearnMigration, SendMemory
  <2>2. send[k].chat[2] = "basic" /\ send[k].chat[1] \in upgraded
    BY <1>1, <2>1, OldChatIsBasic
  <2> QED BY <2>1, <2>2 DEF Dispatched, Follows, Ahead
<1>6. CASE LockForMigration(k) /\ UNCHANGED ticket /\ ~NextTry(k)
  <2>1. /\ send[k].pc = "stall" /\ send'[k].chat = send[k].chat
        /\ \/ send'[k].pc = "resend"
           \/ send'[k].pc = "search" /\ chatOf[StallOf[k]] = send[k].chat
    BY <1>1, <1>6 DEF LockForMigration, SendMemory
  <2> QED BY <1>6, <2>1 DEF Dispatched, Follows, Ahead
<1>7. CASE Deliver(k) \/ Resend(k)
  <2>1. /\ send[k].pc \in {"call", "resend"} /\ send'[k].pc = "reload"
        /\ send'[k].chat = send[k].chat /\ UNCHANGED ticket
    BY <1>1, <1>7 DEF Deliver, Resend, SendMemory
  <2> QED BY <2>1 DEF Dispatched, Follows, Ahead
<1>8. CASE ReloadStall(k)
  <2>1. /\ send[k].pc = "reload" /\ send'[k].pc = "save" /\ send'[k].chat = send[k].chat
        /\ send'[k].final = chatOf[StallOf[k]] /\ UNCHANGED ticket
    BY <1>1, <1>8 DEF ReloadStall, SendMemory
  <2> QED BY <2>1 DEF Dispatched, Follows, Ahead
<1>9. CASE SaveSent(k)
  <2>1. /\ send[k].pc = "save" /\ send'[k].pc = "done" /\ send'[k].chat = send[k].chat
        /\ ticket'[k].chat = SavedChat(k) /\ ticket'[k].status = "sent"
    BY <1>1, <1>9 DEF SaveSent, SendMemory
  <2> QED BY <2>1 DEF Dispatched, Follows, Ahead, SavedChat
<1>10. CASE LockForMigration(k) /\ ~(UNCHANGED ticket /\ ~NextTry(k))
  <2>1. NextTry(k) /\ send[k].pc \in Sending
    BY <1>10 DEF LockForMigration
  <2> QED BY <1>4, <2>1
<1>11. CASE CallFails(k) \/ MigrationRefused(k)
  <2>1. NextTry(k) /\ send[k].pc \in Sending
    BY <1>11 DEF CallFails, MigrationRefused
  <2> QED BY <1>4, <2>1
<1> QED BY <1>2, <1>3, <1>5, <1>6, <1>7, <1>8, <1>9, <1>10, <1>11 DEF SendStep

LEMMA DispatchKeeps ==
    ASSUME IInv, KnownInv, FollowInv, NEW k \in Tickets, ReadStall(k) \/ SendStep(k),
           ~Migrate(k)
    PROVE  FollowInv'
<1>1. /\ UNCHANGED <<chatOf, link, upgraded>>
      /\ send \in [Tickets -> SendMemory] /\ ticket \in [Tickets -> TicketRow]
  BY DEF IInv, TypeOK, ReadStall, SendStep, InsertTicket, Deliver, CallFails, LearnMigration,
         LockForMigration, MigrationRefused, Resend, ReloadStall, SaveSent, routes
<1>2. \A t \in Tickets : t # k => send'[t] = send[t] /\ ticket'[t] = ticket[t]
  BY <1>1 DEF ReadStall, SendStep, InsertTicket, Deliver, CallFails, LearnMigration, NextTry,
         LockForMigration, MigrationRefused, Resend, ReloadStall, SaveSent
<1>3. \A s \in Stalls : ConnectedBy(s)' = ConnectedBy(s)
  BY <1>1 DEF ConnectedBy
<1>4. ConnectionInv'
  BY <1>1, <1>3 DEF FollowInv, ConnectionInv
<1>5. ASSUME NEW t \in Tickets
      PROVE  Dispatched(t)' /\ (Once(StallOf[t])' => Follows(t)')
  <2>1. Dispatched(t) /\ (Once(StallOf[t]) => Follows(t))
    BY DEF FollowInv
  <2>2. Once(StallOf[t])' = Once(StallOf[t])
    BY <1>3 DEF Once
  <2>3. CASE t = k
    BY <1>1, <2>1, <2>2, <2>3, OwnStep
  <2>4. CASE t # k
    <3>1. Dispatched(t)' /\ (Follows(t) => Follows(t)')
      BY <1>1, <1>2, <2>1, <2>4 DEF Dispatched, Follows, Ahead
    <3> QED BY <2>1, <2>2, <3>1
  <2> QED BY <2>3, <2>4
<1> QED BY <1>4, <1>5 DEF FollowInv

LEMMA MigrationKeeps ==
    ASSUME IInv, FollowInv, NEW k \in Tickets, Migrate(k)
    PROVE  FollowInv'
<1> USE DEF Sending
<1>1. PICK s \in Stalls, old \in Chats, new \in Chats :
        s = StallOf[k] /\ old = send[k].chat /\ new = NewChat(k)
  BY NewChatIsChat DEF IInv, Underway, Migrate
<1>2. /\ chatOf \in [Stalls -> Chats \cup {None}] /\ ticket \in [Tickets -> TicketRow]
      /\ send \in [Tickets -> SendMemory] /\ UNCHANGED <<link, upgraded>>
      /\ chatOf' = [chatOf EXCEPT ![s] = new]
      /\ send' = [send EXCEPT ![k].pc = "resend"]
      /\ send[k].pc = "search"
  BY <1>1 DEF IInv, TypeOK, Migrate
<1>3. \A t \in Tickets :
        /\ send'[t].chat = send[t].chat /\ send'[t].final = send[t].final
        /\ send'[t].pc = (IF t = k THEN "resend" ELSE send[t].pc)
        /\ ticket'[t].status = ticket[t].status
        /\ ticket'[t].chat = IF Moves(k, t) THEN new ELSE ticket[t].chat
  BY <1>1, <1>2 DEF SendMemory, TicketRow, Migrate
<1>4. \A z \in Stalls : ConnectedBy(z)' = ConnectedBy(z)
  BY <1>2 DEF ConnectedBy
<1>5. chatOf[s] \in Chats
  BY <1>1, <1>2 DEF FollowInv, Dispatched
<1>6. ConnectionInv'
  BY <1>1, <1>2, <1>4, <1>5 DEF FollowInv, ConnectionInv
<1>7. ASSUME NEW t \in Tickets
      PROVE  Dispatched(t)' /\ (Once(StallOf[t])' => Follows(t)')
  <2>1. /\ Dispatched(t) /\ (Once(StallOf[t]) => Follows(t)) /\ StallOf[t] \in Stalls
        /\ send[t] \in SendMemory
    BY <1>2 DEF FollowInv
  <2>2. Once(StallOf[t])' = Once(StallOf[t])
    BY <1>4, <2>1 DEF Once
  <2>3. Dispatched(t)'
    BY <1>1, <1>2, <1>3, <2>1 DEF Dispatched
  <2>4. CASE StallOf[t] # s
    <3>1. t # k /\ ~Moves(k, t) /\ chatOf'[StallOf[t]] = chatOf[StallOf[t]]
      BY <1>1, <1>2, <2>1, <2>4 DEF Moves
    <3>2. Follows(t) => Follows(t)'
      BY <1>2, <1>3, <3>1 DEF Follows, Ahead
    <3> QED BY <2>1, <2>2, <2>3, <3>2
  <2>5. CASE StallOf[t] = s
    <3>1. ASSUME Once(s) PROVE Follows(t)'
      <4>1. /\ old = chatOf[s] /\ old[2] = "basic" /\ old[1] \in upgraded
        BY <1>1, <1>2, <3>1 DEF FollowInv, Follows
      <4>2. new[1] = old[1] /\ new[2] = "super" /\ chatOf'[s] = new
        BY <1>1, <1>2, <4>1 DEF NewChat, LiveChat
      <4>3. Follows(t)
        BY <2>1, <2>5, <3>1
      <4>4. send[t].pc # "idle" => send[t].chat = old
        BY <2>5, <4>1, <4>3 DEF Follows, Ahead
      <4>5. t # k => send[t].pc # "search"
        BY <1>1, <1>2 DEF Migrate, OnlySearcher, Searching
      <4>6. Moves(k, t) <=> ticket[t].chat = old /\ ticket[t].status \in {"pending", "sent"}
        BY <1>1, <2>5 DEF Moves
      <4>7. send[t].pc \in Sending \cup {"save"} \/ ticket[t].status = "sent" => ticket'[t].chat = new
        BY <1>3, <2>1, <2>5, <4>1, <4>3, <4>4, <4>6 DEF Follows, Dispatched
      <4> QED BY <1>2, <1>3, <2>1, <2>5, <4>1, <4>2, <4>3, <4>4, <4>5, <4>7 DEF Follows, Ahead
    <3> QED BY <2>1, <2>2, <2>3, <2>5, <3>1
  <2> QED BY <2>4, <2>5
<1> QED BY <1>6, <1>7 DEF FollowInv

FollowsInv == IInv /\ LinkInv /\ KnownInv /\ FollowInv

LEMMA FollowStep ==
    ASSUME FollowsInv, [Next]_vars
    PROVE  FollowsInv'
<1>1. IInv /\ LinkInv /\ KnownInv /\ FollowInv
  BY DEF FollowsInv
<1>2. IInv' /\ LinkInv' /\ KnownInv'
  BY <1>1, NextHolds, LinksKept, KnownStep
<1>3. ASSUME UNCHANGED <<chatOf, ticket, send>>, upgraded \subseteq upgraded',
             \A l \in Links : link'[l].stall = link[l].stall \/ link[l].state # "consumed",
             \A l \in Links : link[l].state = "consumed" <=> link'[l].state = "consumed"
      PROVE  FollowInv'
  <2>1. \A s \in Stalls : ConnectedBy(s)' = ConnectedBy(s)
    BY <1>3 DEF ConnectedBy
  <2> QED BY <1>1, <1>3, <2>1, Bystanders
<1>4. ASSUME NEW l \in Links,
             (\E s \in Stalls : AskLink(l, s)) \/ CreateLink(l) \/ ExpireLink(l)
      PROVE  FollowInv'
  <2>1. UNCHANGED <<chatOf, ticket, send, upgraded>> /\ link \in [Links -> LinkRow]
    BY <1>1, <1>4 DEF AskLink, CreateLink, ExpireLink, dispatch, IInv, TypeOK
  <2>2. \A m \in Links : \/ link'[m] = link[m]
                         \/ link[m].state # "consumed" /\ link'[m].state # "consumed"
    <3>1. CASE \E s \in Stalls : AskLink(l, s)
      BY <2>1, <3>1 DEF AskLink, LinkRow
    <3>2. CASE CreateLink(l)
      BY <2>1, <3>2 DEF CreateLink, Replaces, LinkRow
    <3>3. CASE ExpireLink(l)
      BY <3>3 DEF ExpireLink
    <3> QED BY <1>4, <3>1, <3>2, <3>3
  <2> QED BY <1>3, <2>1, <2>2
<1>5. ASSUME UNCHANGED <<chatOf, link, ticket, send>>, upgraded \subseteq upgraded'
      PROVE  FollowInv'
  BY <1>3, <1>5
<1>6. ASSUME NEW r \in Starts,
             \/ LockLink(r) \/ LockStall(r) \/ StartLosesDeadlock(r)
             \/ \E l \in Links, g \in Groups : ReceiveStart(r, l, g)
      PROVE  FollowInv'
  BY <1>5, <1>6 DEF ReceiveStart, LockLink, LockStall, StartLosesDeadlock, routes, dispatch
<1>7. ASSUME \/ \E s \in Stalls : DeleteStall(s)
             \/ \E s \in Stalls, u \in Cooks : AuthorizeCook(s, u) \/ RevokeCook(s, u)
             \/ \E h \in Taps, k \in Tickets, u \in Cooks : CheckTap(h, k, u)
             \/ \E g \in Groups : Upgrade(g)
             \/ UNCHANGED vars
      PROVE  FollowInv'
  BY <1>5, <1>7 DEF DeleteStall, AuthorizeCook, RevokeCook, CheckTap, Upgrade, routes,
                    dispatch, vars
<1>8. FollowInv'
  BY <1>1, <1>4, <1>6, <1>7, ConnectingKeeps, TapKeeps, DispatchKeeps, MigrationKeeps
     DEF Next, StartStep
<1> QED BY <1>2, <1>8 DEF FollowsInv

\* A stall connected once has its delivered tickets in the chat it has now,
\* whatever upgrades its group and its dispatches went through.
THEOREM TicketsFollow == Spec => []TicketsFollowMigration
<1>1. Init => FollowsInv
  BY InitHolds, LinkInvInit, KnownInit, FollowInit DEF FollowsInv
<1>2. FollowsInv /\ [Next]_vars => FollowsInv'
  BY FollowStep
<1>3. ASSUME FollowsInv PROVE TicketsFollowMigration
  <2> SUFFICES ASSUME NEW k \in Tickets, ticket[k].status = "sent",
                      Cardinality(ConnectedBy(StallOf[k])) = 1
               PROVE  ticket[k].chat = chatOf[StallOf[k]]
    BY DEF TicketsFollowMigration
  <2>1. IsFiniteSet(ConnectedBy(StallOf[k]))
    BY <1>3 DEF FollowsInv, FollowInv, ConnectionInv
  <2>2. Once(StallOf[k])
    BY <2>1, FS_Singleton DEF Once
  <2> QED BY <1>3, <2>2 DEF FollowsInv, FollowInv, Follows
<1> QED BY <1>1, <1>2, <1>3, PTL DEF Spec
=============================================================================

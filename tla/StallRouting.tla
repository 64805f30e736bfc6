----------------------------- MODULE StallRouting -----------------------------
(***************************************************************************)
(* Which Telegram group cooks for which stall.  An owner asks for a        *)
(* one-time link; the group answers it with /start and the backend         *)
(* connects the group in one transaction.  When Telegram upgrades a group  *)
(* the chat gets a new id: the next send to the old id is refused with the *)
(* new one, and the sender moves the stall and its open tickets before it  *)
(* sends again.  Cooks listed for the stall complete tickets from the      *)
(* chat's messages.                                                        *)
(*                                                                         *)
(* Every transaction locks its stall row and then searches all stalls for  *)
(* the chat; no index covers the search, so it locks every row it reads.   *)
(***************************************************************************)
EXTENDS Naturals, FiniteSets

CONSTANTS
    Stalls,
    Groups,    \* Telegram groups
    Links,     \* one-time setup links
    Starts,    \* webhook requests that carry /start
    Tickets,   \* kitchen tickets being dispatched, one per order
    Taps,      \* webhook requests that carry a tap on Done
    Cooks,     \* Telegram users
    None,
    StallOf,   \* the stall of each ticket's order
    MaxChanges,  \* bound: links that expire, stalls deleted, cooks listed or revoked
    MaxFailures  \* bound: calls that Telegram fails

\* A group keeps its identity through an upgrade, its chat id does not.
Chats == Groups \X {"basic", "super"}

ASSUME NoneAssumption == None \notin Stalls \cup Chats
ASSUME StallOfAssumption == StallOf \in [Tickets -> Stalls]
ASSUME BoundsAssumption == MaxChanges \in Nat /\ MaxFailures \in Nat

VARIABLES
    chatOf,   \* stalls.telegram_chat_id
    deleted,  \* stalls.is_deleted
    link,     \* telegram_group_connections
    expired,  \* links past expires_at
    start,    \* memory of each /start request
    ticket,   \* telegram_tickets
    send,     \* memory of each dispatch
    listed,   \* telegram_cooks with is_active, by stall
    tap,      \* memory of each tap
    upgraded, \* groups that Telegram has made supergroups
    shown,    \* the chat in which the ticket's message appeared
    budget    \* what may still change or fail

routes == <<chatOf, deleted, link, expired>>
dispatch == <<ticket, send, shown>>
kitchen == <<listed, tap>>
vars == <<chatOf, deleted, link, expired, start, ticket, send, shown, listed, tap,
          upgraded, budget>>
-----------------------------------------------------------------------------
LiveChat(g) == <<g, IF g \in upgraded THEN "super" ELSE "basic">>

\* Telegram answers a send to this chat with migrate_to_chat_id.
Migrated(c) == c # LiveChat(c[1])

LinkRow == [stall : Stalls \cup {None},
            state : {"none", "asked", "open", "replaced", "consumed"}]
StartMemory == [pc : {"idle", "link", "stall", "search", "done"},
                link : Links \cup {None}, chat : Chats \cup {None}]
TicketRow == [chat : Chats \cup {None}, status : {"none", "pending", "sent", "failed", "done"}]
\* chat: the row as the dispatch holds it; final: the chat read after the send
SendMemory == [pc : {"idle", "insert", "call", "stall", "search", "resend", "reload",
                     "save", "done"},
               chat : Chats \cup {None}, final : Chats \cup {None}, try : 1..2]
TapMemory == [pc : {"idle", "complete", "done"}, ticket : Tickets \cup {None},
              cook : Cooks \cup {None}]

TypeOK ==
    /\ chatOf \in [Stalls -> Chats \cup {None}]
    /\ deleted \subseteq Stalls
    /\ link \in [Links -> LinkRow]
    /\ expired \subseteq Links
    /\ start \in [Starts -> StartMemory]
    /\ ticket \in [Tickets -> TicketRow]
    /\ send \in [Tickets -> SendMemory]
    /\ listed \subseteq Stalls \X Cooks
    /\ tap \in [Taps -> TapMemory]
    /\ upgraded \subseteq Groups
    /\ shown \in [Tickets -> Chats \cup {None}]
    /\ budget \in [changes : Nat, failures : Nat]

Init ==
    /\ chatOf = [s \in Stalls |-> None]
    /\ deleted = {}
    /\ link = [l \in Links |-> [stall |-> None, state |-> "none"]]
    /\ expired = {}
    /\ start = [r \in Starts |-> [pc |-> "idle", link |-> None, chat |-> None]]
    /\ ticket = [k \in Tickets |-> [chat |-> None, status |-> "none"]]
    /\ send = [k \in Tickets |-> [pc |-> "idle", chat |-> None, final |-> None, try |-> 1]]
    /\ listed = {}
    /\ tap = [h \in Taps |-> [pc |-> "idle", ticket |-> None, cook |-> None]]
    /\ upgraded = {}
    /\ shown = [k \in Tickets |-> None]
    /\ budget = [changes |-> MaxChanges, failures |-> MaxFailures]
-----------------------------------------------------------------------------
(* Row locks.  A transaction at "search" holds its stall row; the search   *)
(* itself takes every row and the transaction ends with it.                *)

Active(s) == s \notin deleted

StartStall(r) == link[start[r].link].stall

LockedByStart(s) == \E r \in Starts : start[r].pc = "search" /\ StartStall(r) = s
LockedBySend(s) == \E k \in Tickets : send[k].pc = "search" /\ StallOf[k] = s
StallFree(s) == ~LockedByStart(s) /\ ~LockedBySend(s)

\* Faulty variant: the link is read without a lock.
LinkFreeUnlocked(l) == TRUE

LinkFree(l) == \A r \in Starts : start[r].pc \in {"stall", "search"} => start[r].link # l

Searching == {r \in Starts : start[r].pc = "search"} \cup {k \in Tickets : send[k].pc = "search"}

OnlySearcher(t) == Searching = {t}

\* Faulty variant: no search, and no unique index.
FreeForUnchecked(s, c) == TRUE

\* Neither the search nor uq_stalls_active_telegram_chat_id finds another
\* stall with the chat; deleted stalls do not count.
FreeFor(s, c) == \A other \in Stalls \ {s} : Active(other) => chatOf[other] # c
-----------------------------------------------------------------------------
(* Owner: createTelegramGroupConnectionLink and the stall itself. *)

\* The stall is checked before the transaction that writes the link.
AskLink(l, s) ==
    /\ link[l].state = "none"
    /\ Active(s)
    /\ link' = [link EXCEPT ![l] = [@ EXCEPT !.stall = s, !.state = "asked"]]
    /\ UNCHANGED <<chatOf, deleted, expired, start, dispatch, kitchen, upgraded, budget>>

\* replacePendingConnection: the stall's unanswered links are destroyed.
Replaces(l) == {m \in Links : link[m].state = "open" /\ link[m].stall = link[l].stall}

CreateLink(l) ==
    /\ link[l].state = "asked"
    /\ \A m \in Replaces(l) : LinkFree(m)
    /\ link' = [m \in Links |->
           CASE m = l -> [link[l] EXCEPT !.state = "open"]
             [] m \in Replaces(l) -> [link[m] EXCEPT !.state = "replaced"]
             [] OTHER -> link[m]]
    /\ UNCHANGED <<chatOf, deleted, expired, start, dispatch, kitchen, upgraded, budget>>

ExpireLink(l) ==
    /\ link[l].state = "open" /\ l \notin expired
    /\ budget.changes > 0
    /\ expired' = expired \cup {l}
    /\ budget' = [budget EXCEPT !.changes = @ - 1]
    /\ UNCHANGED <<chatOf, deleted, link, start, dispatch, kitchen, upgraded>>

DeleteStall(s) ==
    /\ Active(s)
    /\ StallFree(s)
    /\ budget.changes > 0
    /\ deleted' = deleted \cup {s}
    /\ budget' = [budget EXCEPT !.changes = @ - 1]
    /\ UNCHANGED <<chatOf, link, expired, start, dispatch, kitchen, upgraded>>
-----------------------------------------------------------------------------
(* Webhook: processTelegramGroupConnection and consumeConnection. *)

EndStart(r) == start' = [start EXCEPT ![r].pc = "done"]

\* The group answers a link it was given, whatever became of the link since.
ReceiveStart(r, l, g) ==
    /\ start[r].pc = "idle"
    /\ link[l].state \notin {"none", "asked"}
    /\ start' = [start EXCEPT ![r] = [pc |-> "link", link |-> l, chat |-> LiveChat(g)]]
    /\ UNCHANGED <<routes, dispatch, kitchen, upgraded, budget>>

LockLink(r) ==
    LET l == start[r].link IN
    /\ start[r].pc = "link"
    /\ LinkFree(l)
    /\ start' = [start EXCEPT ![r].pc = IF link[l].state = "replaced" THEN "done" ELSE "stall"]
    /\ UNCHANGED <<routes, dispatch, kitchen, upgraded, budget>>

\* An answered link is good for nothing, not even for the same chat again.
Usable(l) == link[l].state = "open" /\ l \notin expired

LockStall(r) ==
    LET s == StartStall(r) IN
    /\ start[r].pc = "stall"
    /\ StallFree(s)
    /\ start' = [start EXCEPT ![r].pc =
           IF Active(s) /\ Usable(start[r].link) THEN "search" ELSE "done"]
    /\ UNCHANGED <<routes, dispatch, kitchen, upgraded, budget>>

Connect(r) ==
    LET l == start[r].link
        s == link[l].stall
        c == start[r].chat
    IN
    /\ start[r].pc = "search"
    /\ OnlySearcher(r)
    /\ EndStart(r)
    /\ IF FreeFor(s, c)
       THEN /\ chatOf' = [chatOf EXCEPT ![s] = c]
            /\ link' = [link EXCEPT ![l].state = "consumed"]
            /\ UNCHANGED <<deleted, expired>>
       ELSE UNCHANGED routes
    /\ UNCHANGED <<dispatch, kitchen, upgraded, budget>>

\* Two transactions that hold a stall row each and search all of them: the
\* database rolls one back.  The webhook was answered, nobody repeats it.
StartLosesDeadlock(r) ==
    /\ start[r].pc = "search"
    /\ ~OnlySearcher(r)
    /\ EndStart(r)
    /\ UNCHANGED <<routes, dispatch, kitchen, upgraded, budget>>

StartStep(r) == LockLink(r) \/ LockStall(r) \/ Connect(r) \/ StartLosesDeadlock(r)
-----------------------------------------------------------------------------
(* Dispatch: dispatchToTelegram, callTelegramApi, migrateTelegramChatRouting. *)

\* The stall is read in one statement and the ticket inserted in the next.
ReadStall(k) ==
    /\ send[k].pc = "idle"
    /\ chatOf[StallOf[k]] # None
    /\ send' = [send EXCEPT ![k].pc = "insert", ![k].chat = chatOf[StallOf[k]]]
    /\ UNCHANGED <<routes, start, ticket, shown, kitchen, upgraded, budget>>

InsertTicket(k) ==
    /\ send[k].pc = "insert"
    /\ ticket' = [ticket EXCEPT ![k] = [chat |-> send[k].chat, status |-> "pending"]]
    /\ send' = [send EXCEPT ![k].pc = "call"]
    /\ UNCHANGED <<routes, start, shown, kitchen, upgraded, budget>>

Deliver(k) ==
    /\ send[k].pc = "call"
    /\ ~Migrated(send[k].chat)
    /\ shown' = [shown EXCEPT ![k] = send[k].chat]
    /\ send' = [send EXCEPT ![k].pc = "reload"]
    /\ UNCHANGED <<routes, start, ticket, kitchen, upgraded, budget>>

\* The first attempt of the call that fails is repeated, the second is not.
NextTry(k) ==
    IF send[k].try = 1
    THEN send' = [send EXCEPT ![k].pc = "call", ![k].try = 2] /\ UNCHANGED ticket
    ELSE /\ send' = [send EXCEPT ![k].pc = "done"]
         /\ ticket' = [ticket EXCEPT ![k].status = "failed"]

CallFails(k) ==
    /\ send[k].pc \in {"call", "resend"}
    /\ budget.failures > 0
    /\ NextTry(k)
    /\ budget' = [budget EXCEPT !.failures = @ - 1]
    /\ UNCHANGED <<routes, start, shown, kitchen, upgraded>>

\* Telegram names the new chat id: onChatMigration, then a second request.
LearnMigration(k) ==
    /\ send[k].pc = "call"
    /\ Migrated(send[k].chat)
    /\ send' = [send EXCEPT ![k].pc = "stall"]
    /\ UNCHANGED <<routes, start, ticket, shown, kitchen, upgraded, budget>>

NewChat(k) == LiveChat(send[k].chat[1])

\* The locked stall decides: moved already, still on the old chat, or neither.
LockForMigration(k) ==
    LET s == StallOf[k] IN
    /\ send[k].pc = "stall"
    /\ StallFree(s)
    /\ CASE Active(s) /\ chatOf[s] = NewChat(k) ->
                send' = [send EXCEPT ![k].pc = "resend"] /\ UNCHANGED ticket
         [] Active(s) /\ chatOf[s] = send[k].chat ->
                send' = [send EXCEPT ![k].pc = "search"] /\ UNCHANGED ticket
         [] OTHER -> NextTry(k)
    /\ UNCHANGED <<routes, start, shown, kitchen, upgraded, budget>>

Moves(k, t) ==
    /\ StallOf[t] = StallOf[k]
    /\ ticket[t].chat = send[k].chat
    /\ ticket[t].status \in {"pending", "sent"}

Migrate(k) ==
    LET s == StallOf[k] IN
    /\ send[k].pc = "search"
    /\ OnlySearcher(k)
    /\ FreeFor(s, NewChat(k))
    /\ chatOf' = [chatOf EXCEPT ![s] = NewChat(k)]
    /\ ticket' = [t \in Tickets |->
           IF Moves(k, t) THEN [ticket[t] EXCEPT !.chat = NewChat(k)] ELSE ticket[t]]
    /\ send' = [send EXCEPT ![k].pc = "resend"]
    /\ UNCHANGED <<deleted, link, expired, start, shown, kitchen, upgraded, budget>>

\* The new chat belongs to another stall, or the transaction is a deadlock's
\* victim: the attempt fails.
MigrationRefused(k) ==
    /\ send[k].pc = "search"
    /\ OnlySearcher(k) => ~FreeFor(StallOf[k], NewChat(k))
    /\ NextTry(k)
    /\ UNCHANGED <<routes, start, shown, kitchen, upgraded, budget>>

Resend(k) ==
    /\ send[k].pc = "resend"
    /\ shown' = [shown EXCEPT ![k] = NewChat(k)]
    /\ send' = [send EXCEPT ![k].pc = "reload"]
    /\ UNCHANGED <<routes, start, ticket, kitchen, upgraded, budget>>

ReloadStall(k) ==
    /\ send[k].pc = "reload"
    /\ send' = [send EXCEPT ![k].pc = "save", ![k].final = chatOf[StallOf[k]]]
    /\ UNCHANGED <<routes, start, ticket, shown, kitchen, upgraded, budget>>

\* Faulty variant: the save writes every column.
SavedChatBlindly(k) == send[k].final

\* save() writes the columns that differ from the row as this dispatch made it:
\* a chat that was re-read unchanged leaves the column alone.
SavedChat(k) == IF send[k].final = send[k].chat THEN ticket[k].chat ELSE send[k].final

SaveSent(k) ==
    /\ send[k].pc = "save"
    /\ ticket' = [ticket EXCEPT ![k] = [chat |-> SavedChat(k), status |-> "sent"]]
    /\ send' = [send EXCEPT ![k].pc = "done"]
    /\ UNCHANGED <<routes, start, shown, kitchen, upgraded, budget>>

SendStep(k) ==
    \/ InsertTicket(k) \/ Deliver(k) \/ CallFails(k) \/ LearnMigration(k)
    \/ LockForMigration(k) \/ Migrate(k) \/ MigrationRefused(k) \/ Resend(k)
    \/ ReloadStall(k) \/ SaveSent(k)
-----------------------------------------------------------------------------
(* Cooks: authorizeTelegramCook, revokeTelegramCook, processTelegramCallback. *)

AuthorizeCook(s, u) ==
    /\ Active(s)
    /\ budget.changes > 0
    /\ listed' = listed \cup {<<s, u>>}
    /\ budget' = [budget EXCEPT !.changes = @ - 1]
    /\ UNCHANGED <<routes, start, dispatch, tap, upgraded>>

RevokeCook(s, u) ==
    /\ Active(s)
    /\ <<s, u>> \in listed
    /\ budget.changes > 0
    /\ listed' = listed \ {<<s, u>>}
    /\ budget' = [budget EXCEPT !.changes = @ - 1]
    /\ UNCHANGED <<routes, start, dispatch, tap, upgraded>>

\* The row names the chat and the message the callback came from.
NamedBy(k) == shown[k] # None /\ ticket[k].chat = shown[k]

Completable(k) == NamedBy(k) /\ ticket[k].status = "sent"

CheckTap(h, k, u) ==
    /\ tap[h].pc = "idle"
    /\ Completable(k)
    /\ chatOf[StallOf[k]] = shown[k]
    /\ <<StallOf[k], u>> \in listed
    /\ tap' = [tap EXCEPT ![h] = [pc |-> "complete", ticket |-> k, cook |-> u]]
    /\ UNCHANGED <<routes, start, dispatch, listed, upgraded, budget>>

\* completeTelegramTicketAtomically locks the ticket and looks again, at the
\* ticket only.
CompleteTap(h) ==
    LET k == tap[h].ticket IN
    /\ tap[h].pc = "complete"
    /\ ticket' = IF Completable(k) THEN [ticket EXCEPT ![k].status = "done"] ELSE ticket
    /\ tap' = [tap EXCEPT ![h].pc = "done"]
    /\ UNCHANGED <<routes, start, send, shown, listed, upgraded, budget>>

\* Telegram makes the group a supergroup.
Upgrade(g) ==
    /\ g \notin upgraded
    /\ upgraded' = upgraded \cup {g}
    /\ UNCHANGED <<routes, start, dispatch, kitchen, budget>>
-----------------------------------------------------------------------------
Next ==
    \/ \E l \in Links, s \in Stalls : AskLink(l, s)
    \/ \E l \in Links : CreateLink(l) \/ ExpireLink(l)
    \/ \E s \in Stalls : DeleteStall(s)
    \/ \E r \in Starts, l \in Links, g \in Groups : ReceiveStart(r, l, g)
    \/ \E r \in Starts : StartStep(r)
    \/ \E k \in Tickets : ReadStall(k) \/ SendStep(k)
    \/ \E s \in Stalls, u \in Cooks : AuthorizeCook(s, u) \/ RevokeCook(s, u)
    \/ \E h \in Taps, k \in Tickets, u \in Cooks : CheckTap(h, k, u)
    \/ \E h \in Taps : CompleteTap(h)
    \/ \E g \in Groups : Upgrade(g)

Spec == Init /\ [][Next]_vars
-----------------------------------------------------------------------------
(* Safety. *)

\* "MySQL must enforce that a Telegram chat ID belongs to at most one
\* non-deleted Stall" (context/architecture.md): however links, upgrades and
\* deletions interleave.
OneStallPerChat ==
    \A s, z \in Stalls :
        s # z /\ Active(s) /\ Active(z) /\ chatOf[s] # None => chatOf[s] # chatOf[z]

\* A link connects one group once, and none after a later link has replaced it,
\* even when the owner asks for the new one while a group answers the old one.
SpentLinksStayOut ==
    [][\A l \in Links : link[l].state \in {"replaced", "consumed"} => link'[l] = link[l]]_vars

ConnectedBy(s) == {l \in Links : link[l].state = "consumed" /\ link[l].stall = s}

\* A migration takes the open tickets along: unless the stall was connected
\* anew, no delivered ticket is left with an old chat id, although other
\* dispatches insert and save their rows around the migration.
TicketsFollowMigration ==
    \A k \in Tickets :
        ticket[k].status = "sent" /\ Cardinality(ConnectedBy(StallOf[k])) = 1
            => ticket[k].chat = chatOf[StallOf[k]]

\* The chat directory the backend promises.
OwnerOf(c) ==
    IF \E s \in Stalls : Active(s) /\ chatOf[s] = c
    THEN CHOOSE s \in Stalls : Active(s) /\ chatOf[s] = c
    ELSE None

owners == [c \in Chats |-> OwnerOf(c)]

Directory == INSTANCE ChatDirectory WITH owner <- owners

\* Connecting, migrating and deleting implement the directory.
ImplementsDirectory == Directory!Spec
=============================================================================

---------------------------- MODULE StaffSessions ----------------------------
(***************************************************************************)
(* Who may act as a cashier, and from which terminal.  A PIN login checks  *)
(* the terminal, the account and the stall assignment in statements of     *)
(* their own and then opens a session (auth.service); requests, refreshes  *)
(* and live sockets check the same three things again (auth.middleware,    *)
(* auth-session.service, websocket.service).  Meanwhile managers edit      *)
(* accounts, move cashiers, revoke terminals and delete stalls; each       *)
(* change commits first and is announced to the open sockets afterwards.   *)
(***************************************************************************)
EXTENDS Integers, Sequences, FiniteSets

CONSTANTS
    Cashiers, Devices, Stalls, Sockets, None,
    MaxSessions, \* bound: refresh tokens issued
    MaxEdits,    \* bound: edits of an account
    MaxMoves     \* bound: assignment changes of a cashier

ASSUME NoneAssumption == None \notin Stalls \cup Devices \cup Cashiers
ASSUME BoundsAssumption == {MaxSessions, MaxEdits, MaxMoves} \subseteq Nat

VARIABLES
    account,  \* users: session_version, is_active, is_deleted
    assigned, \* stall_staff: the stall of each cashier; moves counts the changes
    moves,
    device,   \* stall_devices: the stall, and whether and how it was revoked
    deleted,  \* stalls.is_deleted
    sessions, \* refresh_sessions, in order of creation
    tokens,   \* access tokens signed so far
    login,    \* the PIN login each cashier has under way
    request,  \* the assignment request that passed its checks, or NoRequest
    socket,   \* live connections of terminals
    notices   \* changes that committed and wait to be announced

vars == <<account, assigned, moves, device, deleted, sessions, tokens, login,
          request, socket, notices>>
-----------------------------------------------------------------------------
\* checked and home are history: the account version at the PIN check of the login
\* that began the session, and the terminal it was typed on.
Claims == [user : Cashiers, device : Devices, stall : Stalls, version : Nat,
           checked : Nat, home : Devices]
Row == [user : Cashiers, device : Devices, version : Nat, revoked : BOOLEAN,
        checked : Nat, home : Devices]

LoginStep == {"idle", "terminal", "pin", "assigned"}
NoLogin == [step |-> "idle", device |-> None, stall |-> None, version |-> 0]

SocketStep == {"closed", "token", "terminal", "assigned", "open", "closing"}
NoSocket == [step |-> "closed", token |-> None, late |-> FALSE]

NoRequest == [kind |-> "none", user |-> None, stall |-> None]
Notice == [kind : {"user", "cashier"}, id : Cashiers] \cup [kind : {"device"}, id : Devices]

TypeOK ==
    /\ account \in [Cashiers -> [version : Nat, active : BOOLEAN, deleted : BOOLEAN]]
    /\ assigned \in [Cashiers -> Stalls \cup {None}]
    /\ moves \in [Cashiers -> Nat]
    /\ device \in [Devices -> [stall : Stalls \cup {None},
                               status : {"new", "active", "revoked", "stall deleted"}]]
    /\ deleted \subseteq Stalls
    /\ sessions \in Seq(Row)
    /\ tokens \subseteq Claims
    /\ login \in [Cashiers -> [step : LoginStep, device : Devices \cup {None},
                               stall : Stalls \cup {None}, version : Nat]]
    /\ request \in [kind : {"none", "assign", "unassign"}, user : Cashiers \cup {None},
                    stall : Stalls \cup {None}]
    /\ DOMAIN socket = Sockets
    /\ \A k \in Sockets : /\ socket[k].step \in SocketStep /\ socket[k].late \in BOOLEAN
                          /\ socket[k].step # "closed" => socket[k].token \in tokens
    /\ notices \subseteq Notice

Init ==
    /\ account = [c \in Cashiers |-> [version |-> 1, active |-> TRUE, deleted |-> FALSE]]
    /\ assigned = [c \in Cashiers |-> None]
    /\ moves = [c \in Cashiers |-> 0]
    /\ device = [d \in Devices |-> [stall |-> None, status |-> "new"]]
    /\ deleted = {}
    /\ sessions = << >>
    /\ tokens = {}
    /\ login = [c \in Cashiers |-> NoLogin]
    /\ request = NoRequest
    /\ socket = [k \in Sockets |-> NoSocket]
    /\ notices = {}
-----------------------------------------------------------------------------
(* The checks every entry point makes. *)

\* findDeviceByToken with its stall: registered, not revoked, stall not deleted.
TerminalWorks(d) == device[d].status = "active" /\ device[d].stall \notin deleted

\* resolveActiveTokenSession: the version of the token is the account's.
AccountMatches(c, version) ==
    ~account[c].deleted /\ account[c].active /\ account[c].version = version

AssignedTo(c, s) == s # None /\ assigned[c] = s
-----------------------------------------------------------------------------
(* PIN login (loginWithPin): one statement after the other. *)

StepLogin(c, record) ==
    /\ login' = [login EXCEPT ![c] = record]
    /\ UNCHANGED <<account, assigned, moves, device, deleted, request, socket, notices>>

BeginLogin(c, d) ==
    /\ login[c].step = "idle" /\ Len(sessions) < MaxSessions
    /\ TerminalWorks(d)
    /\ StepLogin(c, [NoLogin EXCEPT !.step = "terminal", !.device = d,
                                    !.stall = device[d].stall])
    /\ UNCHANGED <<sessions, tokens>>

\* The account and its PIN come from one row; a deleted or inactive one is refused.
CheckPin(c) ==
    /\ login[c].step = "terminal"
    /\ IF account[c].active /\ ~account[c].deleted
       THEN StepLogin(c, [login[c] EXCEPT !.step = "pin", !.version = account[c].version])
       ELSE StepLogin(c, NoLogin)
    /\ UNCHANGED <<sessions, tokens>>

CheckAssignment(c) ==
    /\ login[c].step = "pin"
    /\ IF AssignedTo(c, login[c].stall)
       THEN StepLogin(c, [login[c] EXCEPT !.step = "assigned"])
       ELSE StepLogin(c, NoLogin)
    /\ UNCHANGED <<sessions, tokens>>

\* accessClaims
Signed(row, stall) ==
    [user |-> row.user, device |-> row.device, stall |-> stall, version |-> row.version,
     checked |-> row.checked, home |-> row.home]

\* Faulty variant: the session is written for the account as it is by then.
FreshVersion(c) == account[c].version

\* createAuthSession is given the row that the PIN was compared with.
SessionVersion(c) == login[c].version

\* createAuthSession checks nothing more.
OpenSession(c) ==
    LET x == login[c]
        row == [user |-> c, device |-> x.device, version |-> SessionVersion(c),
                revoked |-> FALSE, checked |-> x.version, home |-> x.device]
    IN
    /\ x.step = "assigned" /\ Len(sessions) < MaxSessions
    /\ sessions' = Append(sessions, row)
    /\ tokens' = tokens \cup {Signed(row, x.stall)}
    /\ StepLogin(c, NoLogin)
-----------------------------------------------------------------------------
(* A refresh (rotateAuthSession).  Reuse of a token and its CSRF proof are the *)
(* concern of RefreshSessions; here the token is live and the proof agrees.    *)
(* One step: the row stays locked, so a change of the account, the assignment  *)
(* or the terminal, which revokes the same row, waits for it or precedes it.   *)

\* Faulty variant: any working terminal of the stall will do.
AnyTerminalOfStall(row, d) == TerminalWorks(d) /\ AssignedTo(row.user, device[d].stall)

\* resolveRefreshPrincipal for a cashier; d is the terminal that asks.
Entitled(row, d) == /\ TerminalWorks(d) /\ d = row.device
                    /\ AssignedTo(row.user, device[d].stall)

Refresh(k, d) ==
    LET row == sessions[k]
        next == [row EXCEPT !.device = d]
    IN
    /\ k \in DOMAIN sessions /\ ~row.revoked
    /\ IF AccountMatches(row.user, row.version) /\ Entitled(row, d)
       THEN /\ Len(sessions) < MaxSessions
            /\ sessions' = Append([sessions EXCEPT ![k].revoked = TRUE], next)
            /\ tokens' = tokens \cup {Signed(next, device[d].stall)}
       ELSE /\ sessions' = [sessions EXCEPT ![k].revoked = TRUE]
            /\ UNCHANGED tokens
    /\ UNCHANGED <<account, assigned, moves, device, deleted, login, request, socket, notices>>
-----------------------------------------------------------------------------
(* A live socket: authenticateSocket, then registration at 'connection'. *)

StepSocket(k, record) ==
    /\ socket' = [socket EXCEPT ![k] = record]
    /\ UNCHANGED <<account, assigned, moves, device, deleted, sessions, tokens, login,
                   request, notices>>

Connect(k, t) ==
    /\ socket[k].step = "closed" /\ t \in tokens
    /\ AccountMatches(t.user, t.version)
    /\ StepSocket(k, [step |-> "token", token |-> t, late |-> FALSE])

Advance(k, from, ok, to) ==
    /\ socket[k].step = from
    /\ StepSocket(k, IF ok THEN [socket[k] EXCEPT !.step = to] ELSE NoSocket)

ConnectTerminal(k) ==
    LET t == socket[k].token IN
    Advance(k, "token", TerminalWorks(t.device) /\ device[t.device].stall = t.stall, "terminal")

ConnectAssignment(k) ==
    Advance(k, "terminal", AssignedTo(socket[k].token.user, socket[k].token.stall), "assigned")

\* addSocket, addCashierSocket, addDeviceSocket
Register(k) == Advance(k, "assigned", TRUE, "open")

\* The 100 ms timer after a notice, the terminal going away, or a lost network.
Disconnect(k) == socket[k].step \in {"open", "closing"} /\ StepSocket(k, NoSocket)

Handshake(k) == ConnectTerminal(k) \/ ConnectAssignment(k) \/ Register(k)
-----------------------------------------------------------------------------
(* Management.  A change commits, and is announced in a later step. *)

Concerns(n, k) ==
    /\ socket[k].step # "closed"
    /\ n.id = IF n.kind = "device" THEN socket[k].token.device ELSE socket[k].token.user

\* A committed change with its notice; handshakes under way are marked (history).
Committed(n) ==
    /\ notices' = notices \cup {n}
    /\ socket' = [k \in Sockets |->
                     IF Concerns(n, k) /\ socket[k].step \in {"token", "terminal", "assigned"}
                     THEN [socket[k] EXCEPT !.late = TRUE] ELSE socket[k]]

Revoked(S) ==
    [k \in DOMAIN sessions |-> IF k \in S THEN [sessions[k] EXCEPT !.revoked = TRUE]
                                          ELSE sessions[k]]

RevokeOfUser(c) == Revoked({k \in DOMAIN sessions : sessions[k].user = c})
RevokeOfDevice(d) == Revoked({k \in DOMAIN sessions : sessions[k].device = d})

\* Faulty variant: the edit leaves the version alone.
VersionKept(c) == account[c].version

NextVersion(c) == account[c].version + 1

\* updateUser: name, role, PIN or active flag.
EditUser(c, active) ==
    /\ ~account[c].deleted /\ account[c].version <= MaxEdits
    /\ account' = [account EXCEPT ![c].version = NextVersion(c), ![c].active = active]
    /\ sessions' = RevokeOfUser(c)
    /\ Committed([kind |-> "user", id |-> c])
    /\ UNCHANGED <<assigned, moves, device, deleted, tokens, login, request>>

DeleteUser(c) ==
    /\ ~account[c].deleted /\ account[c].version <= MaxEdits
    /\ account' = [account EXCEPT ![c] = [version |-> NextVersion(c), active |-> FALSE,
                                          deleted |-> TRUE]]
    /\ sessions' = RevokeOfUser(c)
    /\ Committed([kind |-> "user", id |-> c])
    /\ UNCHANGED <<assigned, moves, device, deleted, tokens, login, request>>

\* assignStaff and unassignStaff look at the stall and the user first ...
BeginAssignment(kind, c, s) ==
    /\ request = NoRequest
    /\ s \notin deleted /\ ~account[c].deleted
    /\ request' = [kind |-> kind, user |-> c, stall |-> s]
    /\ UNCHANGED <<account, assigned, moves, device, deleted, sessions, tokens, login,
                   socket, notices>>

Changes(c, s) == assigned[c] # s

\* ... and change the assignment in a transaction afterwards.
CommitAssignment ==
    LET c == request.user
        s == request.stall
        target == IF request.kind = "assign" THEN s ELSE None
        changed == IF request.kind = "assign" THEN Changes(c, s) ELSE assigned[c] = s
    IN
    /\ request # NoRequest
    /\ request' = NoRequest
    /\ IF changed
       THEN /\ moves[c] < MaxMoves
            /\ assigned' = [assigned EXCEPT ![c] = target]
            /\ moves' = [moves EXCEPT ![c] = @ + 1]
            /\ sessions' = RevokeOfUser(c)
            /\ Committed([kind |-> "cashier", id |-> c])
       ELSE UNCHANGED <<assigned, moves, sessions, socket, notices>>
    /\ UNCHANGED <<account, device, deleted, tokens, login>>

RegisterDevice(d, s) ==
    /\ device[d].status = "new" /\ s \notin deleted
    /\ device' = [device EXCEPT ![d] = [stall |-> s, status |-> "active"]]
    /\ UNCHANGED <<account, assigned, moves, deleted, sessions, tokens, login, request,
                   socket, notices>>

DeregisterDevice(d) ==
    /\ device[d].status = "active" /\ device[d].stall \notin deleted
    /\ device' = [device EXCEPT ![d].status = "revoked"]
    /\ sessions' = RevokeOfDevice(d)
    /\ Committed([kind |-> "device", id |-> d])
    /\ UNCHANGED <<account, assigned, moves, deleted, tokens, login, request>>

\* deleteStall revokes the terminals; assignments and sessions stay as they are
\* and nobody is told.
DeleteStall(s) ==
    /\ s \notin deleted
    /\ deleted' = deleted \cup {s}
    /\ device' = [d \in Devices |-> IF device[d].stall = s /\ device[d].status = "active"
                                    THEN [device[d] EXCEPT !.status = "stall deleted"]
                                    ELSE device[d]]
    /\ UNCHANGED <<account, assigned, moves, sessions, tokens, login, request, socket, notices>>

\* Faulty variant: terminals are looked up among the users.
ToldUsers(n) == {k \in Sockets : socket[k].step = "open" /\ socket[k].token.user = n.id}

\* The sockets registered for the user or the terminal (userSockets,
\* cashierSockets, deviceSockets) when the notice goes out.
Told(n) == {k \in Sockets : socket[k].step = "open" /\ Concerns(n, k)}

\* emitUserSessionInvalidated, emitCashierSessionInvalidated, emitDeviceRevoked
Announce(n) ==
    /\ n \in notices
    /\ notices' = notices \ {n}
    /\ socket' = [k \in Sockets |-> IF k \in Told(n) THEN [socket[k] EXCEPT !.step = "closing"]
                                                     ELSE socket[k]]
    /\ UNCHANGED <<account, assigned, moves, device, deleted, sessions, tokens, login, request>>
-----------------------------------------------------------------------------
Manage ==
    \/ \E c \in Cashiers : \/ \E active \in BOOLEAN : EditUser(c, active)
                           \/ DeleteUser(c)
                           \/ \E kind \in {"assign", "unassign"}, s \in Stalls :
                                 BeginAssignment(kind, c, s)
    \/ CommitAssignment
    \/ \E d \in Devices : DeregisterDevice(d) \/ \E s \in Stalls : RegisterDevice(d, s)
    \/ \E s \in Stalls : DeleteStall(s)
    \/ \E n \in notices : Announce(n)

Next ==
    \/ \E c \in Cashiers : \/ \E d \in Devices : BeginLogin(c, d)
                           \/ CheckPin(c) \/ CheckAssignment(c) \/ OpenSession(c)
    \/ \E k \in 1..MaxSessions, d \in Devices : Refresh(k, d)
    \/ \E k \in Sockets : \/ \E t \in tokens : Connect(k, t)
                          \/ Handshake(k) \/ Disconnect(k)
    \/ Manage

Spec == Init /\ [][Next]_vars
-----------------------------------------------------------------------------
(* Properties. *)

\* Whatever is edited while a PIN login is under way, an access token or a refresh
\* session that still works goes back to a PIN of the account as it is now.
CredentialsCurrent ==
    /\ \A t \in tokens : AccountMatches(t.user, t.version) => t.checked = account[t.user].version
    /\ \A k \in DOMAIN sessions :
          LET row == sessions[k] IN
            ~row.revoked /\ AccountMatches(row.user, row.version)
               => row.checked = account[row.user].version

\* A session never leaves the terminal where the PIN was typed, over any number of
\* refreshes ("bound to the same device", auth-flow.md).
TokensStayOnTerminal == \A t \in tokens : t.device = t.home

\* A token refused because of its account or its terminal stays refused: activating
\* the account again, say, brings no old token back.
RefusedForGood ==
    [][\A t \in tokens :
          ~(AccountMatches(t.user, t.version) /\ TerminalWorks(t.device))
             => ~(AccountMatches(t.user, t.version) /\ TerminalWorks(t.device))']_vars

\* The terminal lost its place: account, assignment or registration changed.
Outdated(t) == \/ ~AccountMatches(t.user, t.version)
               \/ ~AssignedTo(t.user, t.stall)
               \/ device[t.device].status = "revoked"

\* An open socket of an outdated session is about to be told, unless its handshake
\* overlapped the change.
StaleSocketsAreLate ==
    \A k \in Sockets :
        socket[k].step = "open" /\ Outdated(socket[k].token)
            => socket[k].late \/ \E n \in notices : Concerns(n, k)
=============================================================================

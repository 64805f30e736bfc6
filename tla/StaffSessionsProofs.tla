------------------------- MODULE StaffSessionsProofs -------------------------
(***************************************************************************)
(* What the sessions of cashiers rest on, for any number of cashiers,      *)
(* terminals, stalls and sockets: three invariants over the type.          *)
(*   TypeInv   : what is under way refers to terminals, stalls and tokens  *)
(*               that exist; a terminal in use was registered.             *)
(*   CredInv   : every token and row carries the version and the terminal  *)
(*               of its PIN, and no version runs ahead of its account.     *)
(*   SocketInv : a connection was overtaken by a change, or all that its   *)
(*               handshake has established still holds, or it is open and  *)
(*               a notice that concerns it has yet to go out.              *)
(***************************************************************************)
EXTENDS StaffSessions, TLAPS

\* A connection in any of its steps.
Link == [step : SocketStep, token : Claims \cup {None}, late : BOOLEAN]

\* What a record under way refers to exists.
Refs ==
    /\ socket \in [Sockets -> Link]
    /\ \A d \in Devices : device[d].status # "new" => device[d].stall \in Stalls
    /\ \A c \in Cashiers : login[c].step # "idle" =>
          /\ login[c].device \in Devices
          /\ login[c].stall \in Stalls
          /\ device[login[c].device].status # "new"
    /\ request.kind = "none" => request = NoRequest
    /\ request.kind # "none" => request.user \in Cashiers /\ request.stall \in Stalls
    /\ \A t \in tokens : device[t.device].status # "new"
    /\ \A k \in DOMAIN sessions : device[sessions[k].device].status # "new"

TypeInv == TypeOK /\ Refs

USE NoneAssumption, BoundsAssumption

LEMMA InitTyped == Init => TypeInv
<1> SUFFICES ASSUME Init PROVE TypeInv
  OBVIOUS
<1>1. account \in [Cashiers -> [version : Nat, active : BOOLEAN, deleted : BOOLEAN]]
  BY DEF Init
<1>2. /\ assigned \in [Cashiers -> Stalls \cup {None}]
      /\ moves \in [Cashiers -> Nat]
  BY DEF Init
<1>3. device \in [Devices -> [stall : Stalls \cup {None},
                               status : {"new", "active", "revoked", "stall deleted"}]]
  BY DEF Init
<1>4. deleted \subseteq Stalls /\ sessions \in Seq(Row) /\ tokens \subseteq Claims
  BY DEF Init
<1>5. login \in [Cashiers -> [step : LoginStep, device : Devices \cup {None},
                               stall : Stalls \cup {None}, version : Nat]]
  BY DEF Init, NoLogin, LoginStep
<1>6. request \in [kind : {"none", "assign", "unassign"}, user : Cashiers \cup {None},
                    stall : Stalls \cup {None}]
  BY DEF Init, NoRequest
<1>7. /\ DOMAIN socket = Sockets
      /\ \A k \in Sockets : /\ socket[k].step \in SocketStep /\ socket[k].late \in BOOLEAN
                            /\ socket[k].step # "closed" => socket[k].token \in tokens
  BY DEF Init, NoSocket, SocketStep
<1>8. notices \subseteq Notice
  BY DEF Init
<1>9. Refs
  <2>1. socket \in [Sockets -> Link]
    BY DEF Init, NoSocket, Link, SocketStep
  <2> QED BY <2>1 DEF Init, Refs, NoLogin, NoRequest
<1> QED BY <1>1, <1>2, <1>3, <1>4, <1>5, <1>6, <1>7, <1>8, <1>9 DEF TypeInv, TypeOK

LEMMA RevokedRows ==
    ASSUME TypeOK, NEW S
    PROVE  /\ Revoked(S) \in Seq(Row)
           /\ DOMAIN Revoked(S) = DOMAIN sessions
           /\ \A k \in DOMAIN sessions :
                 \/ Revoked(S)[k] = sessions[k]
                 \/ Revoked(S)[k] = [sessions[k] EXCEPT !.revoked = TRUE]
<1>1. sessions \in Seq(Row)
  BY DEF TypeOK
<1>2. ASSUME NEW k \in DOMAIN sessions
      PROVE  sessions[k] \in Row /\ [sessions[k] EXCEPT !.revoked = TRUE] \in Row
  <2>1. sessions[k] \in Row
    BY <1>1
  <2> QED BY <2>1 DEF Row
<1>3. Len(sessions) \in Nat /\ DOMAIN sessions = 1..Len(sessions)
  BY <1>1
<1>4. Revoked(S) = [k \in 1..Len(sessions) |->
           IF k \in S THEN [sessions[k] EXCEPT !.revoked = TRUE] ELSE sessions[k]]
  BY <1>3 DEF Revoked
<1>5. Revoked(S) \in [1..Len(sessions) -> Row]
  BY <1>2, <1>3, <1>4
<1>6. Revoked(S) \in Seq(Row)
  BY <1>3, <1>5
<1> QED BY <1>3, <1>4, <1>6

\* A login under way has a terminal that was registered.
Underway == [step : LoginStep, device : Devices, stall : Stalls, version : Nat]

LoginsTyped ==
    /\ login \in [Cashiers -> [step : LoginStep, device : Devices \cup {None},
                               stall : Stalls \cup {None}, version : Nat]]
    /\ \A c \in Cashiers : login[c].step # "idle" =>
          /\ login[c].device \in Devices
          /\ login[c].stall \in Stalls
          /\ device[login[c].device].status # "new"

LEMMA LoginRecord ==
    ASSUME TypeInv, NEW c \in Cashiers, NEW r,
           r = NoLogin \/ (r \in Underway /\ device[r.device].status # "new"),
           login' = [login EXCEPT ![c] = r], UNCHANGED device
    PROVE  LoginsTyped'
<1>1. r \in [step : LoginStep, device : Devices \cup {None},
             stall : Stalls \cup {None}, version : Nat]
  BY DEF NoLogin, Underway, LoginStep
<1>2. r.step # "idle" => r.device \in Devices /\ r.stall \in Stalls
                            /\ device[r.device].status # "new"
  BY DEF NoLogin, Underway
<1> QED BY <1>1, <1>2 DEF TypeInv, TypeOK, Refs, LoginsTyped

LEMMA LoginTyped ==
    ASSUME TypeInv, NEW c \in Cashiers,
           \/ \E d \in Devices : BeginLogin(c, d)
           \/ CheckPin(c) \/ CheckAssignment(c)
    PROVE  TypeInv'
<1>1. UNCHANGED <<account, assigned, moves, device, deleted, sessions, tokens, request,
                  socket, notices>>
  BY DEF BeginLogin, CheckPin, CheckAssignment, StepLogin
<1>0. login[c].step # "idle" => login[c] \in Underway /\ device[login[c].device].status # "new"
  BY DEF TypeInv, TypeOK, Refs, Underway
<1>2. \E r : /\ login' = [login EXCEPT ![c] = r]
             /\ r = NoLogin \/ (r \in Underway /\ device[r.device].status # "new")
  <2>1. CASE \E d \in Devices : BeginLogin(c, d)
    <3>1. PICK d \in Devices : BeginLogin(c, d)
      BY <2>1
    <3> DEFINE r == [NoLogin EXCEPT !.step = "terminal", !.device = d, !.stall = device[d].stall]
    <3>2. NoLogin \in [step : {"idle"}, device : {None}, stall : {None}, version : Nat]
      BY DEF NoLogin
    <3>3. device[d].status = "active" /\ device[d].stall \in Stalls
      BY <3>1 DEF BeginLogin, TerminalWorks, TypeInv, Refs
    <3>4. r \in Underway /\ device[r.device].status # "new"
      BY <3>2, <3>3 DEF Underway, LoginStep
    <3>5. login' = [login EXCEPT ![c] = r]
      BY <3>1 DEF BeginLogin, StepLogin
    <3> HIDE DEF r
    <3> QED BY <3>4, <3>5
  <2>2. CASE CheckPin(c)
    <3> DEFINE r == [login[c] EXCEPT !.step = "pin", !.version = account[c].version]
    <3>0. login[c].step = "terminal"
      BY <2>2 DEF CheckPin
    <3>1. account[c].version \in Nat
      BY DEF TypeInv, TypeOK
    <3>2. r \in Underway /\ device[r.device].status # "new"
      BY <1>0, <3>0, <3>1 DEF Underway, LoginStep
    <3>3. login' = [login EXCEPT ![c] = r] \/ login' = [login EXCEPT ![c] = NoLogin]
      BY <2>2, Zenon DEF CheckPin, StepLogin
    <3> HIDE DEF r
    <3> QED BY <3>2, <3>3
  <2>3. CASE CheckAssignment(c)
    <3> DEFINE r == [login[c] EXCEPT !.step = "assigned"]
    <3>1. login[c].step = "pin"
      BY <2>3 DEF CheckAssignment
    <3>2. r \in Underway /\ device[r.device].status # "new"
      BY <1>0, <3>1 DEF Underway, LoginStep
    <3>3. login' = [login EXCEPT ![c] = r] \/ login' = [login EXCEPT ![c] = NoLogin]
      BY <2>3 DEF CheckAssignment, StepLogin
    <3> HIDE DEF r
    <3> QED BY <3>2, <3>3
  <2> QED BY <2>1, <2>2, <2>3
<1>3. PICK r : /\ login' = [login EXCEPT ![c] = r]
               /\ r = NoLogin \/ (r \in Underway /\ device[r.device].status # "new")
  BY <1>2
<1>4. LoginsTyped'
  BY <1>1, <1>3, LoginRecord
<1>5. TypeOK'
  BY <1>1, <1>4 DEF TypeInv, TypeOK, LoginsTyped
<1>6. Refs'
  BY <1>1, <1>4 DEF TypeInv, Refs, LoginsTyped
<1> QED BY <1>5, <1>6 DEF TypeInv

RowsTyped ==
    /\ sessions \in Seq(Row)
    /\ \A k \in DOMAIN sessions : device[sessions[k].device].status # "new"

TokensTyped ==
    /\ tokens \subseteq Claims
    /\ \A t \in tokens : device[t.device].status # "new"

\* A session that is opened: a new row and a new access token.
LEMMA NewSession ==
    ASSUME TypeInv, NEW row \in Row, NEW s \in Stalls, device[row.device].status # "new",
           NEW old \in Seq(Row), DOMAIN old = DOMAIN sessions,
           \A k \in DOMAIN sessions : old[k].device = sessions[k].device,
           sessions' = Append(old, row), tokens' = tokens \cup {Signed(row, s)},
           UNCHANGED device
    PROVE  RowsTyped' /\ TokensTyped'
<1>1. Len(old) \in Nat /\ DOMAIN old = 1..Len(old)
  OBVIOUS
<1>2. /\ sessions' \in Seq(Row)
      /\ DOMAIN sessions' = 1..Len(old) + 1
      /\ \A k \in 1..Len(old) : sessions'[k] = old[k]
      /\ sessions'[Len(old) + 1] = row
  BY <1>1
<1>3. \A k \in DOMAIN sessions' : device[sessions'[k].device].status # "new"
  BY <1>1, <1>2 DEF TypeInv, Refs
<1>4. Signed(row, s) \in Claims /\ Signed(row, s).device = row.device
  BY DEF Signed, Row, Claims
<1>5. TokensTyped'
  BY <1>4 DEF TokensTyped, TypeInv, TypeOK, Refs
<1> QED BY <1>2, <1>3, <1>5 DEF RowsTyped

LEMMA OpenedTyped ==
    ASSUME TypeInv, NEW c \in Cashiers, OpenSession(c)
    PROVE  RowsTyped' /\ TokensTyped' /\ LoginsTyped' /\ tokens \subseteq tokens'
<1> DEFINE x == login[c]
           row == [user |-> c, device |-> x.device, version |-> SessionVersion(c),
                   revoked |-> FALSE, checked |-> x.version, home |-> x.device]
<1>1. x.device \in Devices /\ x.stall \in Stalls /\ device[x.device].status # "new"
  BY DEF OpenSession, TypeInv, Refs
<1>2. x.version \in Nat /\ SessionVersion(c) = x.version
  BY DEF TypeInv, TypeOK, SessionVersion
<1>3. row \in Row /\ row.device = x.device
  BY <1>1, <1>2 DEF Row
<1>4. sessions' = Append(sessions, row) /\ tokens' = tokens \cup {Signed(row, x.stall)}
  BY DEF OpenSession
<1>5. login' = [login EXCEPT ![c] = NoLogin] /\ UNCHANGED device
  BY DEF OpenSession, StepLogin
<1>6. sessions \in Seq(Row)
  BY DEF TypeInv, TypeOK
<1>7. RowsTyped' /\ TokensTyped'
  <2> HIDE DEF row, x
  <2> QED BY <1>1, <1>3, <1>4, <1>5, <1>6, NewSession
<1>8. LoginsTyped'
  BY <1>5, LoginRecord
<1> QED BY <1>4, <1>7, <1>8

LEMMA RefreshedTyped ==
    ASSUME TypeInv, NEW k \in 1..MaxSessions, NEW d \in Devices, Refresh(k, d)
    PROVE  RowsTyped' /\ TokensTyped' /\ tokens \subseteq tokens'
<1> DEFINE row == sessions[k]
           next == [row EXCEPT !.device = d]
           old == [sessions EXCEPT ![k].revoked = TRUE]
<1>1. sessions \in Seq(Row) /\ k \in DOMAIN sessions /\ UNCHANGED device
  BY DEF TypeInv, TypeOK, Refresh
<1>2. row \in Row
  BY <1>1
<1>3. [row EXCEPT !.revoked = TRUE] \in Row /\ [row EXCEPT !.revoked = TRUE].device = row.device
  BY <1>2 DEF Row
<1>4. old \in Seq(Row) /\ DOMAIN old = DOMAIN sessions
      /\ \A j \in DOMAIN sessions : old[j].device = sessions[j].device
  BY <1>1, <1>3
<1>5. CASE AccountMatches(row.user, row.version) /\ Entitled(row, d)
  <2>1. sessions' = Append(old, next) /\ tokens' = tokens \cup {Signed(next, device[d].stall)}
    BY <1>5 DEF Refresh
  <2>2. device[d].status = "active" /\ device[d].stall \in Stalls
    BY <1>5 DEF Entitled, TerminalWorks, TypeInv, Refs
  <2>3. next \in Row /\ next.device = d
    BY <1>2 DEF Row
  <2>4. RowsTyped' /\ TokensTyped'
    <3> HIDE DEF next, old, row
    <3> QED BY <1>1, <1>4, <2>1, <2>2, <2>3, NewSession
  <2> QED BY <2>1, <2>4
<1>6. CASE ~(AccountMatches(row.user, row.version) /\ Entitled(row, d))
  <2>1. sessions' = old /\ UNCHANGED tokens
    BY <1>6 DEF Refresh
  <2> QED BY <1>1, <1>4, <2>1 DEF RowsTyped, TokensTyped, TypeInv, TypeOK, Refs
<1> QED BY <1>5, <1>6

LEMMA SessionTyped ==
    ASSUME TypeInv,
           \/ \E c \in Cashiers : OpenSession(c)
           \/ \E k \in 1..MaxSessions, d \in Devices : Refresh(k, d)
    PROVE  TypeInv'
<1>1. UNCHANGED <<account, assigned, moves, device, deleted, request, socket, notices>>
  BY DEF OpenSession, Refresh, StepLogin
<1>2. RowsTyped' /\ TokensTyped' /\ LoginsTyped' /\ tokens \subseteq tokens'
  <2>1. CASE \E c \in Cashiers : OpenSession(c)
    BY <2>1, OpenedTyped
  <2>2. CASE \E k \in 1..MaxSessions, d \in Devices : Refresh(k, d)
    <3>1. UNCHANGED <<login, device>>
      BY <2>2 DEF Refresh
    <3>2. LoginsTyped'
      BY <3>1 DEF LoginsTyped, TypeInv, TypeOK, Refs
    <3> QED BY <2>2, <3>2, RefreshedTyped
  <2> QED BY <2>1, <2>2
<1>3. TypeOK'
  BY <1>1, <1>2 DEF TypeInv, TypeOK, RowsTyped, TokensTyped, LoginsTyped
<1>4. Refs'
  BY <1>1, <1>2 DEF TypeInv, Refs, RowsTyped, TokensTyped, LoginsTyped
<1> QED BY <1>3, <1>4 DEF TypeInv

SocketsTyped ==
    /\ socket \in [Sockets -> Link]
    /\ \A k \in Sockets : socket[k].step # "closed" => socket[k].token \in tokens

LEMMA SocketRecord ==
    ASSUME TypeInv, NEW k \in Sockets, NEW r,
           r = NoSocket \/ (r \in Link /\ r.token \in tokens),
           socket' = [socket EXCEPT ![k] = r], UNCHANGED tokens
    PROVE  SocketsTyped'
<1>1. r \in Link /\ (r.step # "closed" => r.token \in tokens)
  <2>1. NoSocket.step = "closed" /\ NoSocket \in Link
    BY DEF NoSocket, Link, SocketStep
  <2> QED BY <2>1
<1>2. socket \in [Sockets -> Link]
  BY DEF TypeInv, Refs
<1>3. socket' \in [Sockets -> Link]
  BY <1>1, <1>2
<1>4. ASSUME NEW j \in Sockets, socket'[j].step # "closed"
      PROVE  socket'[j].token \in tokens'
  <2>1. CASE j = k
    BY <1>1, <1>2, <1>4, <2>1
  <2>2. CASE j # k
    <3>1. socket'[j] = socket[j]
      BY <1>2, <2>2
    <3> QED BY <1>4, <3>1 DEF TypeInv, TypeOK
  <2> QED BY <2>1, <2>2
<1> QED BY <1>3, <1>4 DEF SocketsTyped

SocketMoves(k) == (\E t \in tokens : Connect(k, t)) \/ Handshake(k) \/ Disconnect(k)

\* What a step of a connection does to it.
LEMMA SocketMove ==
    ASSUME TypeInv, NEW k \in Sockets, SocketMoves(k)
    PROVE  \E r : /\ r = NoSocket \/ (r \in Link /\ r.token \in tokens)
                  /\ StepSocket(k, r)
<1>1. socket[k] \in Link
  BY DEF TypeInv, Refs
<1>2. tokens \subseteq Claims
  BY DEF TypeInv, TypeOK
<1>3. ASSUME NEW t \in tokens, Connect(k, t)
      PROVE  \E r : (r \in Link /\ r.token \in tokens) /\ StepSocket(k, r)
  <2> DEFINE r == [step |-> "token", token |-> t, late |-> FALSE]
  <2>1. r \in Link /\ r.token \in tokens
    BY <1>2 DEF Link, SocketStep
  <2>2. StepSocket(k, r)
    BY <1>3 DEF Connect
  <2> HIDE DEF r
  <2> QED BY <2>1, <2>2
<1>4. ASSUME NEW from \in {"token", "terminal", "assigned"}, NEW ok, NEW to \in SocketStep,
             Advance(k, from, ok, to)
      PROVE  \E r : /\ r = NoSocket \/ (r \in Link /\ r.token \in tokens)
                    /\ StepSocket(k, r)
  <2> DEFINE r == [socket[k] EXCEPT !.step = to]
  <2>1. socket[k].step # "closed"
    BY <1>4 DEF Advance
  <2>2. r \in Link /\ r.token = socket[k].token
    BY <1>1 DEF Link
  <2>3. r \in Link /\ r.token \in tokens
    BY <2>1, <2>2 DEF TypeInv, TypeOK
  <2>4. StepSocket(k, r) \/ StepSocket(k, NoSocket)
    BY <1>4, Zenon DEF Advance
  <2> HIDE DEF r
  <2> QED BY <2>3, <2>4
<1>5. ASSUME ConnectTerminal(k)
      PROVE  \E ok : Advance(k, "token", ok, "terminal")
  BY <1>5, Zenon DEF ConnectTerminal
<1>6. ASSUME ConnectAssignment(k)
      PROVE  \E ok : Advance(k, "terminal", ok, "assigned")
  BY <1>6, Zenon DEF ConnectAssignment
<1>7. ASSUME Register(k)
      PROVE  Advance(k, "assigned", TRUE, "open")
  BY <1>7 DEF Register
<1>8. ASSUME Disconnect(k)
      PROVE  StepSocket(k, NoSocket)
  BY <1>8 DEF Disconnect
<1>9. {"terminal", "assigned", "open"} \subseteq SocketStep
  BY DEF SocketStep
<1> QED BY <1>3, <1>4, <1>5, <1>6, <1>7, <1>8, <1>9 DEF SocketMoves, Handshake

LEMMA SocketTyped ==
    ASSUME TypeInv, NEW k \in Sockets, SocketMoves(k)
    PROVE  TypeInv'
<1>1. PICK r : /\ r = NoSocket \/ (r \in Link /\ r.token \in tokens)
               /\ StepSocket(k, r)
  BY SocketMove
<1>2. /\ UNCHANGED <<account, assigned, moves, device, deleted, sessions, tokens, login,
                     request, notices>>
      /\ socket' = [socket EXCEPT ![k] = r]
  BY <1>1 DEF StepSocket
<1>3. SocketsTyped'
  BY <1>1, <1>2, SocketRecord
<1>4. TypeOK'
  BY <1>2, <1>3 DEF TypeInv, TypeOK, SocketsTyped, Link
<1>5. Refs'
  BY <1>2, <1>3 DEF TypeInv, Refs, SocketsTyped
<1> QED BY <1>4, <1>5 DEF TypeInv

\* A connection marked late, or told to close, stays a connection.
LEMMA MarkedTyped ==
    ASSUME TypeInv, UNCHANGED tokens, DOMAIN socket' = Sockets,
           socket' = [k \in Sockets |-> socket'[k]],
           \A k \in Sockets : \/ socket'[k] = socket[k]
                              \/ socket'[k] = [socket[k] EXCEPT !.late = TRUE]
                              \/ /\ socket[k].step # "closed"
                                 /\ socket'[k] = [socket[k] EXCEPT !.step = "closing"]
    PROVE  SocketsTyped'
<1>1. \A k \in Sockets : socket[k] \in Link
  BY DEF TypeInv, Refs
<1>2. ASSUME NEW k \in Sockets
      PROVE  /\ socket'[k] \in Link /\ socket'[k].token = socket[k].token
             /\ socket'[k].step # "closed" => socket[k].step # "closed"
  <2>1. socket[k] \in Link
    BY <1>1
  <2>2. [socket[k] EXCEPT !.late = TRUE] \in Link
        /\ [socket[k] EXCEPT !.late = TRUE].token = socket[k].token
        /\ [socket[k] EXCEPT !.late = TRUE].step = socket[k].step
    BY <2>1 DEF Link
  <2>3. [socket[k] EXCEPT !.step = "closing"] \in Link
        /\ [socket[k] EXCEPT !.step = "closing"].token = socket[k].token
    BY <2>1 DEF Link, SocketStep
  <2> QED BY <2>1, <2>2, <2>3
<1> QED BY <1>2 DEF SocketsTyped, TypeInv, TypeOK

LEMMA CommittedTyped ==
    ASSUME TypeInv, NEW n \in Notice, Committed(n), UNCHANGED tokens
    PROVE  SocketsTyped' /\ notices' \subseteq Notice
<1>1. socket' = [k \in Sockets |->
                    IF Concerns(n, k) /\ socket[k].step \in {"token", "terminal", "assigned"}
                    THEN [socket[k] EXCEPT !.late = TRUE] ELSE socket[k]]
  BY DEF Committed
<1>2. \A k \in Sockets : socket'[k] = socket[k] \/ socket'[k] = [socket[k] EXCEPT !.late = TRUE]
  BY <1>1, Zenon
<1>3. DOMAIN socket' = Sockets /\ socket' = [k \in Sockets |-> socket'[k]]
  BY <1>1
<1>4. SocketsTyped'
  BY <1>2, <1>3, MarkedTyped
<1>5. notices' \subseteq Notice
  BY DEF Committed, TypeInv, TypeOK
<1> QED BY <1>4, <1>5

LEMMA RowsAre == TypeInv => \A k \in DOMAIN sessions : sessions[k] \in Row
<1> SUFFICES ASSUME TypeInv PROVE \A k \in DOMAIN sessions : sessions[k] \in Row
  OBVIOUS
<1>1. sessions \in Seq(Row)
  BY DEF TypeInv, TypeOK
<1> QED BY <1>1

LEMMA RevokedTyped ==
    ASSUME TypeInv, NEW S, sessions' = Revoked(S), NEW dev,
           device' = dev, \A d \in Devices : device[d].status # "new" => dev[d].status # "new"
    PROVE  RowsTyped'
<1>1. /\ sessions' \in Seq(Row) /\ DOMAIN sessions' = DOMAIN sessions
      /\ \A k \in DOMAIN sessions : \/ sessions'[k] = sessions[k]
                                    \/ sessions'[k] = [sessions[k] EXCEPT !.revoked = TRUE]
  BY RevokedRows DEF TypeInv
<1>2. \A k \in DOMAIN sessions : sessions[k] \in Row
  BY RowsAre
<1>3. \A k \in DOMAIN sessions : /\ sessions'[k].device = sessions[k].device
                                 /\ sessions[k].device \in Devices
  BY <1>1, <1>2 DEF Row
<1> QED BY <1>1, <1>3 DEF RowsTyped, TypeInv, Refs

LEMMA AccountTyped ==
    ASSUME TypeInv, NEW c \in Cashiers,
           (\E active \in BOOLEAN : EditUser(c, active)) \/ DeleteUser(c)
    PROVE  TypeInv'
<1>1. UNCHANGED <<assigned, moves, device, deleted, tokens, login, request>>
  BY DEF EditUser, DeleteUser
<1>2. account \in [Cashiers -> [version : Nat, active : BOOLEAN, deleted : BOOLEAN]]
  BY DEF TypeInv, TypeOK
<1>3. account[c].version + 1 \in Nat
  BY <1>2
<1>4. account' \in [Cashiers -> [version : Nat, active : BOOLEAN, deleted : BOOLEAN]]
  <2>1. ASSUME NEW active \in BOOLEAN, EditUser(c, active)
        PROVE  account' \in [Cashiers -> [version : Nat, active : BOOLEAN, deleted : BOOLEAN]]
    BY <1>2, <1>3, <2>1 DEF EditUser, NextVersion
  <2>2. ASSUME DeleteUser(c)
        PROVE  account' \in [Cashiers -> [version : Nat, active : BOOLEAN, deleted : BOOLEAN]]
    BY <1>2, <1>3, <2>2 DEF DeleteUser, NextVersion
  <2> QED BY <2>1, <2>2
<1>5. sessions' = Revoked({k \in DOMAIN sessions : sessions[k].user = c})
  BY DEF EditUser, DeleteUser, RevokeOfUser
<1>6. RowsTyped'
  BY <1>1, <1>5, RevokedTyped
<1>7. [kind |-> "user", id |-> c] \in Notice /\ Committed([kind |-> "user", id |-> c])
  BY DEF EditUser, DeleteUser, Notice
<1>8. SocketsTyped' /\ notices' \subseteq Notice
  BY <1>1, <1>7, CommittedTyped
<1>9. TypeOK'
  BY <1>1, <1>4, <1>6, <1>8 DEF TypeInv, TypeOK, RowsTyped, SocketsTyped, Link
<1>10. Refs'
  BY <1>1, <1>6, <1>8 DEF TypeInv, Refs, RowsTyped, SocketsTyped
<1> QED BY <1>9, <1>10 DEF TypeInv

LEMMA AssignmentTyped ==
    ASSUME TypeInv,
           \/ \E c \in Cashiers, kind \in {"assign", "unassign"}, s \in Stalls :
                 BeginAssignment(kind, c, s)
           \/ CommitAssignment
    PROVE  TypeInv'
<1>1. CASE \E c \in Cashiers, kind \in {"assign", "unassign"}, s \in Stalls :
              BeginAssignment(kind, c, s)
  <2>1. UNCHANGED <<account, assigned, moves, device, deleted, sessions, tokens, login,
                    socket, notices>>
    BY <1>1 DEF BeginAssignment
  <2>2. /\ request' \in [kind : {"none", "assign", "unassign"}, user : Cashiers \cup {None},
                         stall : Stalls \cup {None}]
        /\ request'.kind # "none"
        /\ request'.user \in Cashiers /\ request'.stall \in Stalls
    BY <1>1 DEF BeginAssignment
  <2>3. TypeOK'
    BY <2>1, <2>2 DEF TypeInv, TypeOK
  <2>4. Refs'
    BY <2>1, <2>2 DEF TypeInv, Refs
  <2> QED BY <2>3, <2>4 DEF TypeInv
<1>2. CASE CommitAssignment
  <2> DEFINE c == request.user
             target == IF request.kind = "assign" THEN request.stall ELSE None
  <2>0. UNCHANGED <<account, device, deleted, tokens, login>> /\ request' = NoRequest
    BY <1>2 DEF CommitAssignment
  <2>1. c \in Cashiers /\ target \in Stalls \cup {None}
    <3>1. request.kind # "none"
      BY <1>2 DEF CommitAssignment, TypeInv, Refs
    <3> QED BY <3>1 DEF TypeInv, Refs
  <2>2. request' \in [kind : {"none", "assign", "unassign"}, user : Cashiers \cup {None},
                      stall : Stalls \cup {None}] /\ request'.kind = "none"
    BY <2>0 DEF NoRequest
  <2>3. CASE UNCHANGED <<assigned, moves, sessions, socket, notices>>
    <3>1. TypeOK'
      BY <2>0, <2>2, <2>3 DEF TypeInv, TypeOK
    <3>2. Refs'
      BY <2>0, <2>2, <2>3 DEF TypeInv, Refs
    <3> QED BY <3>1, <3>2 DEF TypeInv
  <2>4. CASE /\ assigned' = [assigned EXCEPT ![c] = target]
             /\ moves' = [moves EXCEPT ![c] = @ + 1]
             /\ sessions' = RevokeOfUser(c)
             /\ Committed([kind |-> "cashier", id |-> c])
    <3>1. assigned' \in [Cashiers -> Stalls \cup {None}]
      <4> HIDE DEF target, c
      <4> QED BY <2>1, <2>4 DEF TypeInv, TypeOK
    <3>2. moves' \in [Cashiers -> Nat]
      <4> HIDE DEF target, c
      <4>0. moves \in [Cashiers -> Nat]
        BY DEF TypeInv, TypeOK
      <4>1. moves[c] + 1 \in Nat
        BY <2>1, <4>0
      <4> QED BY <2>4, <4>0, <4>1
    <3>3. RowsTyped'
      BY <2>0, <2>4, RevokedTyped DEF RevokeOfUser
    <3>4. [kind |-> "cashier", id |-> c] \in Notice
      BY <2>1 DEF Notice
    <3>5. SocketsTyped' /\ notices' \subseteq Notice
      <4> HIDE DEF c
      <4> QED BY <2>0, <2>4, <3>4, CommittedTyped
    <3>6. TypeOK'
      BY <2>0, <2>2, <3>1, <3>2, <3>3, <3>5 DEF TypeInv, TypeOK, RowsTyped, SocketsTyped, Link
    <3>7. Refs'
      BY <2>0, <2>2, <3>3, <3>5 DEF TypeInv, Refs, RowsTyped, SocketsTyped
    <3> QED BY <3>6, <3>7 DEF TypeInv
  <2> QED BY <1>2, <2>3, <2>4 DEF CommitAssignment
<1> QED BY <1>1, <1>2

Terminal == [stall : Stalls \cup {None},
             status : {"new", "active", "revoked", "stall deleted"}]

\* Terminals stay registered, and registered terminals have a stall.
TerminalsMove ==
    /\ device' \in [Devices -> Terminal]
    /\ \A d \in Devices : /\ device[d].status # "new" => device'[d].status # "new"
                          /\ device'[d].status # "new" => device'[d].stall \in Stalls
    /\ deleted' \subseteq Stalls

LEMMA DeviceTyped ==
    ASSUME TypeInv,
           \/ \E d \in Devices : DeregisterDevice(d) \/ \E s \in Stalls : RegisterDevice(d, s)
           \/ \E s \in Stalls : DeleteStall(s)
    PROVE  TypeInv'
<1>0. device \in [Devices -> Terminal]
  BY DEF TypeInv, TypeOK, Terminal
<1>1. UNCHANGED <<account, assigned, moves, tokens, login, request>>
  BY DEF DeregisterDevice, RegisterDevice, DeleteStall
<1>2. TerminalsMove
  <2>1. ASSUME NEW d \in Devices, DeregisterDevice(d)
        PROVE  TerminalsMove
    <3>1. [device[d] EXCEPT !.status = "revoked"] \in Terminal
          /\ [device[d] EXCEPT !.status = "revoked"].status = "revoked"
          /\ [device[d] EXCEPT !.status = "revoked"].stall = device[d].stall
          /\ device[d].status = "active"
      BY <1>0, <2>1 DEF DeregisterDevice, Terminal
    <3>2. device' = [device EXCEPT ![d] = [device[d] EXCEPT !.status = "revoked"]]
          /\ UNCHANGED deleted
      BY <2>1 DEF DeregisterDevice
    <3> QED BY <1>0, <3>1, <3>2 DEF TypeInv, TypeOK, Refs, TerminalsMove
  <2>2. ASSUME NEW d \in Devices, NEW s \in Stalls, RegisterDevice(d, s)
        PROVE  TerminalsMove
    BY <1>0, <2>2 DEF RegisterDevice, TypeInv, TypeOK, Refs, Terminal, TerminalsMove
  <2>3. ASSUME NEW s \in Stalls, DeleteStall(s)
        PROVE  TerminalsMove
    <3>1. ASSUME NEW d \in Devices
          PROVE  /\ device'[d] \in Terminal /\ device'[d].stall = device[d].stall
                 /\ device'[d].status = device[d].status
                    \/ (device[d].status = "active" /\ device'[d].status = "stall deleted")
      BY <1>0, <2>3 DEF DeleteStall, Terminal
    <3>2. device' \in [Devices -> Terminal] /\ deleted' = deleted \cup {s}
      BY <2>3, <3>1 DEF DeleteStall
    <3> QED BY <3>1, <3>2 DEF TypeInv, TypeOK, Refs, TerminalsMove
  <2> QED BY <2>1, <2>2, <2>3
<1>3. RowsTyped'
  <2>1. CASE \E d \in Devices : DeregisterDevice(d)
    BY <1>2, <2>1, RevokedTyped DEF DeregisterDevice, RevokeOfDevice, TerminalsMove
  <2>2. CASE UNCHANGED sessions
    <3>1. \A k \in DOMAIN sessions : sessions[k] \in Row
      BY RowsAre
    <3> QED BY <1>2, <2>2, <3>1 DEF RowsTyped, TypeInv, TypeOK, Refs, Row, TerminalsMove
  <2> QED BY <2>1, <2>2 DEF RegisterDevice, DeleteStall
<1>4. SocketsTyped' /\ notices' \subseteq Notice
  <2>1. ASSUME NEW d \in Devices, DeregisterDevice(d)
        PROVE  SocketsTyped' /\ notices' \subseteq Notice
    <3>1. [kind |-> "device", id |-> d] \in Notice /\ Committed([kind |-> "device", id |-> d])
      BY <2>1 DEF DeregisterDevice, Notice
    <3> QED BY <1>1, <3>1, CommittedTyped
  <2>2. CASE UNCHANGED <<socket, notices>>
    BY <1>1, <2>2 DEF SocketsTyped, TypeInv, TypeOK, Refs
  <2> QED BY <2>1, <2>2 DEF RegisterDevice, DeleteStall
<1>5. TypeOK'
  BY <1>1, <1>2, <1>3, <1>4 
     DEF TypeInv, TypeOK, RowsTyped, SocketsTyped, Link, TerminalsMove, Terminal
<1>6. Refs'
  <2>1. \A t \in tokens : t.device \in Devices
    BY DEF TypeInv, TypeOK, Claims
  <2> QED BY <1>1, <1>2, <1>3, <1>4, <2>1 
           DEF TypeInv, Refs, RowsTyped, SocketsTyped, TerminalsMove
<1> QED BY <1>5, <1>6 DEF TypeInv

LEMMA AnnounceTyped ==
    ASSUME TypeInv, NEW n \in notices, Announce(n)
    PROVE  TypeInv'
<1>1. /\ UNCHANGED <<account, assigned, moves, device, deleted, sessions, tokens, login, request>>
      /\ notices' = notices \ {n}
      /\ socket' = [k \in Sockets |-> IF k \in Told(n) THEN [socket[k] EXCEPT !.step = "closing"]
                                                       ELSE socket[k]]
  BY DEF Announce
<1>2. \A k \in Sockets : \/ socket'[k] = socket[k]
                         \/ /\ socket[k].step # "closed"
                            /\ socket'[k] = [socket[k] EXCEPT !.step = "closing"]
  BY <1>1 DEF Told
<1>3. DOMAIN socket' = Sockets /\ socket' = [k \in Sockets |-> socket'[k]]
  BY <1>1
<1>4. SocketsTyped'
  BY <1>1, <1>2, <1>3, MarkedTyped
<1>5. TypeOK'
  BY <1>1, <1>4 DEF TypeInv, TypeOK, SocketsTyped, Link
<1>6. Refs'
  BY <1>1, <1>4 DEF TypeInv, Refs, SocketsTyped
<1> QED BY <1>5, <1>6 DEF TypeInv

LEMMA NextTyped == TypeInv /\ [Next]_vars => TypeInv'
<1> SUFFICES ASSUME TypeInv, [Next]_vars PROVE TypeInv'
  OBVIOUS
<1>1. CASE UNCHANGED vars
  BY <1>1 DEF vars, TypeInv, TypeOK, Refs
<1>2. CASE Manage
  BY <1>2, AccountTyped, AssignmentTyped, DeviceTyped, AnnounceTyped DEF Manage
<1>3. ASSUME NEW k \in Sockets,
             (\E t \in tokens : Connect(k, t)) \/ Handshake(k) \/ Disconnect(k)
      PROVE  TypeInv'
  BY <1>3, SocketTyped DEF SocketMoves
<1> QED BY <1>1, <1>2, <1>3, LoginTyped, SessionTyped DEF Next

\* Every state is well formed: what a login, a socket or an assignment request under
\* way refers to exists.
THEOREM TypeCorrect == Spec => []TypeOK
<1>1. TypeInv => TypeOK
  BY DEF TypeInv
<1> QED BY <1>1, InitTyped, NextTyped, PTL DEF Spec
-----------------------------------------------------------------------------
(* Credentials. *)

\* A token or a row: the version its PIN was checked against, which no later edit
\* can give back, and the terminal it was typed on.
Genuine(x) ==
    /\ x.version = x.checked
    /\ x.device = x.home
    /\ x.version <= account[x.user].version

CredInv ==
    /\ \A t \in tokens : Genuine(t)
    /\ \A k \in DOMAIN sessions : Genuine(sessions[k])
    /\ \A c \in Cashiers : login[c].version <= account[c].version

LEMMA AccountMoves ==
    ASSUME TypeInv, [Next]_vars, NEW c \in Cashiers
    PROVE  account'[c] = account[c] \/ account'[c].version = account[c].version + 1
<1>1. account \in [Cashiers -> [version : Nat, active : BOOLEAN, deleted : BOOLEAN]]
  BY DEF TypeInv, TypeOK
<1>2. ASSUME NEW u \in Cashiers, NEW active \in BOOLEAN, EditUser(u, active)
      PROVE  account'[c] = account[c] \/ account'[c].version = account[c].version + 1
  BY <1>1, <1>2 DEF EditUser, NextVersion
<1>3. ASSUME NEW u \in Cashiers, DeleteUser(u)
      PROVE  account'[c] = account[c] \/ account'[c].version = account[c].version + 1
  BY <1>1, <1>3 DEF DeleteUser, NextVersion
<1>4. \/ \E u \in Cashiers : DeleteUser(u) \/ \E active \in BOOLEAN : EditUser(u, active)
      \/ UNCHANGED account
  <2>1. CASE Manage
    BY <2>1 DEF Manage, BeginAssignment, CommitAssignment, DeregisterDevice, RegisterDevice,
                DeleteStall, Announce
  <2>2. CASE ~Manage
    BY <2>2 DEF Next, vars, BeginLogin, CheckPin, CheckAssignment, OpenSession, StepLogin,
                Refresh, Connect, Handshake, ConnectTerminal, ConnectAssignment, Register,
                Advance, Disconnect, StepSocket
  <2> QED BY <2>1, <2>2
<1> QED BY <1>2, <1>3, <1>4

\* What was genuine stays so: versions only grow.
LEMMA StaysGenuine ==
    ASSUME TypeInv, [Next]_vars, NEW x, x.user \in Cashiers, x.version \in Nat, Genuine(x)
    PROVE  x.version <= account'[x.user].version
<1>1. account[x.user].version \in Nat
  BY DEF TypeInv, TypeOK
<1>2. account'[x.user] = account[x.user] \/ account'[x.user].version = account[x.user].version + 1
  BY AccountMoves
<1> QED BY <1>1, <1>2 DEF Genuine

\* The steps that open no session: tokens and logins are as they were, and rows too
\* but for their revocation.
LEMMA CredFrame ==
    ASSUME TypeInv, CredInv, [Next]_vars, tokens' = tokens, login' = login,
           sessions' = sessions \/ \E S : sessions' = Revoked(S)
    PROVE  CredInv'
<1>1. \A t \in tokens' : Genuine(t)'
  <2>1. \A t \in tokens : t.user \in Cashiers /\ t.version \in Nat
    BY DEF TypeInv, TypeOK, Claims
  <2> QED BY <2>1, StaysGenuine DEF CredInv, Genuine
<1>2. (\A k \in DOMAIN sessions : Genuine(sessions[k]))'
  <2>1. ASSUME NEW k \in DOMAIN sessions
        PROVE  /\ sessions[k].version = sessions[k].checked
               /\ sessions[k].device = sessions[k].home
               /\ sessions[k].version <= account'[sessions[k].user].version
    <3>1. sessions[k] \in Row
      BY RowsAre
    <3>2. sessions[k].user \in Cashiers /\ sessions[k].version \in Nat
      BY <3>1 DEF Row
    <3>3. Genuine(sessions[k])
      BY DEF CredInv
    <3> QED BY <3>2, <3>3, StaysGenuine DEF Genuine
  <2>2. CASE sessions' = sessions
    BY <2>1, <2>2 DEF Genuine
  <2>3. CASE \E S : sessions' = Revoked(S)
    <3>1. /\ DOMAIN sessions' = DOMAIN sessions
          /\ \A k \in DOMAIN sessions : \/ sessions'[k] = sessions[k]
                                        \/ sessions'[k] = [sessions[k] EXCEPT !.revoked = TRUE]
      BY <2>3, RevokedRows DEF TypeInv
    <3>2. ASSUME NEW k \in DOMAIN sessions
          PROVE  /\ sessions'[k].version = sessions[k].version
                 /\ sessions'[k].checked = sessions[k].checked
                 /\ sessions'[k].device = sessions[k].device
                 /\ sessions'[k].home = sessions[k].home
                 /\ sessions'[k].user = sessions[k].user
      <4>1. sessions[k] \in Row
        BY RowsAre
      <4> QED BY <3>1, <4>1 DEF Row
    <3> QED BY <2>1, <3>1, <3>2 DEF Genuine
  <2> QED BY <2>2, <2>3
<1>3. \A c \in Cashiers : login'[c].version <= account'[c].version
  <2>1. ASSUME NEW c \in Cashiers PROVE login[c].version <= account'[c].version
    <3>1. account[c].version \in Nat /\ login[c].version \in Nat
      BY DEF TypeInv, TypeOK
    <3> QED BY <3>1, AccountMoves DEF CredInv
  <2> QED BY <2>1
<1> QED BY <1>1, <1>2, <1>3 DEF CredInv

\* A session that is opened: rows and tokens old and new.
LEMMA CredOpened ==
    ASSUME TypeInv, CredInv, NEW row \in Row, NEW s \in Stalls, Genuine(row),
           NEW old \in Seq(Row), DOMAIN old = DOMAIN sessions,
           \A k \in DOMAIN sessions : Genuine(old[k]),
           sessions' = Append(old, row), tokens' = tokens \cup {Signed(row, s)},
           account' = account, \A c \in Cashiers : login'[c].version <= account[c].version
    PROVE  CredInv'
<1>1. Len(old) \in Nat /\ DOMAIN old = 1..Len(old)
  OBVIOUS
<1>2. /\ DOMAIN sessions' = 1..Len(old) + 1
      /\ \A k \in 1..Len(old) : sessions'[k] = old[k]
      /\ sessions'[Len(old) + 1] = row
  BY <1>1
<1>3. \A k \in DOMAIN sessions' : Genuine(sessions'[k])
  BY <1>1, <1>2
<1>4. Genuine(Signed(row, s))
  BY DEF Genuine, Signed
<1>5. \A t \in tokens' : Genuine(t)
  BY <1>4 DEF CredInv
<1> QED BY <1>3, <1>5 DEF CredInv, Genuine

LEMMA CredLogin ==
    ASSUME TypeInv, CredInv, NEW c \in Cashiers,
           \/ \E d \in Devices : BeginLogin(c, d)
           \/ CheckPin(c) \/ CheckAssignment(c)
    PROVE  CredInv'
<1>1. UNCHANGED <<account, sessions, tokens>>
  BY DEF BeginLogin, CheckPin, CheckAssignment, StepLogin
<1>2. account[c].version \in Nat /\ login \in [Cashiers -> [step : LoginStep,
          device : Devices \cup {None}, stall : Stalls \cup {None}, version : Nat]]
  BY DEF TypeInv, TypeOK
<1> DEFINE Becomes(r) == login' = [login EXCEPT ![c] = r] /\ r.version <= account[c].version
<1>3. \E r : Becomes(r)
  <2>1. ASSUME NEW d \in Devices, BeginLogin(c, d)
        PROVE  \E r : Becomes(r)
    <3> DEFINE r == [NoLogin EXCEPT !.step = "terminal", !.device = d, !.stall = device[d].stall]
    <3>1. login' = [login EXCEPT ![c] = r]
      BY <2>1 DEF BeginLogin, StepLogin
    <3>2. r.version = 0
      BY DEF NoLogin
    <3> HIDE DEF r
    <3>3. Becomes(r)
      BY <1>2, <3>1, <3>2
    <3> HIDE DEF Becomes
    <3> QED BY <3>3
  <2>2. ASSUME login' = [login EXCEPT ![c] = NoLogin]
        PROVE  \E r : Becomes(r)
    <3>1. NoLogin.version = 0
      BY DEF NoLogin
    <3>2. Becomes(NoLogin)
      BY <1>2, <2>2, <3>1
    <3> HIDE DEF Becomes
    <3> QED BY <3>2
  <2>3. ASSUME CheckPin(c), login' # [login EXCEPT ![c] = NoLogin]
        PROVE  \E r : Becomes(r)
    <3> DEFINE r == [login[c] EXCEPT !.step = "pin", !.version = account[c].version]
    <3>1. login' = [login EXCEPT ![c] = r]
      BY <2>3, Zenon DEF CheckPin, StepLogin
    <3>2. r.version = account[c].version
      BY <1>2
    <3> HIDE DEF r
    <3>3. Becomes(r)
      BY <1>2, <3>1, <3>2
    <3> HIDE DEF Becomes
    <3> QED BY <3>3
  <2>4. ASSUME CheckAssignment(c), login' # [login EXCEPT ![c] = NoLogin]
        PROVE  \E r : Becomes(r)
    <3> DEFINE r == [login[c] EXCEPT !.step = "assigned"]
    <3>1. login' = [login EXCEPT ![c] = r]
      BY <2>4, Zenon DEF CheckAssignment, StepLogin
    <3>2. r.version = login[c].version
      BY <1>2
    <3> HIDE DEF r
    <3>3. Becomes(r)
      BY <3>1, <3>2 DEF CredInv
    <3> HIDE DEF Becomes
    <3> QED BY <3>3
  <2> QED BY <2>1, <2>2, <2>3, <2>4
<1>4. PICK r : login' = [login EXCEPT ![c] = r] /\ r.version <= account[c].version
  BY <1>3
<1>5. \A u \in Cashiers : login'[u].version <= account[u].version
  BY <1>2, <1>4 DEF CredInv
<1> QED BY <1>1, <1>5 DEF CredInv, Genuine

LEMMA CredOpenSession ==
    ASSUME TypeInv, CredInv, NEW c \in Cashiers, OpenSession(c)
    PROVE  CredInv'
<1> DEFINE x == login[c]
           row == [user |-> c, device |-> x.device, version |-> SessionVersion(c),
                   revoked |-> FALSE, checked |-> x.version, home |-> x.device]
<1>1. x.device \in Devices /\ x.stall \in Stalls
  BY DEF OpenSession, TypeInv, Refs
<1>2. x.version \in Nat /\ SessionVersion(c) = x.version
  BY DEF TypeInv, TypeOK, SessionVersion
<1>3. row \in Row /\ Genuine(row)
  BY <1>1, <1>2 DEF Row, Genuine, CredInv
<1>4. sessions' = Append(sessions, row) /\ tokens' = tokens \cup {Signed(row, x.stall)}
  BY DEF OpenSession
<1>5. login' = [login EXCEPT ![c] = NoLogin] /\ UNCHANGED account
  BY DEF OpenSession, StepLogin
<1>6. sessions \in Seq(Row) /\ DOMAIN login = Cashiers /\ account[c].version \in Nat
  BY DEF TypeInv, TypeOK
<1>7. \A u \in Cashiers : login'[u].version <= account[u].version
  <2>1. NoLogin.version = 0
    BY DEF NoLogin
  <2> QED BY <1>5, <1>6, <2>1 DEF CredInv
<1>8. \A k \in DOMAIN sessions : Genuine(sessions[k])
  BY DEF CredInv
<1> HIDE DEF x, row
<1> QED BY <1>1, <1>3, <1>4, <1>5, <1>6, <1>7, <1>8, CredOpened

\* A refresh renews only for the terminal of the row.
LEMMA CredRefresh ==
    ASSUME TypeInv, CredInv, NEW k \in 1..MaxSessions, NEW d \in Devices, Refresh(k, d)
    PROVE  CredInv'
<1> DEFINE row == sessions[k]
           next == [row EXCEPT !.device = d]
           old == [sessions EXCEPT ![k].revoked = TRUE]
<1>1. /\ sessions \in Seq(Row) /\ k \in DOMAIN sessions
      /\ UNCHANGED <<account, login>>
  BY DEF TypeInv, TypeOK, Refresh
<1>2. row \in Row /\ Genuine(row)
  BY <1>1 DEF CredInv
<1>3. /\ [row EXCEPT !.revoked = TRUE] \in Row
      /\ Genuine([row EXCEPT !.revoked = TRUE])
  BY <1>2 DEF Row, Genuine
<1>4. old \in Seq(Row) /\ DOMAIN old = DOMAIN sessions
  BY <1>1, <1>3
<1>5. \A j \in DOMAIN sessions : old[j] = sessions[j] \/ old[j] = [row EXCEPT !.revoked = TRUE]
  BY <1>1
<1>6. \A j \in DOMAIN sessions : Genuine(old[j])
  BY <1>3, <1>5 DEF CredInv
<1>7. CASE AccountMatches(row.user, row.version) /\ Entitled(row, d)
  <2>1. sessions' = Append(old, next) /\ tokens' = tokens \cup {Signed(next, device[d].stall)}
    BY <1>7 DEF Refresh
  <2>2. device[d].stall \in Stalls /\ d = row.device
    BY <1>7 DEF Entitled, TerminalWorks, TypeInv, Refs
  <2>3. next \in Row /\ Genuine(next)
    BY <1>2, <2>2 DEF Row, Genuine
  <2>4. \A c \in Cashiers : login'[c].version <= account[c].version
    BY <1>1 DEF CredInv
  <2> HIDE DEF next, old, row
  <2> QED BY <1>1, <1>4, <1>6, <2>1, <2>2, <2>3, <2>4, CredOpened
<1>8. CASE ~(AccountMatches(row.user, row.version) /\ Entitled(row, d))
  <2>1. sessions' = old /\ UNCHANGED tokens
    BY <1>8 DEF Refresh
  <2> HIDE DEF old
  <2> QED BY <1>1, <1>4, <1>6, <2>1 DEF CredInv, Genuine
<1> QED BY <1>7, <1>8

LEMMA CredKept == TypeInv /\ CredInv /\ [Next]_vars => CredInv'
<1> SUFFICES ASSUME TypeInv, CredInv, [Next]_vars PROVE CredInv'
  OBVIOUS
<1>1. ASSUME UNCHANGED vars PROVE CredInv'
  BY <1>1, CredFrame DEF vars
<1>2. ASSUME Manage PROVE CredInv'
  <2>1. UNCHANGED <<tokens, login>>
    BY <1>2 DEF Manage, EditUser, DeleteUser, BeginAssignment, CommitAssignment,
                DeregisterDevice, RegisterDevice, DeleteStall, Announce
  <2>2. sessions' = sessions \/ \E S : sessions' = Revoked(S)
    BY <1>2 DEF Manage, EditUser, DeleteUser, BeginAssignment, CommitAssignment,
                DeregisterDevice, RegisterDevice, DeleteStall, Announce, RevokeOfUser,
                RevokeOfDevice
  <2> QED BY <2>1, <2>2, CredFrame
<1>3. ASSUME NEW k \in Sockets,
             (\E t \in tokens : Connect(k, t)) \/ Handshake(k) \/ Disconnect(k)
      PROVE  CredInv'
  <2>1. UNCHANGED <<tokens, login, sessions>>
    BY <1>3, SocketMove DEF SocketMoves, StepSocket
  <2> QED BY <2>1, CredFrame
<1> QED BY <1>1, <1>2, <1>3, CredLogin, CredOpenSession, CredRefresh DEF Next

LEMMA InitCred == Init => CredInv
BY DEF Init, CredInv, NoLogin

\* Whatever managers edit while PIN logins are under way, an access token or a session
\* that still works goes back to a PIN of the account as it is now.
THEOREM CredentialsHold == Spec => []CredentialsCurrent
<1>1. CredInv => CredentialsCurrent
  BY DEF CredInv, Genuine, CredentialsCurrent, AccountMatches
<1> QED BY <1>1, InitTyped, NextTyped, InitCred, CredKept, PTL DEF Spec

\* An access token was issued for a PIN typed on the terminal that holds it, however
\* logins, reassignments and registrations overlap.
THEOREM TokensAreLocal == Spec => []TokensStayOnTerminal
<1>1. CredInv => TokensStayOnTerminal
  BY DEF CredInv, Genuine, TokensStayOnTerminal, AccountMatches
<1> QED BY <1>1, InitTyped, NextTyped, InitCred, CredKept, PTL DEF Spec

\* A terminal is not revived by a step.
Held(d) ==
    /\ deleted \subseteq deleted'
    /\ device'[d].stall = device[d].stall
    /\ device'[d].status = "active" => device[d].status = "active"

\* No step gives a refused token its account or its terminal back.
THEOREM RefusalIsFinal == Spec => RefusedForGood
<1>1. ASSUME TypeInv, CredInv, [Next]_vars, NEW t \in tokens,
             (AccountMatches(t.user, t.version) /\ TerminalWorks(t.device))'
      PROVE  AccountMatches(t.user, t.version) /\ TerminalWorks(t.device)
  <2>1. t.user \in Cashiers /\ t.device \in Devices /\ t.version \in Nat
        /\ t.version <= account[t.user].version /\ account[t.user].version \in Nat
        /\ device[t.device].status # "new"
    <3>1. t \in Claims /\ Genuine(t) /\ device[t.device].status # "new"
      BY <1>1 DEF TypeInv, TypeOK, Refs, CredInv
    <3>2. t.user \in Cashiers /\ t.device \in Devices /\ t.version \in Nat
      BY <3>1 DEF Claims
    <3>3. account[t.user].version \in Nat
      BY <1>1, <3>2 DEF TypeInv, TypeOK
    <3> QED BY <3>1, <3>2, <3>3 DEF Genuine
  <2>2. account'[t.user] = account[t.user]
    BY <1>1, <2>1, AccountMoves DEF AccountMatches
  <2>3. Held(t.device)
    <3>1. device \in [Devices -> [stall : Stalls \cup {None},
                                  status : {"new", "active", "revoked", "stall deleted"}]]
      BY <1>1 DEF TypeInv, TypeOK
    <3>2. ASSUME NEW d \in Devices, DeregisterDevice(d)
          PROVE  Held(t.device)
      <4>1. device' = [device EXCEPT ![d].status = "revoked"] /\ deleted' = deleted
        BY <3>2 DEF DeregisterDevice
      <4>2. CASE t.device = d
        BY <2>1, <3>1, <4>1, <4>2 DEF Held
      <4>3. CASE t.device # d
        BY <2>1, <3>1, <4>1, <4>3 DEF Held
      <4> QED BY <4>2, <4>3
    <3>6. ASSUME NEW d \in Devices, NEW s \in Stalls, RegisterDevice(d, s)
          PROVE  Held(t.device)
      <4>1. t.device # d /\ deleted' = deleted
        BY <2>1, <3>6 DEF RegisterDevice
      <4>2. device'[t.device] = device[t.device]
        BY <2>1, <3>1, <3>6, <4>1 DEF RegisterDevice
      <4> QED BY <4>1, <4>2 DEF Held
    <3>3. ASSUME NEW s \in Stalls, DeleteStall(s)
          PROVE  Held(t.device)
      BY <2>1, <3>1, <3>3 DEF DeleteStall, Held
    <3>4. CASE UNCHANGED <<device, deleted>>
      BY <3>4 DEF Held
    <3>5. \/ \E d \in Devices : DeregisterDevice(d) \/ \E s \in Stalls : RegisterDevice(d, s)
          \/ \E s \in Stalls : DeleteStall(s)
          \/ UNCHANGED <<device, deleted>>
      <4>1. CASE Manage
        BY <4>1 DEF Manage, EditUser, DeleteUser, BeginAssignment, CommitAssignment, Announce
      <4>2. CASE ~Manage
        BY <1>1, <4>2 DEF Next, vars, BeginLogin, CheckPin, CheckAssignment, OpenSession,
                StepLogin, Refresh, Connect, Handshake, ConnectTerminal, ConnectAssignment,
                Register, Advance, Disconnect, StepSocket
      <4> QED BY <4>1, <4>2
    <3> QED BY <3>2, <3>3, <3>4, <3>5, <3>6
  <2> QED BY <1>1, <2>2, <2>3 DEF AccountMatches, TerminalWorks, Held
<1>2. TypeInv /\ CredInv /\ [Next]_vars =>
        [\A t \in tokens :
            ~(AccountMatches(t.user, t.version) /\ TerminalWorks(t.device))
               => ~(AccountMatches(t.user, t.version) /\ TerminalWorks(t.device))']_vars
  BY <1>1
<1> QED BY <1>2, InitTyped, NextTyped, InitCred, CredKept, PTL DEF Spec, RefusedForGood
-----------------------------------------------------------------------------
(* Live sockets. *)

\* What the handshake has established by the time the connection is in step st.
Checked(st, t) ==
    /\ AccountMatches(t.user, t.version)
    /\ st # "token" => device[t.device].status # "revoked"
    /\ st \in {"assigned", "open"} => AssignedTo(t.user, t.stall)

\* A connection was overtaken by a change, or what it established still holds, or it
\* is open with a notice on its way.
Accounted(k) ==
    \/ socket[k].late
    \/ Checked(socket[k].step, socket[k].token)
    \/ socket[k].step = "open" /\ \E n \in notices : Concerns(n, k)

Standing(k) == socket[k].step \in {"token", "terminal", "assigned", "open"}

SocketInv == \A k \in Sockets : Standing(k) => Accounted(k)

Touches(n, t) == n.id = IF n.kind = "device" THEN t.device ELSE t.user

LEMMA TokenOf ==
    ASSUME TypeInv, NEW k \in Sockets, Standing(k)
    PROVE  /\ socket[k] \in Link /\ socket[k].token \in Claims
           /\ \A n : Concerns(n, k) <=> Touches(n, socket[k].token)
BY DEF TypeInv, TypeOK, Refs, Standing, Link, Concerns, Touches

\* A committed change marks the handshakes it overtakes and leaves a notice for the
\* open connections; what is established need only survive for the others.
LEMMA CommittedAccounted ==
    ASSUME TypeInv, SocketInv, NEW n, Committed(n),
           \A st \in SocketStep, t \in Claims :
               Checked(st, t) /\ ~Touches(n, t) => Checked(st, t)'
    PROVE  SocketInv'
<1> SUFFICES ASSUME NEW k \in Sockets, Standing(k)' PROVE Accounted(k)'
  BY DEF SocketInv
<1>1. /\ notices' = notices \cup {n}
      /\ socket'[k] = IF Concerns(n, k) /\ socket[k].step \in {"token", "terminal", "assigned"}
                      THEN [socket[k] EXCEPT !.late = TRUE] ELSE socket[k]
  BY DEF Committed
<1>2. socket[k] \in Link
  BY DEF TypeInv, Refs
<1>3. CASE socket'[k] = [socket[k] EXCEPT !.late = TRUE]
  BY <1>2, <1>3 DEF Link, Accounted
<1>4. CASE /\ socket'[k] = socket[k]
           /\ ~(Concerns(n, k) /\ socket[k].step \in {"token", "terminal", "assigned"})
  <2>1. Standing(k) /\ Accounted(k)
    BY <1>4 DEF Standing, SocketInv
  <2>2. socket[k].token \in Claims /\ socket[k].step \in SocketStep
        /\ (Concerns(n, k) <=> Touches(n, socket[k].token))
    BY <2>1, TokenOf DEF Link
  <2>3. CASE Concerns(n, k)
    <3>1. socket[k].step = "open"
      BY <1>4, <2>1, <2>3 DEF Standing
    <3>2. n \in notices' /\ Concerns(n, k)'
      BY <1>1, <1>4, <2>3 DEF Concerns
    <3> QED BY <1>4, <3>1, <3>2 DEF Accounted
  <2>4. CASE ~Concerns(n, k)
    <3>1. CASE Checked(socket[k].step, socket[k].token)
      <4> DEFINE st == socket[k].step
                 t == socket[k].token
      <4>1. \A a \in SocketStep, b \in Claims :
                a = st /\ b = t => (Checked(a, b) => Checked(a, b)')
        BY <2>2, <2>4
      <4>2. \A a \in SocketStep, b \in Claims :
                a = st /\ b = t => Checked(a, b)'
        <5> HIDE DEF Checked
        <5> QED BY <3>1, <4>1
      <4>3. socket'[k].step = st /\ socket'[k].token = t
        BY <1>4
      <4>4. Checked(socket[k].step, socket[k].token)'
        BY <2>2, <4>2, <4>3 DEF Checked
      <4> QED BY <4>4 DEF Accounted
    <3>2. CASE socket[k].late
      BY <1>4, <3>2 DEF Accounted
    <3>3. CASE socket[k].step = "open" /\ \E m \in notices : Concerns(m, k)
      BY <1>1, <1>4, <3>3 DEF Accounted, Concerns
    <3> QED BY <2>1, <3>1, <3>2, <3>3 DEF Accounted
  <2> QED BY <2>3, <2>4
<1> QED BY <1>1, <1>3, <1>4

\* A step that takes nothing established away and leaves a connection as it is.
LEMMA AccountedFrame ==
    ASSUME TypeInv, SocketInv, NEW k \in Sockets, socket'[k] = socket[k],
           \A n \in notices : Concerns(n, k) => n \in notices',
           \A st \in SocketStep, t \in Claims : Checked(st, t) => Checked(st, t)',
           Standing(k)
    PROVE  Accounted(k)'
<1>1. socket[k].token \in Claims /\ socket[k].step \in SocketStep /\ Accounted(k)
  BY TokenOf DEF Link, SocketInv
<1>2. CASE Checked(socket[k].step, socket[k].token)
  <2> DEFINE st == socket[k].step
             t == socket[k].token
  <2>1. \A a \in SocketStep, b \in Claims : a = st /\ b = t => Checked(a, b)'
    BY <1>2
  <2>2. socket'[k].step = st /\ socket'[k].token = t
    OBVIOUS
  <2>3. Checked(socket[k].step, socket[k].token)'
    BY <1>1, <2>1, <2>2 DEF Checked
  <2> QED BY <2>3 DEF Accounted
<1>3. CASE socket[k].late
  BY <1>3 DEF Accounted
<1>4. CASE socket[k].step = "open" /\ \E m \in notices : Concerns(m, k)
  BY <1>4 DEF Accounted, Concerns
<1> QED BY <1>1, <1>2, <1>3, <1>4 DEF Accounted

\* Everything the checks read stays as it was.
LEMMA ChecksUnread ==
    ASSUME UNCHANGED <<account, assigned, device>>
    PROVE  \A st \in SocketStep, t \in Claims : Checked(st, t) => Checked(st, t)'
BY DEF Checked, AccountMatches, AssignedTo

LEMMA ManageAccounted ==
    ASSUME TypeInv, SocketInv, Manage
    PROVE  SocketInv'
<1>0. account \in [Cashiers -> [version : Nat, active : BOOLEAN, deleted : BOOLEAN]]
  BY DEF TypeInv, TypeOK
<1>10. device \in [Devices -> Terminal]
  BY DEF TypeInv, TypeOK, Terminal
<1>1. ASSUME NEW c \in Cashiers, DeleteUser(c) \/ \E active \in BOOLEAN : EditUser(c, active)
      PROVE  SocketInv'
  <2> DEFINE n == [kind |-> "user", id |-> c]
  <2>1. Committed(n) /\ UNCHANGED <<assigned, device>>
    BY <1>1 DEF EditUser, DeleteUser
  <2>2. \A u \in Cashiers : u # c => account'[u] = account[u]
    BY <1>0, <1>1 DEF EditUser, DeleteUser
  <2>3. ASSUME NEW st \in SocketStep, NEW t \in Claims, Checked(st, t), ~Touches(n, t)
        PROVE  Checked(st, t)'
    <3>1. t.user \in Cashiers /\ t.user # c
      BY <2>3 DEF Claims, Touches
    <3> QED BY <2>1, <2>2, <2>3, <3>1 DEF Checked, AccountMatches, AssignedTo
  <2> HIDE DEF n
  <2> QED BY <2>1, <2>3, CommittedAccounted
<1>2. ASSUME CommitAssignment, request.kind # "none", assigned' # assigned
      PROVE  SocketInv'
  <2> DEFINE c == request.user
             n == [kind |-> "cashier", id |-> c]
  <2>1. Committed(n) /\ UNCHANGED <<account, device>>
    BY <1>2 DEF CommitAssignment
  <2>2. \A u \in Cashiers : u # c => assigned'[u] = assigned[u]
    BY <1>2 DEF CommitAssignment, TypeInv, TypeOK
  <2>3. ASSUME NEW st \in SocketStep, NEW t \in Claims, Checked(st, t), ~Touches(n, t)
        PROVE  Checked(st, t)'
    <3>1. t.user \in Cashiers /\ t.user # c
      BY <2>3 DEF Claims, Touches
    <3> QED BY <2>1, <2>2, <2>3, <3>1 DEF Checked, AccountMatches, AssignedTo
  <2> HIDE DEF n
  <2> QED BY <2>1, <2>3, CommittedAccounted
<1>3. ASSUME NEW d \in Devices, DeregisterDevice(d)
      PROVE  SocketInv'
  <2> DEFINE n == [kind |-> "device", id |-> d]
  <2>1. Committed(n) /\ UNCHANGED <<account, assigned>>
    BY <1>3 DEF DeregisterDevice
  <2>2. \A e \in Devices : e # d => device'[e] = device[e]
    BY <1>3 DEF DeregisterDevice, TypeInv, TypeOK
  <2>3. ASSUME NEW st \in SocketStep, NEW t \in Claims, Checked(st, t), ~Touches(n, t)
        PROVE  Checked(st, t)'
    <3>1. t.device \in Devices /\ t.device # d
      BY <2>3 DEF Claims, Touches
    <3> QED BY <2>1, <2>2, <2>3, <3>1 DEF Checked, AccountMatches, AssignedTo
  <2> HIDE DEF n
  <2> QED BY <2>1, <2>3, CommittedAccounted
<1>4. ASSUME UNCHANGED <<socket, notices>>,
             \A st \in SocketStep, t \in Claims : Checked(st, t) => Checked(st, t)'
      PROVE  SocketInv'
  BY <1>4, AccountedFrame DEF SocketInv, Standing
<1>5. ASSUME \E d \in Devices, s \in Stalls : RegisterDevice(d, s)
      PROVE  SocketInv'
  <2>1. UNCHANGED <<account, assigned, socket, notices>>
    BY <1>5 DEF RegisterDevice
  <2>2. \A e \in Devices : device'[e].status = "revoked" => device[e].status = "revoked"
    <3>1. PICK d \in Devices, s \in Stalls : RegisterDevice(d, s)
      BY <1>5
    <3>2. device' = [device EXCEPT ![d] = [stall |-> s, status |-> "active"]]
      BY <3>1 DEF RegisterDevice
    <3>3. device'[d].status = "active" /\ \A e \in Devices : e # d => device'[e] = device[e]
      BY <1>10, <3>2
    <3> QED BY <3>3
  <2>3. \A st \in SocketStep, t \in Claims : Checked(st, t) => Checked(st, t)'
    BY <2>1, <2>2 DEF Checked, AccountMatches, AssignedTo, Claims
  <2> QED BY <1>4, <2>1, <2>3
<1>6. ASSUME \E s \in Stalls : DeleteStall(s)
      PROVE  SocketInv'
  <2>1. UNCHANGED <<account, assigned, socket, notices>>
    BY <1>6 DEF DeleteStall
  <2>2. \A e \in Devices : device'[e].status = "revoked" => device[e].status = "revoked"
    BY <1>6, <1>10 DEF DeleteStall, Terminal
  <2>3. \A st \in SocketStep, t \in Claims : Checked(st, t) => Checked(st, t)'
    BY <2>1, <2>2 DEF Checked, AccountMatches, AssignedTo, Claims
  <2> QED BY <1>4, <2>1, <2>3
<1>7. ASSUME \E c \in Cashiers, kind \in {"assign", "unassign"}, s \in Stalls :
                BeginAssignment(kind, c, s)
      PROVE  SocketInv'
  <2>1. UNCHANGED <<account, assigned, device, socket, notices>>
    BY <1>7 DEF BeginAssignment
  <2> QED BY <1>4, <2>1, ChecksUnread
<1>8. ASSUME NEW n \in notices, Announce(n)
      PROVE  SocketInv'
  <2>1. /\ UNCHANGED <<account, assigned, device>> /\ notices' = notices \ {n}
        /\ \A k \in Sockets : socket'[k] = IF k \in Told(n)
                                           THEN [socket[k] EXCEPT !.step = "closing"]
                                           ELSE socket[k]
    BY <1>8 DEF Announce
  <2>2. ASSUME NEW k \in Sockets, Standing(k)'
        PROVE  Accounted(k)'
    <3>1. k \notin Told(n)
      <4>1. socket[k] \in Link
        BY DEF TypeInv, Refs
      <4>2. [socket[k] EXCEPT !.step = "closing"].step = "closing"
        BY <4>1 DEF Link
      <4> QED BY <2>1, <2>2, <4>2 DEF Standing
    <3>2. socket'[k] = socket[k] /\ Standing(k)
      BY <2>1, <2>2, <3>1 DEF Standing
    <3>3. CASE socket[k].step = "open"
      <4>1. ~Concerns(n, k)
        BY <3>1, <3>3 DEF Told
      <4> QED BY <2>1, <3>2, <4>1, AccountedFrame, ChecksUnread
    <3>4. CASE socket[k].step # "open"
      <4>1. socket[k].late \/ Checked(socket[k].step, socket[k].token)
        BY <3>2, <3>4 DEF SocketInv, Accounted
      <4> QED BY <2>1, <3>2, <4>1 DEF Accounted, Checked, AccountMatches, AssignedTo
    <3> QED BY <3>3, <3>4
  <2> QED BY <2>2 DEF SocketInv
<1>9. ASSUME CommitAssignment, ~(request.kind # "none" /\ assigned' # assigned)
      PROVE  SocketInv'
  <2>1. request.kind # "none"
    BY <1>9 DEF CommitAssignment, TypeInv, Refs
  <2>2. UNCHANGED <<account, assigned, device>>
    BY <1>9, <2>1 DEF CommitAssignment
  <2>3. CASE UNCHANGED <<socket, notices>>
    BY <1>4, <2>2, <2>3, ChecksUnread
  <2>4. CASE Committed([kind |-> "cashier", id |-> request.user])
    BY <2>2, <2>4, CommittedAccounted, ChecksUnread
  <2> QED BY <1>9, <2>3, <2>4 DEF CommitAssignment
<1> QED BY <1>1, <1>2, <1>3, <1>5, <1>6, <1>7, <1>8, <1>9 DEF Manage

\* A connection that moves: it goes back to closed, or its next check has passed.
LEMMA SocketAccounted ==
    ASSUME TypeInv, SocketInv, NEW k \in Sockets, SocketMoves(k)
    PROVE  SocketInv'
<1>1. PICK r : StepSocket(k, r)
  BY SocketMove
<1>2. /\ UNCHANGED <<account, assigned, device, notices>>
      /\ socket' = [socket EXCEPT ![k] = r]
  BY <1>1 DEF StepSocket
<1>3. DOMAIN socket = Sockets /\ socket[k] \in Link
  BY DEF TypeInv, TypeOK, Refs
<1>4. ASSUME NEW j \in Sockets, j # k, Standing(j)'
      PROVE  Accounted(j)'
  <2>1. socket'[j] = socket[j] /\ Standing(j)
    BY <1>2, <1>3, <1>4 DEF Standing
  <2> QED BY <1>2, <2>1, AccountedFrame, ChecksUnread
<1>5. ASSUME Standing(k)'
      PROVE  Accounted(k)'
  <2>1. socket'[k] # NoSocket
    BY <1>5 DEF Standing, NoSocket
  <2>2. ASSUME NEW t \in tokens, Connect(k, t)
        PROVE  Accounted(k)'
    <3>1. socket'[k] = [step |-> "token", token |-> t, late |-> FALSE]
          /\ AccountMatches(t.user, t.version)
      BY <1>3, <2>2 DEF Connect, StepSocket
    <3> QED BY <1>2, <3>1 DEF Accounted, Checked, AccountMatches
  <2>3. ASSUME NEW from, NEW ok, NEW to, Advance(k, from, ok, to)
        PROVE  /\ socket[k].step = from /\ ok
               /\ socket'[k].step = to /\ socket'[k].token = socket[k].token
               /\ socket'[k].late = socket[k].late
    <3>1. socket[k].step = from
          /\ StepSocket(k, IF ok THEN [socket[k] EXCEPT !.step = to] ELSE NoSocket)
      BY <2>3 DEF Advance
    <3>2. socket'[k] = IF ok THEN [socket[k] EXCEPT !.step = to] ELSE NoSocket
      BY <1>3, <3>1 DEF StepSocket
    <3>3. ok
      BY <2>1, <3>2, Zenon
    <3>4. socket'[k] = [socket[k] EXCEPT !.step = to]
      BY <3>2, <3>3, Zenon
    <3> QED BY <1>3, <3>1, <3>3, <3>4 DEF Link
  <2>4. ASSUME ConnectTerminal(k)
        PROVE  Accounted(k)'
    <3> DEFINE t == socket[k].token
    <3>1. /\ socket[k].step = "token" /\ TerminalWorks(t.device)
          /\ socket'[k].step = "terminal" /\ socket'[k].token = t
          /\ socket'[k].late = socket[k].late
      BY <2>3, <2>4 DEF ConnectTerminal
    <3>2. socket[k].late \/ Checked("token", t)
      BY <3>1 DEF SocketInv, Standing, Accounted
    <3> QED BY <1>2, <3>1, <3>2 DEF Accounted, Checked, AccountMatches, TerminalWorks
  <2>5. ASSUME ConnectAssignment(k)
        PROVE  Accounted(k)'
    <3> DEFINE t == socket[k].token
    <3>1. /\ socket[k].step = "terminal" /\ AssignedTo(t.user, t.stall)
          /\ socket'[k].step = "assigned" /\ socket'[k].token = t
          /\ socket'[k].late = socket[k].late
      BY <2>3, <2>5 DEF ConnectAssignment
    <3>2. socket[k].late \/ Checked("terminal", t)
      BY <3>1 DEF SocketInv, Standing, Accounted
    <3> QED BY <1>2, <3>1, <3>2 DEF Accounted, Checked, AccountMatches, AssignedTo
  <2>6. ASSUME Register(k)
        PROVE  Accounted(k)'
    <3> DEFINE t == socket[k].token
    <3>1. /\ socket[k].step = "assigned"
          /\ socket'[k].step = "open" /\ socket'[k].token = t
          /\ socket'[k].late = socket[k].late
      BY <2>3, <2>6 DEF Register
    <3>2. socket[k].late \/ Checked("assigned", t)
      BY <3>1 DEF SocketInv, Standing, Accounted
    <3> QED BY <1>2, <3>1, <3>2 DEF Accounted, Checked, AccountMatches, AssignedTo
  <2>7. ~Disconnect(k)
    BY <1>3, <2>1 DEF Disconnect, StepSocket
  <2> QED BY <2>2, <2>4, <2>5, <2>6, <2>7 DEF SocketMoves, Handshake
<1> QED BY <1>4, <1>5 DEF SocketInv

LEMMA SocketKept == TypeInv /\ SocketInv /\ [Next]_vars => SocketInv'
<1> SUFFICES ASSUME TypeInv, SocketInv, [Next]_vars PROVE SocketInv'
  OBVIOUS
<1>1. ASSUME UNCHANGED <<account, assigned, device, socket, notices>>
      PROVE  SocketInv'
  BY <1>1, AccountedFrame, ChecksUnread DEF SocketInv, Standing
<1>2. ASSUME NEW k \in Sockets,
             (\E t \in tokens : Connect(k, t)) \/ Handshake(k) \/ Disconnect(k)
      PROVE  SocketInv'
  BY <1>2, SocketAccounted DEF SocketMoves
<1>3. CASE UNCHANGED vars
  BY <1>1, <1>3 DEF vars
<1>4. ASSUME NEW c \in Cashiers, \/ \E d \in Devices : BeginLogin(c, d)
                                 \/ CheckPin(c) \/ CheckAssignment(c) \/ OpenSession(c)
      PROVE  SocketInv'
  BY <1>1, <1>4 DEF BeginLogin, CheckPin, CheckAssignment, OpenSession, StepLogin
<1>5. ASSUME \E k \in 1..MaxSessions, d \in Devices : Refresh(k, d)
      PROVE  SocketInv'
  BY <1>1, <1>5 DEF Refresh
<1> QED BY <1>2, <1>3, <1>4, <1>5, ManageAccounted DEF Next

LEMMA InitSocket == Init => SocketInv
BY DEF Init, SocketInv, Standing, NoSocket

\* A socket that stays open for an outdated session has a notice on its way, or its
\* handshake overlapped the change.
THEOREM StaleSocketsAreKnown == Spec => []StaleSocketsAreLate
<1>1. SocketInv => StaleSocketsAreLate
  BY DEF SocketInv, Standing, Accounted, Checked, StaleSocketsAreLate, Outdated
<1> QED BY <1>1, InitTyped, NextTyped, InitSocket, SocketKept, PTL DEF Spec
=============================================================================

--------------------------- MODULE RefreshSessions ---------------------------
(***************************************************************************)
(* The refresh session of one user in one browser.  The backend rotates    *)
(* the refresh token at every use and takes a second use of a token for    *)
(* theft (auth-session.service).  The browser keeps the token and its CSRF *)
(* proof in cookies that all its tabs share, a second copy of the proof in *)
(* localStorage, and the access token in the memory of each tab            *)
(* (apiClient, AuthContext).  Answers travel, may be lost, and reach the   *)
(* cookie jar before the script that asked sees them.                      *)
(***************************************************************************)
EXTENDS Integers, Sequences, FiniteSets

CONSTANTS
    Tabs,
    Browsers  \* the surroundings a session is checked in

(***************************************************************************)
(* What a browser does to its session: how many tabs are open at once,     *)
(* whether its page may read the API's CSRF cookie (same site), and the    *)
(* bounds on refresh tokens issued, access tokens that expire, tabs closed *)
(* or reloaded, requests or answers lost, logins refused, and account      *)
(* changes and expiries of the session.                                    *)
(***************************************************************************)
Browser == [tabs : Nat, readable : BOOLEAN, rows : Nat, stale : Nat, closed : Nat,
            lost : Nat, wrong : Nat, changes : Nat]

ASSUME BrowsersAssumption == Browsers \subseteq Browser

VARIABLES
    rows,          \* refresh_sessions, in order of creation; a token is an index
    version,       \* users.session_version
    jar,           \* the token in the browser's cookies, 0 when there is none
    stored,        \* the token whose CSRF proof is in localStorage, or 0
    logoutPending, \* the marker in localStorage
    tab,           \* what each tab shows and the access token it holds
    call,          \* the requests of each tab that are under way
    env,           \* the surroundings, chosen once
    budget,        \* what the environment may still do
    reused,        \* history: families in which a replaced token came back
    ended,         \* history: families whose logout was acknowledged
    leaving        \* history: the family whose logout waits for revocation, or 0

server == <<rows, version>>
browser == <<jar, stored, logoutPending>>
history == <<reused, ended, leaving>>
vars == <<server, browser, tab, call, env, budget, history>>
-----------------------------------------------------------------------------
Token == 0..Len(rows)
Family(k) == IF k = 0 THEN 0 ELSE rows[k].family
IsLive(k) == ~rows[k].revoked
LiveOf(f) == {k \in DOMAIN rows : rows[k].family = f /\ IsLive(k)}

Row == [family : Nat, version : Nat, revoked : BOOLEAN,
        replaced : BOOLEAN, expired : BOOLEAN]

\* A tab is closed, restores its session, shows the login screen or is signed in;
\* access is the session version in its access token.
Page == {"closed", "loading", "login", "in"}
Kinds == {"login", "refresh", "logout"}

Exchange == [st : {"idle", "sent", "answered", "arrived"}, token : Nat, csrf : Nat,
             result : {"open", "ok", "unauthorized", "refused"}, issued : Nat]
Idle == [st |-> "idle", token |-> 0, csrf |-> 0, result |-> "open", issued |-> 0]

TypeOK ==
    /\ rows \in Seq(Row)
    /\ \A k \in DOMAIN rows : rows[k].family \in 1..k
    /\ version \in Nat
    /\ jar \in Token /\ stored \in Token /\ leaving \in Token
    /\ logoutPending \in BOOLEAN
    /\ tab \in [Tabs -> [page : Page, access : Nat, stale : BOOLEAN]]
    /\ call \in [Tabs -> [Kinds -> Exchange]]
    /\ \A t \in Tabs : \A k \in Kinds : /\ call[t][k].token \in Token
                                        /\ call[t][k].csrf \in Token
                                        /\ call[t][k].issued \in Token
    /\ env \in Browsers
    /\ budget \in [{"stale", "closed", "lost", "wrong", "changes"} -> Nat]
    /\ reused \subseteq Nat /\ ended \subseteq Nat

Init ==
    /\ rows = << >>
    /\ version = 1
    /\ jar = 0 /\ stored = 0 /\ logoutPending = FALSE
    /\ tab = [t \in Tabs |-> [page |-> "closed", access |-> 0, stale |-> FALSE]]
    /\ call = [t \in Tabs |-> [k \in Kinds |-> Idle]]
    /\ env \in Browsers
    /\ budget = [stale |-> env.stale, closed |-> env.closed, lost |-> env.lost,
                 wrong |-> env.wrong, changes |-> env.changes]
    /\ reused = {} /\ ended = {} /\ leaving = 0
-----------------------------------------------------------------------------
(* Sending: authHeaders reads localStorage first, then the readable cookie; *)
(* the cookies travel with the request.                                     *)

Proof == IF stored # 0 THEN stored ELSE IF env.readable THEN jar ELSE 0
HasSessionHint == Proof # 0

Sent(t, k) == [call EXCEPT ![t][k] = [Idle EXCEPT !.st = "sent", !.token = jar,
                                                  !.csrf = Proof]]
Idles(t, k) == call[t][k].st = "idle"

\* Every request that may issue a token stays within the bound.
Issuing == {x \in Tabs \X {"login", "refresh"} : call[x[1]][x[2]].st = "sent"}
Room == Len(rows) + Cardinality(Issuing) < env.rows

\* Faulty variant: every caller sends a refresh, whether one is under way or not.
RefreshingEach(t) == Sent(t, "refresh")

\* refreshAccessToken keeps one request per tab: a caller that finds one under
\* way shares it.
Refreshing(t) == IF Idles(t, "refresh") THEN Sent(t, "refresh") ELSE call

SignedOut(t) == [tab EXCEPT ![t].page = "login", ![t].access = 0]

\* AuthProvider on load: finish a logout, else restore, else show the login.
OpenTab(t) ==
    /\ tab[t].page = "closed" /\ Room
    /\ Cardinality({u \in Tabs : tab[u].page # "closed"}) < env.tabs
    /\ LET waits == logoutPending \/ HasSessionHint IN
         tab' = [tab EXCEPT ![t].page = IF waits THEN "loading" ELSE "login"]
    /\ call' = IF logoutPending THEN Sent(t, "logout")
               ELSE IF HasSessionHint THEN Refreshing(t) ELSE call
    /\ UNCHANGED <<server, browser, env, budget, history>>

Login(t) ==
    /\ tab[t].page = "login" /\ Idles(t, "login") /\ Room
    /\ call' = Sent(t, "login")
    /\ UNCHANGED <<server, browser, tab, env, budget, history>>

\* resolveActiveTokenSession: the token carries the user's current version.
AccessValid(t) == tab[t].access = version

\* A request with an access token (apiRequest).  An expired one is refreshed; one
\* of an older session version is refused for good and ends the tab's session.
UseAccess(t) ==
    /\ tab[t].page = "in"
    /\ \/ /\ tab[t].stale /\ Room
          /\ call' = Refreshing(t)
          /\ call' # call
          /\ UNCHANGED <<browser, tab>>
       \/ /\ ~tab[t].stale /\ ~AccessValid(t)
          /\ tab' = SignedOut(t)
          /\ stored' = 0
          /\ UNCHANGED <<jar, logoutPending, call>>
    /\ UNCHANGED <<server, env, budget, history>>

\* logout: mark it, send it, and forget the session without waiting.
Logout(t) ==
    /\ tab[t].page = "in" /\ Idles(t, "logout")
    /\ logoutPending' = TRUE
    /\ call' = Sent(t, "logout")
    /\ tab' = SignedOut(t)
    /\ leaving' = Family(jar)
    /\ UNCHANGED <<server, jar, stored, env, budget, reused, ended>>
-----------------------------------------------------------------------------
(* The backend.  Every handler is one transaction under the token's row lock. *)

Answered(t, k, result, issued) ==
    call' = [call EXCEPT ![t][k].st = "answered", ![t][k].result = result,
                         ![t][k].issued = issued]

NewRow(f) == [family |-> f, version |-> version, revoked |-> FALSE,
              replaced |-> FALSE, expired |-> FALSE]

RevokeRow(k) == [rows EXCEPT ![k].revoked = TRUE]
RevokeFamily(f) ==
    [k \in DOMAIN rows |-> IF rows[k].family = f THEN [rows[k] EXCEPT !.revoked = TRUE]
                                                 ELSE rows[k]]

\* createAuthSession
ServeLogin(t) ==
    /\ call[t]["login"].st = "sent"
    /\ rows' = Append(rows, NewRow(Len(rows) + 1))
    /\ Answered(t, "login", "ok", Len(rows) + 1)
    /\ UNCHANGED <<version, browser, tab, env, budget, history>>

\* Faulty variants: the presented token stays live; only it is revoked on reuse.
RotateKeepingOld(k) == Append(rows, NewRow(rows[k].family))
AfterReuseOfRow(k) == RevokeRow(k)

Rotated(k) == Append([rows EXCEPT ![k].revoked = TRUE, ![k].replaced = TRUE],
                     NewRow(rows[k].family))
AfterReuse(k) == RevokeFamily(rows[k].family)

\* The controller takes the proof only when header and cookie agree.
ProofMatches(x) == x.csrf = x.token

\* rotateAuthSession
ServeRefresh(t) ==
    LET x == call[t]["refresh"]
        k == x.token
        Refuse(result) == /\ Answered(t, "refresh", result, 0)
                          /\ UNCHANGED <<reused>>
    IN
    /\ x.st = "sent"
    /\ \/ k = 0 /\ Refuse("unauthorized") /\ rows' = rows
       \/ k # 0 /\ ~ProofMatches(x) /\ Refuse("refused") /\ rows' = rows
       \/ /\ k # 0 /\ ProofMatches(x)
          /\ \/ /\ ~IsLive(k)
                /\ rows' = AfterReuse(k)
                /\ reused' = reused \cup {f \in {rows[k].family} : rows[k].replaced}
                /\ Answered(t, "refresh", "unauthorized", 0)
             \/ /\ IsLive(k) /\ rows[k].expired
                /\ rows' = RevokeRow(k)
                /\ Refuse("unauthorized")
             \/ /\ IsLive(k) /\ ~rows[k].expired /\ rows[k].version # version
                /\ rows' = RevokeFamily(rows[k].family)
                /\ Refuse("unauthorized")
             \/ /\ IsLive(k) /\ ~rows[k].expired /\ rows[k].version = version
                /\ rows' = Rotated(k)
                /\ Answered(t, "refresh", "ok", Len(rows) + 1)
                /\ UNCHANGED reused
    /\ UNCHANGED <<version, browser, tab, env, budget, ended, leaving>>

\* Faulty variant: only the cookies are cleared.
LogoutRevokesNothing(k) == rows

LogoutRevokes(k) == IF k # 0 /\ IsLive(k) THEN RevokeRow(k) ELSE rows

\* revokeAuthSession: a missing or revoked token is logged out already.
ServeLogout(t) ==
    LET x == call[t]["logout"]
        k == x.token
    IN
    /\ x.st = "sent"
    /\ \/ /\ k # 0 /\ ~ProofMatches(x)
          /\ Answered(t, "logout", "refused", 0)
          /\ UNCHANGED <<rows, ended>>
       \/ /\ k = 0 \/ ProofMatches(x)
          /\ rows' = LogoutRevokes(k)
          /\ ended' = ended \cup ({Family(k)} \ {0})
          /\ Answered(t, "logout", "ok", 0)
    /\ UNCHANGED <<version, browser, tab, env, budget, reused, leaving>>
-----------------------------------------------------------------------------
(* Answers.  The browser stores or clears the cookies first (setAuthCookies, *)
(* clearAuthCookies), then the tab's script continues, in order of arrival.  *)

Arrive(t, k) ==
    LET x == call[t][k] IN
    /\ x.st = "answered"
    /\ \A other \in Kinds : call[t][other].st # "arrived"
    /\ call' = [call EXCEPT ![t][k].st = "arrived"]
    /\ jar' = CASE x.issued # 0 -> x.issued
                [] k = "refresh" /\ x.result = "unauthorized" -> 0
                [] k = "logout" /\ x.result = "ok" -> 0
                [] OTHER -> jar
    /\ UNCHANGED <<server, stored, logoutPending, tab, env, budget, history>>

Handled(t, k) == [call EXCEPT ![t][k] = Idle]

\* applyAuthSession and applySession; a login or a refresh that succeeded.
SignIn(t, k) ==
    LET x == call[t][k] IN
    /\ k \in {"login", "refresh"} /\ x.st = "arrived" /\ x.result = "ok"
    /\ stored' = x.issued
    /\ logoutPending' = FALSE
    /\ tab' = [tab EXCEPT ![t] = [page |-> "in", access |-> rows[x.issued].version,
                                  stale |-> FALSE]]
    /\ call' = Handled(t, k)
    /\ leaving' = IF k = "login" THEN 0 ELSE leaving
    /\ UNCHANGED <<server, jar, env, budget, reused, ended>>

\* Faulty variant: the loading screen is only left on success.
AfterFailedRefreshLoading(t) == IF tab[t].page = "loading" THEN tab ELSE SignedOut(t)

AfterFailedRefresh(t) == SignedOut(t)

\* A refused refresh ends the session of the tab and forgets the stored proof,
\* while loading as well as after a request.
RefreshFails(t) ==
    LET x == call[t]["refresh"] IN
    /\ x.st = "arrived" /\ x.result # "ok"
    /\ tab' = AfterFailedRefresh(t)
    /\ stored' = 0
    /\ call' = Handled(t, "refresh")
    /\ UNCHANGED <<server, jar, logoutPending, env, budget, history>>

\* A refused login clears the session with its stored proof, as every request the
\* backend does not authorize does; one that is lost changes nothing.
LoginFails(t) ==
    LET x == call[t]["login"] IN
    /\ x.st = "arrived" /\ x.result # "ok"
    /\ call' = Handled(t, "login")
    /\ tab' = IF x.result = "unauthorized" THEN SignedOut(t) ELSE tab
    /\ stored' = IF x.result = "unauthorized" THEN 0 ELSE stored
    /\ UNCHANGED <<server, jar, logoutPending, env, budget, history>>

LeavesLoading(t) ==
    tab' = [tab EXCEPT ![t].page = IF @ = "loading" THEN "login" ELSE @]

\* Faulty variant: a failed logout clears the marker too.
KeepsMarkerNever(x) == FALSE

KeepsMarker(x) == x.result # "ok"

LogoutReturns(t) ==
    LET x == call[t]["logout"] IN
    /\ x.st = "arrived"
    /\ logoutPending' = (logoutPending /\ KeepsMarker(x))
    /\ stored' = IF x.result = "ok" THEN 0 ELSE stored
    /\ leaving' = IF x.result = "ok" THEN 0 ELSE leaving
    /\ LeavesLoading(t)
    /\ call' = Handled(t, "logout")
    /\ UNCHANGED <<server, jar, env, budget, reused, ended>>
-----------------------------------------------------------------------------
(* The environment. *)

Spend(kind) == /\ budget[kind] > 0
               /\ budget' = [budget EXCEPT ![kind] = @ - 1]
               /\ UNCHANGED env

AccessExpires(t) ==
    /\ tab[t].page = "in" /\ ~tab[t].stale
    /\ tab' = [tab EXCEPT ![t].stale = TRUE]
    /\ Spend("stale")
    /\ UNCHANGED <<server, browser, call, history>>

\* A closed tab forgets its access token and the answers it waits for.
CloseTab(t) ==
    /\ tab[t].page # "closed"
    /\ tab' = [tab EXCEPT ![t] = [page |-> "closed", access |-> 0, stale |-> FALSE]]
    /\ call' = [call EXCEPT ![t] = [k \in Kinds |-> Idle]]
    /\ Spend("closed")
    /\ UNCHANGED <<server, browser, history>>

\* A request or its answer is lost, or the backend failed: the script sees an error.
LoseAnswer(t, k) ==
    /\ call[t][k].st \in {"sent", "answered"}
    /\ call' = [call EXCEPT ![t][k].st = "arrived", ![t][k].result = "refused",
                            ![t][k].issued = 0]
    /\ Spend("lost")
    /\ UNCHANGED <<server, browser, tab, history>>

\* A wrong password or PIN: the cookies stay.
RefuseLogin(t) ==
    /\ call[t]["login"].st = "sent"
    /\ Answered(t, "login", "unauthorized", 0)
    /\ Spend("wrong")
    /\ UNCHANGED <<server, browser, tab, history>>

\* A manager changes the account: the version moves and every session is revoked
\* (updateManagedUser, revokeUserRefreshSessions).
ChangeAccount ==
    /\ version' = version + 1
    /\ rows' = [k \in DOMAIN rows |-> [rows[k] EXCEPT !.revoked = TRUE]]
    /\ Spend("changes")
    /\ UNCHANGED <<browser, tab, call, history>>

\* The absolute lifetime of a login ends, for its rows and for its cookies.
SessionExpires(f) ==
    /\ \E k \in LiveOf(f) : ~rows[k].expired
    /\ rows' = [k \in DOMAIN rows |->
                   IF rows[k].family = f THEN [rows[k] EXCEPT !.expired = TRUE] ELSE rows[k]]
    /\ jar' = IF Family(jar) = f THEN 0 ELSE jar
    /\ Spend("changes")
    /\ UNCHANGED <<version, stored, logoutPending, tab, call, history>>
-----------------------------------------------------------------------------
Serve(t) == ServeLogin(t) \/ ServeRefresh(t) \/ ServeLogout(t)
Continue(t) == \/ \E k \in Kinds : Arrive(t, k) \/ SignIn(t, k)
               \/ RefreshFails(t) \/ LoginFails(t) \/ LogoutReturns(t)

Next ==
    \/ \E t \in Tabs :
          \/ OpenTab(t) \/ Login(t) \/ UseAccess(t) \/ Logout(t)
          \/ Serve(t) \/ Continue(t)
          \/ AccessExpires(t) \/ CloseTab(t) \/ RefuseLogin(t)
          \/ \E k \in Kinds : LoseAnswer(t, k)
    \/ ChangeAccount
    \/ \E f \in DOMAIN rows : SessionExpires(f)

Spec == Init /\ [][Next]_vars
-----------------------------------------------------------------------------
(* Properties. *)

\* However many tabs refresh at once, one token at most of a login is live: a copy
\* of the session can be told from the original (rotateAuthSession).
OneLiveToken ==
    \A k, l \in DOMAIN rows :
        rows[k].family = rows[l].family /\ IsLive(k) /\ IsLive(l) => k = l

\* Once a used token came back, no token of that login is ever accepted again, the
\* one that replaced it included (REFRESH_REUSED).
ReuseEndsFamily == \A f \in reused : LiveOf(f) = {}

\* While one tab is open at a time, is not reloaded and loses nothing, its own
\* requests are never taken for theft: they share one refresh (the single flight of
\* apiClient).
NoFalseAlarm == env.tabs = 1 /\ env.closed = 0 /\ env.lost = 0 => reused = {}

\* No refresh is under way when the user logs out: one tab, and access tokens that
\* outlive it.
NoRefreshRaces == env.tabs = 1 /\ env.stale = 0

\* After an acknowledged logout no token of that login is live.
LogoutEndsSession == NoRefreshRaces => \A f \in ended : LiveOf(f) = {}

\* A tab is never signed in again from the cookies while a logout waits for its
\* revocation, over reloads and lost answers: only a login gets past it (the marker
\* of AuthContext).
PendingLogoutHolds ==
    [][NoRefreshRaces =>
          \A t \in Tabs : tab[t].page # "in" /\ tab'[t].page = "in" => leaving' = 0]_vars

\* A tab that shows the loading screen waits for a request that will be answered or
\* fail, whatever was lost before: it never loads for ever (isRestoring).
LoadingWaits ==
    \A t \in Tabs : tab[t].page = "loading" => \E k \in Kinds : ~Idles(t, k)
=============================================================================

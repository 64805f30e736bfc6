------------------------ MODULE RefreshSessionsProofs ------------------------
(***************************************************************************)
(* Rotation and its alarm, for any number of tabs, tokens and surroundings *)
(* of a browser.  That a token that comes back ends its login for good     *)
(* rests on three facts kept together: a login has one live token, a       *)
(* family is named by the row that began it, and a family in reused was    *)
(* begun already.  A tab that loads has a refresh or a logout under way.   *)
(* Where one tab is open at a time, what it waits for and what the jar     *)
(* holds are followed together: no false alarm, and logouts that are final *)
(* and hold while they wait.                                               *)
(***************************************************************************)
EXTENDS RefreshSessions, FiniteSetTheorems, TLAPS

\* An exchange while n tokens were issued.
ExchangeUpTo(n) == [st : {"idle", "sent", "answered", "arrived"}, token : 0..n, csrf : 0..n,
                    result : {"open", "ok", "unauthorized", "refused"}, issued : 0..n]

\* A login or a refresh that succeeded issued a token.
Sane(k, x) == k # "logout" /\ x.result = "ok" => x.issued # 0

CallsUpTo(c, n) ==
    /\ c \in [Tabs -> [Kinds -> ExchangeUpTo(n)]]
    /\ \A t \in Tabs : \A k \in Kinds : Sane(k, c[t][k])

RowsTyped(r) ==
    /\ r \in Seq(Row)
    /\ \A k \in DOMAIN r : r[k].family \in 1..k

TabsTyped == tab \in [Tabs -> [page : Page, access : Nat, stale : BOOLEAN]]

RestTyped ==
    /\ version \in Nat
    /\ jar \in Token /\ stored \in Token /\ leaving \in Token
    /\ logoutPending \in BOOLEAN
    /\ env \in Browsers
    /\ budget \in [{"stale", "closed", "lost", "wrong", "changes"} -> Nat]
    /\ reused \subseteq 1..Len(rows) /\ ended \subseteq 1..Len(rows)

TypeInv == RowsTyped(rows) /\ CallsUpTo(call, Len(rows)) /\ TabsTyped /\ RestTyped

LEMMA TypeInvTypeOK == TypeInv => TypeOK
<1> SUFFICES ASSUME TypeInv PROVE TypeOK
  OBVIOUS
<1>1. Len(rows) \in Nat
  BY DEF TypeInv, RowsTyped
<1>2. call \in [Tabs -> [Kinds -> Exchange]]
  BY <1>1 DEF TypeInv, CallsUpTo, ExchangeUpTo, Exchange
<1>3. \A t \in Tabs : \A k \in Kinds : /\ call[t][k].token \in Token
                                       /\ call[t][k].csrf \in Token
                                       /\ call[t][k].issued \in Token
  BY DEF TypeInv, CallsUpTo, ExchangeUpTo, Token
<1>4. reused \subseteq Nat /\ ended \subseteq Nat
  BY <1>1 DEF TypeInv, RestTyped
<1> QED BY <1>2, <1>3, <1>4 DEF TypeInv, RowsTyped, TabsTyped, RestTyped, TypeOK

LEMMA InitTyped == Init => TypeInv
<1> SUFFICES ASSUME Init PROVE TypeInv
  OBVIOUS
<1>1. RowsTyped(rows) /\ Len(rows) = 0
  BY DEF Init, RowsTyped
<1>2. Idle \in ExchangeUpTo(0) /\ \A k \in Kinds : Sane(k, Idle)
  BY DEF Idle, ExchangeUpTo, Sane
<1>3. call = [t \in Tabs |-> [k \in Kinds |-> Idle]]
  BY DEF Init
<1>4. CallsUpTo(call, Len(rows))
  BY <1>1, <1>2, <1>3 DEF CallsUpTo
<1>5. TabsTyped
  BY DEF Init, TabsTyped, Page
<1>6. env \in Browser
  BY BrowsersAssumption DEF Init
<1>7. budget \in [{"stale", "closed", "lost", "wrong", "changes"} -> Nat]
  <2>1. /\ env.stale \in Nat /\ env.closed \in Nat /\ env.lost \in Nat
        /\ env.wrong \in Nat /\ env.changes \in Nat
    BY <1>6 DEF Browser
  <2> QED BY <2>1 DEF Init
<1>8. jar \in Token /\ stored \in Token /\ leaving \in Token
  BY <1>1 DEF Init, Token
<1>9. RestTyped
  BY <1>7, <1>8 DEF Init, RestTyped
<1> QED BY <1>1, <1>4, <1>5, <1>9 DEF TypeInv
-----------------------------------------------------------------------------
(* Calls. *)

\* One exchange replaced.
LEMMA OneCall ==
    ASSUME NEW n \in Nat, NEW m \in Nat, n <= m, CallsUpTo(call, n),
           NEW t \in Tabs, NEW k \in Kinds, NEW x \in ExchangeUpTo(m), Sane(k, x),
           NEW c, c = [call EXCEPT ![t][k] = x]
    PROVE  CallsUpTo(c, m)
<1>1. \A u \in Tabs : \A j \in Kinds : call[u][j] \in ExchangeUpTo(m) /\ Sane(j, call[u][j])
  <2>1. 0..n \subseteq 0..m
    OBVIOUS
  <2>2. \A y \in ExchangeUpTo(n) : y \in ExchangeUpTo(m)
    BY <2>1 DEF ExchangeUpTo
  <2> QED BY <2>2 DEF CallsUpTo
<1>2. call \in [Tabs -> [Kinds -> ExchangeUpTo(n)]]
  BY DEF CallsUpTo
<1>3. ASSUME NEW u \in Tabs
      PROVE  /\ c[u] = [j \in Kinds |-> IF u = t /\ j = k THEN x ELSE call[u][j]]
  BY <1>2
<1>4. c \in [Tabs -> [Kinds -> ExchangeUpTo(m)]]
  BY <1>1, <1>2, <1>3
<1>5. \A u \in Tabs : \A j \in Kinds : Sane(j, c[u][j])
  BY <1>1, <1>3
<1> QED BY <1>4, <1>5 DEF CallsUpTo

LEMMA MoreTokens ==
    ASSUME NEW n \in Nat, NEW m \in Nat, n <= m, CallsUpTo(call, n)
    PROVE  CallsUpTo(call, m)
<1>1. 0..n \subseteq 0..m
  OBVIOUS
<1>2. \A y \in ExchangeUpTo(n) : y \in ExchangeUpTo(m)
  BY <1>1 DEF ExchangeUpTo
<1> QED BY <1>2 DEF CallsUpTo

LEMMA SentTyped ==
    ASSUME TypeInv, NEW t \in Tabs, NEW k \in Kinds
    PROVE  CallsUpTo(Sent(t, k), Len(rows)) /\ CallsUpTo(Refreshing(t), Len(rows))
<1>1. Len(rows) \in Nat /\ CallsUpTo(call, Len(rows))
  BY DEF TypeInv, RowsTyped
<1>2. Proof \in Token /\ jar \in Token
  BY <1>1 DEF Proof, TypeInv, RestTyped, Token
<1> DEFINE x == [Idle EXCEPT !.st = "sent", !.token = jar, !.csrf = Proof]
<1>3. x \in ExchangeUpTo(Len(rows)) /\ x.result = "open"
  <2>1. Idle \in ExchangeUpTo(Len(rows)) /\ Idle.result = "open"
    BY <1>1 DEF Idle, ExchangeUpTo
  <2>2. jar \in 0..Len(rows) /\ Proof \in 0..Len(rows)
    BY <1>2 DEF Token
  <2> QED BY <2>1, <2>2 DEF ExchangeUpTo
<1>4. \A j \in Kinds : Sane(j, x)
  BY <1>3 DEF Sane
<1>5. \A j \in Kinds : CallsUpTo(Sent(t, j), Len(rows))
  <2>1. \A j \in Kinds : Sent(t, j) = [call EXCEPT ![t][j] = x]
    BY DEF Sent
  <2> HIDE DEF x
  <2> QED BY <1>1, <1>3, <1>4, <2>1, OneCall
<1>6. "refresh" \in Kinds
  BY DEF Kinds
<1> QED BY <1>1, <1>5, <1>6 DEF Refreshing

\* The answer to a request, and a request that is handled.
LEMMA AnsweredTyped ==
    ASSUME TypeInv, NEW t \in Tabs, NEW k \in Kinds, NEW m \in Nat, Len(rows) <= m,
           NEW result \in {"ok", "unauthorized", "refused"}, NEW issued \in 0..m,
           k # "logout" /\ result = "ok" => issued # 0, Answered(t, k, result, issued)
    PROVE  CallsUpTo(call', m)
<1>1. Len(rows) \in Nat /\ CallsUpTo(call, Len(rows))
  BY DEF TypeInv, RowsTyped
<1>2. call[t][k] \in ExchangeUpTo(m)
  <2>1. call[t][k] \in ExchangeUpTo(Len(rows)) /\ 0..Len(rows) \subseteq 0..m
    BY <1>1 DEF CallsUpTo
  <2> QED BY <2>1 DEF ExchangeUpTo
<1> DEFINE x == [call[t][k] EXCEPT !.st = "answered", !.result = result, !.issued = issued]
<1>3. x \in ExchangeUpTo(m) /\ Sane(k, x)
  BY <1>2 DEF ExchangeUpTo, Sane
<1>4. call' = [call EXCEPT ![t][k] = x]
  BY DEF Answered
<1> HIDE DEF x
<1> QED BY <1>1, <1>3, <1>4, OneCall

LEMMA HandledTyped ==
    ASSUME TypeInv, NEW t \in Tabs, NEW k \in Kinds
    PROVE  CallsUpTo(Handled(t, k), Len(rows))
<1>1. Len(rows) \in Nat /\ CallsUpTo(call, Len(rows))
  BY DEF TypeInv, RowsTyped
<1>2. Idle \in ExchangeUpTo(Len(rows)) /\ Sane(k, Idle)
  BY <1>1 DEF Idle, ExchangeUpTo, Sane
<1> QED BY <1>1, <1>2, OneCall DEF Handled

LEMMA CallAt ==
    ASSUME TypeInv, NEW t \in Tabs, NEW k \in Kinds
    PROVE  /\ call[t][k] \in ExchangeUpTo(Len(rows)) /\ Sane(k, call[t][k])
           /\ call[t][k].token \in Token /\ call[t][k].issued \in Token
BY DEF TypeInv, CallsUpTo, ExchangeUpTo, Token

LEMMA FamilyOf ==
    ASSUME TypeInv, NEW k \in Token
    PROVE  /\ Family(k) \in Token
           /\ k # 0 => k \in DOMAIN rows /\ rows[k] \in Row /\ Family(k) = rows[k].family
                         /\ rows[k].family \in 1..Len(rows)
<1>1. rows \in Seq(Row) /\ Len(rows) \in Nat /\ DOMAIN rows = 1..Len(rows)
  BY DEF TypeInv, RowsTyped
<1>2. ASSUME k # 0
      PROVE  k \in DOMAIN rows /\ rows[k] \in Row /\ rows[k].family \in 1..Len(rows)
  <2>1. k \in DOMAIN rows
    BY <1>1, <1>2 DEF Token
  <2>2. rows[k] \in Row /\ rows[k].family \in 1..k
    BY <1>1, <2>1 DEF TypeInv, RowsTyped
  <2> QED BY <1>1, <2>1, <2>2
<1> QED BY <1>1, <1>2 DEF Family, Token
-----------------------------------------------------------------------------
(* Rows. *)

\* Rows that keep their families and gain no life.
Shrunk(r) ==
    /\ r \in Seq(Row) /\ DOMAIN r = DOMAIN rows
    /\ \A k \in DOMAIN rows : /\ r[k].family = rows[k].family
                              /\ rows[k].revoked => r[k].revoked

\* A function on the rows.
OnRows(r) == DOMAIN r = DOMAIN rows /\ r = [k \in DOMAIN rows |-> r[k]]

\* A row that ages.
Aged(x, y) ==
    \/ y = x
    \/ y = [x EXCEPT !.revoked = TRUE]
    \/ y = [x EXCEPT !.expired = TRUE]
    \/ y = [x EXCEPT !.revoked = TRUE, !.replaced = TRUE]

LEMMA AgedRow ==
    ASSUME NEW x \in Row, NEW y, Aged(x, y)
    PROVE  y \in Row /\ y.family = x.family /\ (x.revoked => y.revoked)
<1>1. CASE y = x
  BY <1>1
<1>2. CASE y = [x EXCEPT !.revoked = TRUE]
  BY <1>2 DEF Row
<1>3. CASE y = [x EXCEPT !.expired = TRUE]
  BY <1>3 DEF Row
<1>4. CASE y = [x EXCEPT !.revoked = TRUE, !.replaced = TRUE]
  BY <1>4 DEF Row
<1> QED BY <1>1, <1>2, <1>3, <1>4 DEF Aged

LEMMA ShrunkRows ==
    ASSUME TypeInv, NEW r, OnRows(r), \A k \in DOMAIN rows : Aged(rows[k], r[k])
    PROVE  Shrunk(r)
<1>1. rows \in Seq(Row) /\ Len(rows) \in Nat /\ DOMAIN rows = 1..Len(rows)
  BY DEF TypeInv, RowsTyped
<1>2. ASSUME NEW k \in DOMAIN rows
      PROVE  /\ r[k] \in Row /\ r[k].family = rows[k].family
             /\ rows[k].revoked => r[k].revoked
  <2>1. rows[k] \in Row
    BY <1>1
  <2> QED BY <2>1, AgedRow
<1>3. r \in [1..Len(rows) -> Row]
  <2>1. r = [k \in 1..Len(rows) |-> r[k]]
    BY <1>1 DEF OnRows, Aged
  <2>2. \A k \in 1..Len(rows) : r[k] \in Row
    BY <1>1, <1>2
  <2> QED BY <2>1, <2>2
<1>4. r \in Seq(Row)
  BY <1>1, <1>3
<1>5. DOMAIN r = DOMAIN rows
  BY DEF OnRows
<1> QED BY <1>2, <1>4, <1>5 DEF Shrunk

LEMMA Revocations ==
    ASSUME TypeInv
    PROVE  /\ Shrunk(rows)
           /\ \A k \in DOMAIN rows : Shrunk(RevokeRow(k))
           /\ \A f : Shrunk(RevokeFamily(f))
           /\ \A k \in DOMAIN rows :
                 Shrunk([rows EXCEPT ![k].revoked = TRUE, ![k].replaced = TRUE])
<1>1. rows \in Seq(Row)
  BY DEF TypeInv, RowsTyped
<1>2. Shrunk(rows)
  BY <1>1 DEF Shrunk
<1>3. ASSUME NEW k \in DOMAIN rows
      PROVE  Shrunk(RevokeRow(k))
  <2> DEFINE r == [rows EXCEPT ![k].revoked = TRUE]
  <2>1. /\ OnRows(r)
        /\ \A j \in DOMAIN rows : Aged(rows[j], r[j])
    BY <1>1 DEF OnRows, Aged
  <2>2. RevokeRow(k) = r
    BY DEF RevokeRow
  <2> HIDE DEF r
  <2> QED BY <2>1, <2>2, ShrunkRows
<1>4. ASSUME NEW f
      PROVE  Shrunk(RevokeFamily(f))
  <2> DEFINE r == [k \in DOMAIN rows |-> IF rows[k].family = f
                                         THEN [rows[k] EXCEPT !.revoked = TRUE] ELSE rows[k]]
  <2>1. /\ OnRows(r)
        /\ \A j \in DOMAIN rows : Aged(rows[j], r[j])
    BY Zenon DEF OnRows, Aged
  <2>2. RevokeFamily(f) = r
    BY DEF RevokeFamily
  <2> HIDE DEF r
  <2> QED BY <2>1, <2>2, ShrunkRows
<1>5. ASSUME NEW k \in DOMAIN rows
      PROVE  Shrunk([rows EXCEPT ![k].revoked = TRUE, ![k].replaced = TRUE])
  <2> DEFINE r == [rows EXCEPT ![k].revoked = TRUE, ![k].replaced = TRUE]
  <2>1. /\ OnRows(r)
        /\ \A j \in DOMAIN rows : Aged(rows[j], r[j])
    BY <1>1 DEF OnRows, Aged
  <2>2. Shrunk(r)
    <3> HIDE DEF r
    <3> QED BY <2>1, ShrunkRows
  <2> QED BY <2>2
<1> QED BY <1>2, <1>3, <1>4, <1>5

LEMMA ShrunkTyped ==
    ASSUME TypeInv, NEW r, Shrunk(r)
    PROVE  RowsTyped(r) /\ Len(r) = Len(rows)
<1>1. r \in Seq(Row) /\ rows \in Seq(Row) /\ DOMAIN r = DOMAIN rows
  BY DEF TypeInv, RowsTyped, Shrunk
<1>2. Len(r) = Len(rows)
  BY <1>1
<1> QED BY <1>1, <1>2 DEF TypeInv, RowsTyped, Shrunk

LEMMA GrownTyped ==
    ASSUME TypeInv, NEW old, Shrunk(old), NEW row \in Row, row.family \in 1..Len(rows) + 1
    PROVE  RowsTyped(Append(old, row)) /\ Len(Append(old, row)) = Len(rows) + 1
<1>1. /\ old \in Seq(Row) /\ Len(old) = Len(rows) /\ DOMAIN old = 1..Len(rows)
      /\ Len(rows) \in Nat
  <2>1. RowsTyped(old) /\ Len(old) = Len(rows)
    BY ShrunkTyped
  <2> QED BY <2>1 DEF RowsTyped
<1> DEFINE r == Append(old, row)
<1>2. /\ r \in Seq(Row) /\ Len(r) = Len(rows) + 1 /\ DOMAIN r = 1..Len(rows) + 1
      /\ \A k \in 1..Len(rows) : r[k] = old[k]
      /\ r[Len(rows) + 1] = row
  BY <1>1
<1>3. \A k \in 1..Len(rows) : r[k].family \in 1..k
  BY <1>1, <1>2, ShrunkTyped DEF RowsTyped
<1> HIDE DEF r
<1>4. \A k \in DOMAIN r : k \in 1..Len(rows) \/ k = Len(rows) + 1
  BY <1>1, <1>2
<1>5. \A k \in DOMAIN r : r[k].family \in 1..k
  BY <1>2, <1>3, <1>4
<1> QED BY <1>2, <1>5 DEF RowsTyped, r

\* Revoked rows stay revoked, and no family gains a second live token.
Safe == OneLiveToken /\ ReuseEndsFamily

LEMMA ShrunkSafe ==
    ASSUME TypeInv, Safe, Shrunk(rows'), NEW S, reused' = reused \cup S,
           \A f \in S : LiveOf(f)' = {}
    PROVE  Safe'
<1>1. \A k \in DOMAIN rows' : /\ k \in DOMAIN rows /\ rows'[k].family = rows[k].family
                              /\ rows[k].revoked => rows'[k].revoked
  BY DEF Shrunk
<1>2. OneLiveToken'
  BY <1>1 DEF Safe, OneLiveToken, IsLive
<1>3. \A f : LiveOf(f)' \subseteq LiveOf(f)
  BY <1>1 DEF LiveOf, IsLive
<1>4. ReuseEndsFamily'
  BY <1>3 DEF Safe, ReuseEndsFamily
<1> QED BY <1>2, <1>4 DEF Safe

LEMMA GrownSafe ==
    ASSUME TypeInv, Safe, NEW old, Shrunk(old), NEW row \in Row,
           rows' = Append(old, row), row.family \notin reused, UNCHANGED reused,
           \A k \in DOMAIN rows : rows[k].family = row.family => old[k].revoked
    PROVE  Safe'
<1>1. /\ old \in Seq(Row) /\ Len(old) = Len(rows) /\ DOMAIN old = 1..Len(rows)
      /\ DOMAIN rows = 1..Len(rows) /\ Len(rows) \in Nat
  <2>1. RowsTyped(old) /\ Len(old) = Len(rows)
    BY ShrunkTyped
  <2> QED BY <2>1 DEF RowsTyped, Shrunk
<1>2. /\ DOMAIN rows' = 1..Len(rows) + 1
      /\ \A k \in 1..Len(rows) : rows'[k] = old[k]
      /\ rows'[Len(rows) + 1] = row
  BY <1>1
<1>3. \A k \in DOMAIN rows' : k \in DOMAIN rows \/ k = Len(rows) + 1
  BY <1>1, <1>2
<1>4. \A k \in DOMAIN rows : /\ rows'[k].family = rows[k].family
                             /\ rows[k].revoked => rows'[k].revoked
                             /\ rows[k].family = row.family => rows'[k].revoked
  BY <1>1, <1>2 DEF Shrunk
<1>5. OneLiveToken'
  BY <1>2, <1>3, <1>4 DEF Safe, OneLiveToken, IsLive
<1>6. ReuseEndsFamily'
  BY <1>2, <1>3, <1>4 DEF Safe, ReuseEndsFamily, LiveOf, IsLive
<1> QED BY <1>5, <1>6 DEF Safe
-----------------------------------------------------------------------------
(* Steps of a tab: no row changes, and no family is reused. *)

TabState == [page : Page, access : Nat, stale : BOOLEAN]

LEMMA SignedOutTyped ==
    ASSUME TypeInv, NEW t \in Tabs
    PROVE  SignedOut(t) \in [Tabs -> TabState]
<1>1. tab \in [Tabs -> TabState]
  BY DEF TypeInv, TabsTyped, TabState
<1> DEFINE x == [tab[t] EXCEPT !.page = "login", !.access = 0]
<1>2. x \in TabState
  BY <1>1 DEF TabState, Page
<1>3. SignedOut(t) = [tab EXCEPT ![t] = x]
  BY DEF SignedOut
<1> HIDE DEF x
<1> QED BY <1>1, <1>2, <1>3

\* What a step of a tab leaves typed.
TabStepTyped ==
    /\ UNCHANGED <<rows, version, env, reused, ended>>
    /\ CallsUpTo(call', Len(rows))
    /\ tab' \in [Tabs -> TabState]
    /\ jar' \in Token /\ stored' \in Token /\ leaving' \in Token
    /\ logoutPending' \in BOOLEAN
    /\ budget' = budget

LEMMA TabStepKept ==
    ASSUME TypeInv, Safe, TabStepTyped
    PROVE  TypeInv' /\ Safe'
<1>1. TypeInv'
  BY DEF TypeInv, TabStepTyped, TabsTyped, TabState, RestTyped, Token
<1>2. Safe'
  BY DEF TabStepTyped, Safe, OneLiveToken, ReuseEndsFamily, IsLive, LiveOf
<1> QED BY <1>1, <1>2

LEMMA Unmoved ==
    ASSUME TypeInv
    PROVE  /\ CallsUpTo(call, Len(rows)) /\ tab \in [Tabs -> TabState] /\ 0 \in Token
           /\ jar \in Token /\ stored \in Token /\ leaving \in Token
           /\ logoutPending \in BOOLEAN
BY DEF TypeInv, TabsTyped, TabState, RestTyped, RowsTyped, Token

LEMMA AskTyped ==
    ASSUME TypeInv, NEW t \in Tabs, OpenTab(t) \/ Login(t) \/ UseAccess(t) \/ Logout(t)
    PROVE  TabStepTyped
<1> USE Unmoved
<1>0. "refresh" \in Kinds /\ "logout" \in Kinds /\ "login" \in Kinds
  BY DEF Kinds
<1>1. CASE OpenTab(t)
  <2>1. CallsUpTo(call', Len(rows))
    BY <1>0, <1>1, SentTyped DEF OpenTab
  <2>2. tab' \in [Tabs -> TabState]
    <3>1. \E p \in Page : tab' = [tab EXCEPT ![t].page = p]
      <4>1. {"loading", "login"} \subseteq Page
        BY DEF Page
      <4> QED BY <1>1, <4>1 DEF OpenTab
    <3> QED BY <3>1 DEF TabState
  <2> QED BY <1>1, <2>1, <2>2 DEF OpenTab, TabStepTyped, server, browser, history
<1>2. CASE Login(t)
  <2>1. CallsUpTo(call', Len(rows))
    BY <1>0, <1>2, SentTyped DEF Login
  <2> QED BY <1>2, <2>1 DEF Login, TabStepTyped, server, browser, history
<1>3. CASE UseAccess(t)
  <2>1. CallsUpTo(call', Len(rows))
    <3>1. call' = Refreshing(t) \/ call' = call
      BY <1>3 DEF UseAccess
    <3>2. CallsUpTo(Refreshing(t), Len(rows)) /\ CallsUpTo(call, Len(rows))
      BY <1>0, SentTyped
    <3> QED BY <3>1, <3>2
  <2>2. tab' \in [Tabs -> TabState]
    BY <1>3, SignedOutTyped DEF UseAccess
  <2> QED BY <1>3, <2>1, <2>2 DEF UseAccess, TabStepTyped, server, browser, history
<1>4. CASE Logout(t)
  <2>1. CallsUpTo(call', Len(rows))
    BY <1>0, <1>4, SentTyped DEF Logout
  <2>2. tab' \in [Tabs -> TabState]
    BY <1>4, SignedOutTyped DEF Logout
  <2>3. leaving' \in Token
    BY <1>4, FamilyOf DEF Logout
  <2> QED BY <1>4, <2>1, <2>2, <2>3 DEF Logout, TabStepTyped, server
<1> QED BY <1>1, <1>2, <1>3, <1>4

LEMMA ArriveTyped ==
    ASSUME TypeInv, NEW t \in Tabs, NEW k \in Kinds, Arrive(t, k)
    PROVE  TabStepTyped
<1> USE Unmoved
<1>1. call[t][k] \in ExchangeUpTo(Len(rows)) /\ Sane(k, call[t][k])
      /\ call[t][k].issued \in Token
  BY CallAt
<1> DEFINE x == [call[t][k] EXCEPT !.st = "arrived"]
<1>2. x \in ExchangeUpTo(Len(rows)) /\ Sane(k, x)
  BY <1>1 DEF ExchangeUpTo, Sane
<1>3. call' = [call EXCEPT ![t][k] = x]
  BY DEF Arrive
<1>4. CallsUpTo(call', Len(rows))
  <2>1. Len(rows) \in Nat /\ CallsUpTo(call, Len(rows))
    BY DEF TypeInv, RowsTyped
  <2> HIDE DEF x
  <2>2. Len(rows) <= Len(rows)
    BY <2>1
  <2>3. CallsUpTo([call EXCEPT ![t][k] = x], Len(rows))
    BY <1>2, <2>1, <2>2, OneCall
  <2> QED BY <1>3, <2>3
<1>5. jar' \in Token
  <2>1. jar' \in {call[t][k].issued, 0, jar}
    BY DEF Arrive
  <2> QED BY <1>1, <2>1
<1> QED BY <1>4, <1>5 DEF Arrive, TabStepTyped, server, history

LEMMA SignInTyped ==
    ASSUME TypeInv, NEW t \in Tabs, NEW k \in Kinds, SignIn(t, k)
    PROVE  TabStepTyped
<1> USE Unmoved
<1>1. call[t][k].issued \in Token /\ call[t][k].issued # 0
  BY CallAt DEF SignIn, Sane
<1>2. rows[call[t][k].issued].version \in Nat
  BY <1>1, FamilyOf DEF Row
<1>3. tab' \in [Tabs -> TabState]
  <2>1. [page |-> "in", access |-> rows[call[t][k].issued].version, stale |-> FALSE] \in TabState
    BY <1>2 DEF TabState, Page
  <2> QED BY <2>1 DEF SignIn
<1>4. CallsUpTo(call', Len(rows))
  BY HandledTyped DEF SignIn
<1> QED BY <1>1, <1>3, <1>4 DEF SignIn, TabStepTyped, server

LEMMA ContinueTyped ==
    ASSUME TypeInv, NEW t \in Tabs, RefreshFails(t) \/ LoginFails(t) \/ LogoutReturns(t)
    PROVE  TabStepTyped
<1> USE Unmoved
<1>0. "refresh" \in Kinds /\ "logout" \in Kinds /\ "login" \in Kinds
  BY DEF Kinds
<1>1. CallsUpTo(call', Len(rows))
  BY <1>0, HandledTyped DEF RefreshFails, LoginFails, LogoutReturns
<1>2. CASE RefreshFails(t)
  <2>1. tab' \in [Tabs -> TabState]
    BY <1>2, SignedOutTyped DEF RefreshFails, AfterFailedRefresh
  <2> QED BY <1>1, <1>2, <2>1 DEF RefreshFails, TabStepTyped, server, history
<1>3. CASE LoginFails(t)
  <2>1. tab' \in [Tabs -> TabState] /\ stored' \in Token
    BY <1>3, SignedOutTyped DEF LoginFails
  <2> QED BY <1>1, <1>3, <2>1 DEF LoginFails, TabStepTyped, server, history
<1>4. CASE LogoutReturns(t)
  <2>1. \E p \in Page : tab' = [tab EXCEPT ![t].page = p]
    <3>1. tab[t].page \in Page /\ "login" \in Page
      BY DEF TabState, Page
    <3> QED BY <1>4, <3>1 DEF LogoutReturns, LeavesLoading
  <2>2. tab' \in [Tabs -> TabState]
    BY <2>1 DEF TabState
  <2>3. stored' \in Token /\ leaving' \in Token /\ logoutPending' \in BOOLEAN
    BY <1>4 DEF LogoutReturns
  <2> QED BY <1>1, <1>4, <2>2, <2>3 DEF LogoutReturns, TabStepTyped, server
<1> QED BY <1>2, <1>3, <1>4
-----------------------------------------------------------------------------
(* The backend. *)

LEMMA ServerTyped ==
    ASSUME TypeInv, RowsTyped(rows'), Len(rows) <= Len(rows'), CallsUpTo(call', Len(rows')),
           UNCHANGED <<version, browser, tab, env, budget, leaving>>,
           reused' \subseteq 1..Len(rows'), ended' \subseteq 1..Len(rows')
    PROVE  TypeInv'
<1>1. Len(rows) \in Nat /\ Len(rows') \in Nat
  BY DEF TypeInv, RowsTyped
<1>2. Token \subseteq Token'
  BY <1>1 DEF Token
<1>3. jar' \in Token' /\ stored' \in Token' /\ leaving' \in Token'
  BY <1>2 DEF TypeInv, RestTyped, browser
<1>4. RestTyped'
  BY <1>3 DEF TypeInv, RestTyped, browser
<1>5. TabsTyped'
  BY DEF TypeInv, TabsTyped
<1> QED BY <1>4, <1>5 DEF TypeInv

\* A row that is issued, over rows that only shrink.
LEMMA Issued ==
    ASSUME TypeInv, Safe, NEW t \in Tabs, NEW k \in {"login", "refresh"},
           NEW old, Shrunk(old), NEW f \in 1..Len(rows) + 1, f \notin reused,
           \A j \in DOMAIN rows : rows[j].family = f => old[j].revoked,
           rows' = Append(old, NewRow(f)), Answered(t, k, "ok", Len(rows) + 1),
           UNCHANGED <<version, browser, tab, env, budget, history>>
    PROVE  TypeInv' /\ Safe'
<1>1. Len(rows) \in Nat
  BY DEF TypeInv, RowsTyped
<1>2. NewRow(f) \in Row /\ NewRow(f).family = f
  BY <1>1 DEF NewRow, Row, TypeInv, RestTyped
<1>3. RowsTyped(rows') /\ Len(rows') = Len(rows) + 1
  BY <1>2, GrownTyped
<1>4. CallsUpTo(call', Len(rows) + 1)
  BY <1>1, AnsweredTyped DEF Kinds
<1>5. 1..Len(rows) \subseteq 1..Len(rows')
  BY <1>1, <1>3
<1>6. TypeInv'
  <2>1. reused' \subseteq 1..Len(rows') /\ ended' \subseteq 1..Len(rows')
    BY <1>5 DEF TypeInv, RestTyped, history
  <2> QED BY <1>1, <1>3, <1>4, <2>1, ServerTyped DEF history
<1>7. Safe'
  BY <1>2, GrownSafe DEF history
<1> QED BY <1>6, <1>7

LEMMA ServeLoginKept ==
    ASSUME TypeInv, Safe, NEW t \in Tabs, ServeLogin(t)
    PROVE  TypeInv' /\ Safe'
<1>1. rows \in Seq(Row) /\ Len(rows) \in Nat /\ DOMAIN rows = 1..Len(rows)
  BY DEF TypeInv, RowsTyped
<1> DEFINE f == Len(rows) + 1
<1>2. f \in 1..Len(rows) + 1 /\ f \notin reused
  BY <1>1 DEF TypeInv, RestTyped
<1>3. \A j \in DOMAIN rows : rows[j].family # f
  <2>1. \A j \in 1..Len(rows) : rows[j].family \in 1..j
    BY <1>1 DEF TypeInv, RowsTyped
  <2> QED BY <1>1, <2>1
<1>4. /\ rows' = Append(rows, NewRow(f)) /\ Answered(t, "login", "ok", Len(rows) + 1)
      /\ UNCHANGED <<version, browser, tab, env, budget, history>>
  BY DEF ServeLogin
<1> HIDE DEF f
<1> QED BY <1>2, <1>3, <1>4, Revocations, Issued

\* A step of the backend that issues nothing.
LEMMA Withdrawn ==
    ASSUME TypeInv, Safe, NEW t \in Tabs, NEW k \in Kinds,
           NEW result \in {"ok", "unauthorized", "refused"},
           k # "logout" => result # "ok", Answered(t, k, result, 0),
           Shrunk(rows'), NEW S, S \subseteq 1..Len(rows), reused' = reused \cup S,
           \A f \in S : LiveOf(f)' = {},
           ended' \subseteq 1..Len(rows),
           UNCHANGED <<version, browser, tab, env, budget, leaving>>
    PROVE  TypeInv' /\ Safe'
<1>1. Len(rows) \in Nat
  BY DEF TypeInv, RowsTyped
<1>2. RowsTyped(rows') /\ Len(rows') = Len(rows)
  BY ShrunkTyped
<1>3. CallsUpTo(call', Len(rows))
  BY <1>1, AnsweredTyped
<1>4. reused' \subseteq 1..Len(rows)
  BY DEF TypeInv, RestTyped
<1>5. TypeInv'
  BY <1>1, <1>2, <1>3, <1>4, ServerTyped
<1>6. Safe'
  BY ShrunkSafe
<1> QED BY <1>5, <1>6

\* A used token ends its family before its family counts as reused.
LEMMA ServeRefreshKept ==
    ASSUME TypeInv, Safe, NEW t \in Tabs, ServeRefresh(t)
    PROVE  TypeInv' /\ Safe'
<1> DEFINE x == call[t]["refresh"]
           k == x.token
<1>0. "refresh" \in Kinds /\ k \in Token
  BY CallAt DEF Kinds
<1>1. UNCHANGED <<version, browser, tab, env, budget, ended, leaving>>
  BY DEF ServeRefresh
<1>2. ended' \subseteq 1..Len(rows)
  BY <1>1 DEF TypeInv, RestTyped
<1>3. ASSUME NEW result \in {"unauthorized", "refused"}, Answered(t, "refresh", result, 0),
             reused' = reused, Shrunk(rows')
      PROVE  TypeInv' /\ Safe'
  <2>1. \E S : S \subseteq 1..Len(rows) /\ reused' = reused \cup S /\ S = {}
    BY <1>3
  <2>2. PICK S : S \subseteq 1..Len(rows) /\ reused' = reused \cup S /\ S = {}
    BY <2>1
  <2>3. \A f \in S : LiveOf(f)' = {}
    BY <2>2
  <2>4. (result \in {"ok", "unauthorized", "refused"}) /\ result # "ok"
    BY <1>3
  <2> HIDE DEF x
  <2> QED BY <1>0, <1>1, <1>2, <1>3, <2>2, <2>3, <2>4, Withdrawn
<1>4. CASE k = 0 \/ ~ProofMatches(x)
  <2>1. rows' = rows /\ reused' = reused
        /\ (Answered(t, "refresh", "unauthorized", 0) \/ Answered(t, "refresh", "refused", 0))
    BY <1>4 DEF ServeRefresh
  <2> QED BY <1>3, <2>1, Revocations
<1>5. CASE k # 0 /\ ProofMatches(x)
  <2>0. k \in DOMAIN rows /\ rows[k].family \in 1..Len(rows)
    BY <1>0, <1>5, FamilyOf
  <2>1. CASE ~IsLive(k)
    <3> DEFINE S == {f \in {rows[k].family} : rows[k].replaced}
    <3>1. /\ rows' = RevokeFamily(rows[k].family) /\ reused' = reused \cup S
          /\ Answered(t, "refresh", "unauthorized", 0)
      BY <1>5, <2>1 DEF ServeRefresh, AfterReuse
    <3>2. S \subseteq 1..Len(rows)
      BY <2>0
    <3>3. \A f : f = rows[k].family => LiveOf(f)' = {}
      <4>1. /\ DOMAIN rows' = DOMAIN rows
            /\ \A j \in DOMAIN rows : rows'[j] = IF rows[j].family = rows[k].family
                                                 THEN [rows[j] EXCEPT !.revoked = TRUE]
                                                 ELSE rows[j]
        BY <3>1 DEF RevokeFamily
      <4>2. ASSUME NEW j \in DOMAIN rows, rows'[j].family = rows[k].family
            PROVE  rows'[j].revoked
        <5>1. rows[j] \in Row
          BY DEF TypeInv, RowsTyped
        <5> QED BY <4>1, <4>2, <5>1 DEF Row
      <4> QED BY <4>1, <4>2 DEF LiveOf, IsLive
    <3>4. \A f \in S : LiveOf(f)' = {}
      BY <3>3
    <3> HIDE DEF S, x
    <3> QED BY <1>0, <1>1, <1>2, <3>1, <3>2, <3>4, Revocations, Withdrawn
  <2>2. CASE IsLive(k) /\ (rows[k].expired \/ rows[k].version # version)
    <3>1. /\ rows' = RevokeRow(k) \/ rows' = RevokeFamily(rows[k].family)
          /\ reused' = reused /\ Answered(t, "refresh", "unauthorized", 0)
      BY <1>5, <2>2 DEF ServeRefresh
    <3> QED BY <1>3, <2>0, <3>1, Revocations
  <2>3. CASE IsLive(k) /\ ~rows[k].expired /\ rows[k].version = version
    <3> DEFINE old == [rows EXCEPT ![k].revoked = TRUE, ![k].replaced = TRUE]
               f == rows[k].family
    <3>1. /\ rows' = Append(old, NewRow(f)) /\ reused' = reused
          /\ Answered(t, "refresh", "ok", Len(rows) + 1)
      BY <1>5, <2>3 DEF ServeRefresh, Rotated
    <3>2. Shrunk(old)
      BY <2>0, Revocations
    <3>3. Len(rows) \in Nat
      BY DEF TypeInv, RowsTyped
    <3>4. f \in 1..Len(rows) + 1
      BY <2>0, <3>3
    <3>5. f \notin reused
      BY <2>0, <2>3 DEF Safe, ReuseEndsFamily, LiveOf
    <3>6. ASSUME NEW j \in DOMAIN rows, rows[j].family = f
          PROVE  old[j].revoked
      <4>1. rows \in Seq(Row) /\ rows[j] \in Row
        BY DEF TypeInv, RowsTyped
      <4>2. CASE j = k
        BY <2>0, <4>1, <4>2 DEF Row
      <4>3. CASE j # k
        <5>1. rows[j].revoked
          BY <2>0, <2>3, <3>6, <4>3 DEF Safe, OneLiveToken, IsLive
        <5> QED BY <3>2, <5>1 DEF Shrunk
      <4> QED BY <4>2, <4>3
    <3> HIDE DEF old, f, x
    <3> QED BY <1>1, <3>1, <3>2, <3>4, <3>5, <3>6, Issued DEF history
  <2> QED BY <2>1, <2>2, <2>3
<1> QED BY <1>4, <1>5

LEMMA ServeLogoutKept ==
    ASSUME TypeInv, Safe, NEW t \in Tabs, ServeLogout(t)
    PROVE  TypeInv' /\ Safe'
<1> DEFINE k == call[t]["logout"].token
<1>0. "logout" \in Kinds /\ k \in Token
  BY CallAt DEF Kinds
<1>1. UNCHANGED <<version, browser, tab, env, budget, reused, leaving>>
  BY DEF ServeLogout
<1>2. /\ rows' = rows \/ (k # 0 /\ rows' = RevokeRow(k))
      /\ ended' = ended \/ ended' = ended \cup ({Family(k)} \ {0})
      /\ Answered(t, "logout", "ok", 0) \/ Answered(t, "logout", "refused", 0)
  BY DEF ServeLogout, LogoutRevokes
<1>3. Shrunk(rows')
  BY <1>0, <1>2, Revocations, FamilyOf
<1>4. ended' \subseteq 1..Len(rows)
  <2>1. Family(k) \in Token /\ Len(rows) \in Nat
    BY <1>0, FamilyOf DEF TypeInv, RowsTyped
  <2>2. {Family(k)} \ {0} \subseteq 1..Len(rows)
    BY <2>1 DEF Token
  <2>3. ended \subseteq 1..Len(rows)
    BY DEF TypeInv, RestTyped
  <2> HIDE DEF k
  <2> QED BY <1>2, <2>2, <2>3
<1>5. reused' = reused \cup {} /\ {} \subseteq 1..Len(rows) /\ \A f \in {} : LiveOf(f)' = {}
  BY <1>1
<1> QED BY <1>0, <1>1, <1>2, <1>3, <1>4, <1>5, Withdrawn
-----------------------------------------------------------------------------
(* The environment. *)

LEMMA SpendTyped ==
    ASSUME TypeInv, NEW kind \in {"stale", "closed", "lost", "wrong", "changes"}, Spend(kind)
    PROVE  /\ budget' \in [{"stale", "closed", "lost", "wrong", "changes"} -> Nat]
           /\ env' = env
<1>1. budget \in [{"stale", "closed", "lost", "wrong", "changes"} -> Nat]
  BY DEF TypeInv, RestTyped
<1>2. budget[kind] - 1 \in Nat
  BY <1>1 DEF Spend
<1> QED BY <1>1, <1>2 DEF Spend

LEMMA EnvironmentTyped ==
    ASSUME TypeInv, Shrunk(rows'), CallsUpTo(call', Len(rows)), tab' \in [Tabs -> TabState],
           NEW kind \in {"stale", "closed", "lost", "wrong", "changes"}, Spend(kind),
           version' \in Nat, jar' \in Token, UNCHANGED <<stored, logoutPending, history>>
    PROVE  TypeInv'
<1>1. RowsTyped(rows') /\ Len(rows') = Len(rows)
  BY ShrunkTyped
<1>2. budget' \in [{"stale", "closed", "lost", "wrong", "changes"} -> Nat] /\ env' = env
  BY SpendTyped
<1>3. Token' = Token
  BY <1>1 DEF Token
<1>4. RestTyped'
  BY <1>1, <1>2, <1>3 DEF TypeInv, RestTyped, history
<1> QED BY <1>1, <1>4 DEF TypeInv, TabsTyped, TabState

LEMMA EnvironmentSafe ==
    ASSUME TypeInv, Safe, Shrunk(rows'), UNCHANGED history
    PROVE  Safe'
<1>1. reused' = reused
  BY DEF history
<1>2. PICK S : S = {}
  OBVIOUS
<1>3. reused' = reused \cup S /\ \A f \in S : LiveOf(f)' = {}
  BY <1>1, <1>2
<1> QED BY <1>3, ShrunkSafe

LEMMA TabEventKept ==
    ASSUME TypeInv, Safe, NEW t \in Tabs,
           \/ AccessExpires(t) \/ CloseTab(t) \/ RefuseLogin(t)
           \/ \E k \in Kinds : LoseAnswer(t, k)
    PROVE  TypeInv' /\ Safe'
<1>0. /\ CallsUpTo(call, Len(rows)) /\ tab \in [Tabs -> TabState] /\ Len(rows) \in Nat
      /\ version \in Nat /\ jar \in Token /\ stored \in Token /\ logoutPending \in BOOLEAN
      /\ Shrunk(rows)
  <2>1. Shrunk(rows)
    BY Revocations
  <2> QED BY <2>1, Unmoved DEF TypeInv, RowsTyped, RestTyped
<1>1. CASE AccessExpires(t)
  <2>1. tab' \in [Tabs -> TabState]
    BY <1>0, <1>1 DEF AccessExpires, TabState
  <2>2. UNCHANGED <<rows, version, jar, stored, logoutPending, call, history>> /\ Spend("stale")
    BY <1>1 DEF AccessExpires, server, browser
  <2> QED BY <1>0, <2>1, <2>2, EnvironmentTyped, EnvironmentSafe
<1>2. CASE CloseTab(t)
  <2>1. tab' \in [Tabs -> TabState]
    <3>1. [page |-> "closed", access |-> 0, stale |-> FALSE] \in TabState
      BY DEF TabState, Page
    <3> QED BY <1>0, <1>2, <3>1 DEF CloseTab
  <2>2. UNCHANGED <<rows, version, jar, stored, logoutPending, history>> /\ Spend("closed")
    BY <1>2 DEF CloseTab, server, browser
  <2>3. CallsUpTo(call', Len(rows))
    <3>1. Idle \in ExchangeUpTo(Len(rows)) /\ \A k \in Kinds : Sane(k, Idle)
      BY <1>0 DEF Idle, ExchangeUpTo, Sane
    <3>2. call' = [call EXCEPT ![t] = [k \in Kinds |-> Idle]]
      BY <1>2 DEF CloseTab
    <3> QED BY <1>0, <3>1, <3>2 DEF CallsUpTo
  <2> QED BY <1>0, <2>1, <2>2, <2>3, EnvironmentTyped, EnvironmentSafe
<1>3. ASSUME NEW k \in Kinds, LoseAnswer(t, k)
      PROVE  TypeInv' /\ Safe'
  <2> DEFINE x == [call[t][k] EXCEPT !.st = "arrived", !.result = "refused", !.issued = 0]
  <2>1. x \in ExchangeUpTo(Len(rows)) /\ Sane(k, x)
    <3>1. call[t][k] \in ExchangeUpTo(Len(rows))
      BY CallAt
    <3>2. 0 \in 0..Len(rows)
      BY <1>0
    <3> QED BY <3>1, <3>2 DEF ExchangeUpTo, Sane
  <2>2. call' = [call EXCEPT ![t][k] = x]
    <3>1. call' = [call EXCEPT ![t][k].st = "arrived", ![t][k].result = "refused",
                               ![t][k].issued = 0]
      BY <1>3 DEF LoseAnswer
    <3>2. call \in [Tabs -> [Kinds -> ExchangeUpTo(Len(rows))]]
      BY <1>0 DEF CallsUpTo
    <3> QED BY <3>1, <3>2
  <2>3. CallsUpTo(call', Len(rows))
    <3> HIDE DEF x
    <3>1. Len(rows) <= Len(rows)
      BY <1>0
    <3>2. CallsUpTo([call EXCEPT ![t][k] = x], Len(rows))
      BY <1>0, <2>1, <3>1, OneCall
    <3> QED BY <2>2, <3>2
  <2>4. UNCHANGED <<rows, version, jar, stored, logoutPending, tab, history>> /\ Spend("lost")
    BY <1>3 DEF LoseAnswer, server, browser
  <2> QED BY <1>0, <2>3, <2>4, EnvironmentTyped, EnvironmentSafe
<1>4. CASE RefuseLogin(t)
  <2>1. CallsUpTo(call', Len(rows))
    <3>1. "login" \in Kinds /\ Answered(t, "login", "unauthorized", 0)
      BY <1>4 DEF Kinds, RefuseLogin
    <3>2. Len(rows) <= Len(rows) /\ 0 \in 0..Len(rows)
      BY <1>0
    <3> QED BY <1>0, <3>1, <3>2, AnsweredTyped
  <2>2. UNCHANGED <<rows, version, jar, stored, logoutPending, tab, history>> /\ Spend("wrong")
    BY <1>4 DEF RefuseLogin, server, browser
  <2> QED BY <1>0, <2>1, <2>2, EnvironmentTyped, EnvironmentSafe
<1> QED BY <1>1, <1>2, <1>3, <1>4

LEMMA AccountEventKept ==
    ASSUME TypeInv, Safe, ChangeAccount \/ \E f \in DOMAIN rows : SessionExpires(f)
    PROVE  TypeInv' /\ Safe'
<1>0. /\ CallsUpTo(call, Len(rows)) /\ tab \in [Tabs -> TabState]
      /\ version \in Nat /\ jar \in Token /\ 0 \in Token
  BY Unmoved DEF TypeInv, RestTyped
<1>1. Shrunk(rows')
  <2>1. CASE ChangeAccount
    <3>1. OnRows(rows') /\ \A k \in DOMAIN rows : Aged(rows[k], rows'[k])
      BY <2>1, Zenon DEF ChangeAccount, OnRows, Aged
    <3> QED BY <3>1, ShrunkRows
  <2>2. ASSUME NEW f, SessionExpires(f)
        PROVE  Shrunk(rows')
    <3>1. rows' = [k \in DOMAIN rows |->
                      IF rows[k].family = f THEN [rows[k] EXCEPT !.expired = TRUE] ELSE rows[k]]
      BY <2>2 DEF SessionExpires
    <3>2. OnRows(rows') /\ \A k \in DOMAIN rows : Aged(rows[k], rows'[k])
      BY <3>1, Zenon DEF OnRows, Aged
    <3> QED BY <3>2, ShrunkRows
  <2> QED BY <2>1, <2>2
<1>2. /\ UNCHANGED <<stored, logoutPending, tab, call, history>> /\ Spend("changes")
      /\ version' \in Nat /\ jar' \in Token
  BY <1>0 DEF ChangeAccount, SessionExpires, browser
<1> QED BY <1>0, <1>1, <1>2, EnvironmentTyped, EnvironmentSafe
-----------------------------------------------------------------------------
LEMMA NextKept == TypeInv /\ Safe /\ [Next]_vars => TypeInv' /\ Safe'
<1> SUFFICES ASSUME TypeInv, Safe, [Next]_vars PROVE TypeInv' /\ Safe'
  OBVIOUS
<1>1. CASE UNCHANGED vars
  BY <1>1 DEF vars, server, browser, history, TypeInv, RestTyped, TabsTyped, Token,
              Safe, OneLiveToken, ReuseEndsFamily, IsLive, LiveOf
<1>2. ASSUME NEW t \in Tabs, OpenTab(t) \/ Login(t) \/ UseAccess(t) \/ Logout(t)
      PROVE  TypeInv' /\ Safe'
  BY <1>2, AskTyped, TabStepKept
<1>3. ASSUME NEW t \in Tabs, Serve(t)
      PROVE  TypeInv' /\ Safe'
  BY <1>3, ServeLoginKept, ServeRefreshKept, ServeLogoutKept DEF Serve
<1>4. ASSUME NEW t \in Tabs, Continue(t)
      PROVE  TypeInv' /\ Safe'
  BY <1>4, ArriveTyped, SignInTyped, ContinueTyped, TabStepKept DEF Continue
<1> QED BY <1>1, <1>2, <1>3, <1>4, TabEventKept, AccountEventKept DEF Next

LEMMA InitSafe == Init => Safe
BY DEF Init, Safe, OneLiveToken, ReuseEndsFamily

\* Every state is well formed: a tab that is signed in has a token that was issued,
\* and a family is named by a row that exists.
THEOREM TypeCorrect == Spec => []TypeOK
BY InitTyped, InitSafe, NextKept, TypeInvTypeOK, PTL DEF Spec

\* However many tabs refresh at once, a login has one live token at most.
THEOREM RotationKeepsOne == Spec => []OneLiveToken
<1>1. Safe => OneLiveToken
  BY DEF Safe
<1> QED BY <1>1, InitTyped, InitSafe, NextKept, PTL DEF Spec

\* A used token that comes back ends its login for good.
THEOREM ReuseIsCaught == Spec => []ReuseEndsFamily
<1>1. Safe => ReuseEndsFamily
  BY DEF Safe
<1> QED BY <1>1, InitTyped, InitSafe, NextKept, PTL DEF Spec
-----------------------------------------------------------------------------
(* Loading. *)

\* A closed tab has nothing under way.  A tab that loads has a refresh or a logout
\* under way, and no login: the form was never shown.
Busy(page, calls) ==
    /\ page = "closed" => \A k \in Kinds : calls[k].st = "idle"
    /\ page = "loading" => /\ calls["login"].st = "idle"
                           /\ \E k \in {"refresh", "logout"} : calls[k].st # "idle"

LoadInv == \A t \in Tabs : Busy(tab[t].page, call[t])

\* A step of one tab.
LEMMA LoadStep ==
    ASSUME LoadInv, NEW t \in Tabs,
           \A u \in Tabs : u # t => tab'[u] = tab[u] /\ call'[u] = call[u],
           Busy(tab'[t].page, call'[t])
    PROVE  LoadInv'
BY DEF LoadInv, Busy

\* An exchange that stays under way.
LEMMA LoadInFlight ==
    ASSUME TypeInv, LoadInv, NEW t \in Tabs, NEW k \in Kinds, call[t][k].st # "idle",
           tab' = tab, NEW x, x.st # "idle", call' = [call EXCEPT ![t][k] = x]
    PROVE  LoadInv'
<1>1. call \in [Tabs -> [Kinds -> ExchangeUpTo(Len(rows))]]
  BY DEF TypeInv, CallsUpTo
<1>2. /\ \A u \in Tabs : u # t => call'[u] = call[u]
      /\ \A j \in Kinds : call'[t][j] = IF j = k THEN x ELSE call[t][j]
  BY <1>1
<1>3. Busy(tab[t].page, call[t])
  BY DEF LoadInv
<1>4. Busy(tab'[t].page, call'[t])
  BY <1>2, <1>3 DEF Busy, Kinds
<1> QED BY <1>2, <1>4, LoadStep

LEMMA LoadCalls ==
    ASSUME TypeInv, LoadInv, NEW t \in Tabs,
           \/ Serve(t) \/ RefuseLogin(t)
           \/ \E k \in Kinds : Arrive(t, k) \/ LoseAnswer(t, k)
    PROVE  LoadInv'
<1>1. ASSUME NEW k \in Kinds, NEW result, NEW issued, call[t][k].st = "sent",
             Answered(t, k, result, issued), tab' = tab
      PROVE  LoadInv'
  <2> DEFINE x == [call[t][k] EXCEPT !.st = "answered", !.result = result, !.issued = issued]
  <2>1. call' = [call EXCEPT ![t][k] = x]
    BY <1>1 DEF Answered
  <2>2. x.st # "idle"
    BY CallAt DEF ExchangeUpTo
  <2> HIDE DEF x
  <2> QED BY <1>1, <2>1, <2>2, LoadInFlight
<1>2. CASE Serve(t)
  <2>1. tab' = tab
    BY <1>2 DEF Serve, ServeLogin, ServeRefresh, ServeLogout
  <2>2. \E k \in Kinds : \E result, issued :
            call[t][k].st = "sent" /\ Answered(t, k, result, issued)
    <3>1. "login" \in Kinds /\ "refresh" \in Kinds /\ "logout" \in Kinds
      BY DEF Kinds
    <3>2. CASE ServeLogin(t)
      BY <3>1, <3>2 DEF ServeLogin
    <3>3. CASE ServeRefresh(t)
      <4>1. \E result, issued : Answered(t, "refresh", result, issued)
        BY <3>3 DEF ServeRefresh
      <4> QED BY <3>1, <3>3, <4>1 DEF ServeRefresh
    <3>4. CASE ServeLogout(t)
      <4>1. \E result, issued : Answered(t, "logout", result, issued)
        BY <3>4 DEF ServeLogout
      <4> QED BY <3>1, <3>4, <4>1 DEF ServeLogout
    <3> QED BY <1>2, <3>2, <3>3, <3>4 DEF Serve
  <2> QED BY <1>1, <2>1, <2>2
<1>3. ASSUME NEW k \in Kinds, Arrive(t, k)
      PROVE  LoadInv'
  <2> DEFINE x == [call[t][k] EXCEPT !.st = "arrived"]
  <2>1. /\ call' = [call EXCEPT ![t][k] = x] /\ tab' = tab
        /\ call[t][k].st # "idle"
    BY <1>3 DEF Arrive
  <2>2. x.st # "idle"
    BY CallAt DEF ExchangeUpTo
  <2> HIDE DEF x
  <2> QED BY <2>1, <2>2, LoadInFlight
<1>4. ASSUME NEW k \in Kinds, LoseAnswer(t, k)
      PROVE  LoadInv'
  <2> DEFINE x == [call[t][k] EXCEPT !.st = "arrived", !.result = "refused", !.issued = 0]
  <2>1. call' = [call EXCEPT ![t][k] = x]
    <3>1. call' = [call EXCEPT ![t][k].st = "arrived", ![t][k].result = "refused",
                               ![t][k].issued = 0]
      BY <1>4 DEF LoseAnswer
    <3>2. call \in [Tabs -> [Kinds -> ExchangeUpTo(Len(rows))]]
      BY DEF TypeInv, CallsUpTo
    <3> QED BY <3>1, <3>2
  <2>2. tab' = tab /\ call[t][k].st # "idle"
    BY <1>4 DEF LoseAnswer
  <2>3. x.st # "idle"
    BY CallAt DEF ExchangeUpTo
  <2> HIDE DEF x
  <2> QED BY <2>1, <2>2, <2>3, LoadInFlight
<1>5. CASE RefuseLogin(t)
  BY <1>1, <1>5 DEF RefuseLogin, Kinds
<1> QED BY <1>2, <1>3, <1>4, <1>5

LEMMA LoadPages ==
    ASSUME TypeInv, LoadInv, NEW t \in Tabs,
           \/ OpenTab(t) \/ Login(t) \/ UseAccess(t) \/ Logout(t)
           \/ \E k \in Kinds : SignIn(t, k)
           \/ RefreshFails(t) \/ LoginFails(t) \/ LogoutReturns(t)
           \/ AccessExpires(t) \/ CloseTab(t)
    PROVE  LoadInv'
<1>1. /\ call \in [Tabs -> [Kinds -> ExchangeUpTo(Len(rows))]]
      /\ tab \in [Tabs -> TabState]
  BY DEF TypeInv, CallsUpTo, TabsTyped, TabState
<1>2. Busy(tab[t].page, call[t])
  BY DEF LoadInv
<1>3. \A u \in Tabs : u # t => tab'[u] = tab[u] /\ call'[u] = call[u]
  BY <1>1 DEF OpenTab, Login, UseAccess, Logout, SignIn, RefreshFails, LoginFails,
              LogoutReturns, AccessExpires, CloseTab, Sent, Refreshing, SignedOut,
              AfterFailedRefresh, LeavesLoading, Handled
<1>4. "login" \in Kinds /\ "refresh" \in Kinds /\ "logout" \in Kinds
  BY DEF Kinds
<1>5. CASE tab'[t].page \notin {"closed", "loading"}
  <2>1. Busy(tab'[t].page, call'[t])
    BY <1>5 DEF Busy
  <2> QED BY <1>3, <2>1, LoadStep
<1>6. CASE OpenTab(t)
  <2>1. \A k \in Kinds : call[t][k].st = "idle"
    BY <1>2, <1>6 DEF OpenTab, Busy
  <2>2. \A k \in Kinds : /\ Sent(t, k)[t][k].st = "sent"
                         /\ \A j \in Kinds \ {k} : Sent(t, k)[t][j] = call[t][j]
    <3>1. [Idle EXCEPT !.st = "sent", !.token = jar, !.csrf = Proof].st = "sent"
      BY DEF Idle
    <3> QED BY <1>1, <3>1 DEF Sent
  <2>3. tab'[t].page \in {"loading", "login"}
        /\ (tab'[t].page = "loading" =>
               call' = Sent(t, "logout") \/ call' = Sent(t, "refresh"))
    <3>1. Idles(t, "refresh")
      BY <1>4, <2>1 DEF Idles
    <3> QED BY <1>1, <1>6, <3>1 DEF OpenTab, Refreshing, TabState
  <2>4. Busy(tab'[t].page, call'[t])
    BY <1>4, <2>1, <2>2, <2>3 DEF Busy
  <2> QED BY <1>3, <2>4, LoadStep
<1>7. CASE CloseTab(t)
  <2>1. tab'[t].page = "closed" /\ \A k \in Kinds : call'[t][k].st = "idle"
    BY <1>1, <1>7 DEF CloseTab, Idle
  <2>2. Busy(tab'[t].page, call'[t])
    BY <2>1 DEF Busy
  <2> QED BY <1>3, <2>2, LoadStep
<1>8. CASE Login(t) \/ UseAccess(t) \/ Logout(t) \/ (\E k \in Kinds : SignIn(t, k))
           \/ RefreshFails(t) \/ AccessExpires(t)
  <2>1. tab'[t].page \in {"login", "in"}
    BY <1>1, <1>8 DEF Login, UseAccess, Logout, SignIn, RefreshFails, AccessExpires,
                      SignedOut, AfterFailedRefresh, TabState
  <2> QED BY <1>5, <2>1
<1>9. CASE LoginFails(t)
  <2>1. call[t]["login"].st # "idle"
    BY <1>9 DEF LoginFails
  <2>2. tab[t].page \notin {"closed", "loading"}
    BY <1>2, <1>4, <2>1 DEF Busy
  <2>3. tab'[t].page = tab[t].page \/ tab'[t].page = "login"
    BY <1>1, <1>9 DEF LoginFails, SignedOut, TabState
  <2> QED BY <1>5, <2>2, <2>3
<1>10. CASE LogoutReturns(t)
  <2>1. tab[t].page # "closed"
    BY <1>2, <1>4, <1>10 DEF LogoutReturns, Busy
  <2>2. tab'[t].page = IF tab[t].page = "loading" THEN "login" ELSE tab[t].page
    BY <1>1, <1>10 DEF LogoutReturns, LeavesLoading, TabState
  <2> QED BY <1>5, <2>1, <2>2
<1> QED BY <1>6, <1>7, <1>8, <1>9, <1>10

LEMMA LoadKept == TypeInv /\ LoadInv /\ [Next]_vars => LoadInv'
<1> SUFFICES ASSUME TypeInv, LoadInv, [Next]_vars PROVE LoadInv'
  OBVIOUS
<1>1. CASE UNCHANGED <<tab, call>>
  BY <1>1 DEF LoadInv, Busy
<1>2. CASE ChangeAccount \/ \E f \in DOMAIN rows : SessionExpires(f)
  BY <1>1, <1>2 DEF ChangeAccount, SessionExpires
<1>3. CASE UNCHANGED vars
  BY <1>1, <1>3 DEF vars
<1> QED BY <1>2, <1>3, LoadCalls, LoadPages DEF Next, Continue

LEMMA InitLoad == Init => LoadInv
BY DEF Init, LoadInv, Busy, Idle

\* A tab never loads for ever for want of an answer: whatever was lost or reloaded,
\* a loading tab has a request under way.
THEOREM LoadingIsWaiting == Spec => []LoadingWaits
<1>1. LoadInv => LoadingWaits
  BY DEF LoadInv, Busy, LoadingWaits, Idles, Kinds
<1> QED BY <1>1, InitTyped, InitSafe, NextKept, InitLoad, LoadKept, PTL DEF Spec
-----------------------------------------------------------------------------
(* One tab.  The surroundings in which a browser has one tab at a time: the  *)
(* tab that acts is alone, and every other tab is closed and waits for       *)
(* nothing.                                                                  *)

OneOpen ==
    env.tabs = 1 =>
        \A t, u \in Tabs : tab[t].page # "closed" /\ tab[u].page # "closed" => t = u

\* A logout is not answered with a token.
LogoutsIssueNothing == \A t \in Tabs : call[t]["logout"].issued = 0

OneTab == OneOpen /\ LogoutsIssueNothing

Alone(t) == /\ \A u \in Tabs : u # t => /\ tab[u].page = "closed"
                                        /\ \A k \in Kinds : call[u][k].st = "idle"
            /\ tab[t].page = "closed" => \A k \in Kinds : call[t][k].st = "idle"

TabStep(t) ==
    \/ OpenTab(t) \/ Login(t) \/ UseAccess(t) \/ Logout(t)
    \/ Serve(t) \/ Continue(t)
    \/ AccessExpires(t) \/ CloseTab(t) \/ RefuseLogin(t)
    \/ \E k \in Kinds : LoseAnswer(t, k)

\* One exchange of a tab becomes x.
Becomes(t, k, x) ==
    /\ \A j \in Kinds : call'[t][j] = IF j = k THEN x ELSE call[t][j]
    /\ \A u \in Tabs : u # t => call'[u] = call[u]

LEMMA CallBecomes ==
    ASSUME TypeInv, NEW t \in Tabs, NEW k \in Kinds, NEW x, call' = [call EXCEPT ![t][k] = x]
    PROVE  Becomes(t, k, x)
<1>1. call \in [Tabs -> [Kinds -> ExchangeUpTo(Len(rows))]]
  BY DEF TypeInv, CallsUpTo
<1> QED BY <1>1 DEF Becomes

SentNow == [Idle EXCEPT !.st = "sent", !.token = jar, !.csrf = Proof]

LEMMA SentBecomes ==
    ASSUME TypeInv, NEW t \in Tabs, NEW k \in Kinds, call' = Sent(t, k)
    PROVE  Becomes(t, k, SentNow)
<1>1. call' = [call EXCEPT ![t][k] = SentNow]
  BY DEF Sent, SentNow
<1> QED BY <1>1, CallBecomes

LEMMA SentFields ==
    /\ SentNow.st = "sent" /\ SentNow.token = jar /\ SentNow.result = "open"
    /\ SentNow.issued = 0
    /\ Idle.st = "idle" /\ Idle.issued = 0
BY DEF SentNow, Idle

LEMMA HandledBecomes ==
    ASSUME TypeInv, NEW t \in Tabs, NEW k \in Kinds, call' = Handled(t, k)
    PROVE  Becomes(t, k, Idle)
BY CallBecomes DEF Handled

\* The exchange, once it was answered, arrived or was lost.
LEMMA AnswerBecomes ==
    ASSUME TypeInv, NEW t \in Tabs, NEW k \in Kinds, NEW result, NEW issued,
           Answered(t, k, result, issued)
    PROVE  \E x : /\ Becomes(t, k, x) /\ x.st = "answered" /\ x.token = call[t][k].token
                  /\ x.result = result /\ x.issued = issued
<1> DEFINE x == [call[t][k] EXCEPT !.st = "answered", !.result = result, !.issued = issued]
<1>1. call' = [call EXCEPT ![t][k] = x]
  BY DEF Answered
<1>2. /\ x.st = "answered" /\ x.token = call[t][k].token
      /\ x.result = result /\ x.issued = issued
  BY CallAt DEF ExchangeUpTo
<1> HIDE DEF x
<1>3. Becomes(t, k, x)
  BY <1>1, CallBecomes
<1> QED BY <1>2, <1>3

LEMMA ArrivalBecomes ==
    ASSUME TypeInv, NEW t \in Tabs, NEW k \in Kinds, Arrive(t, k)
    PROVE  \E x : /\ Becomes(t, k, x) /\ x.st = "arrived" /\ x.token = call[t][k].token
                  /\ x.result = call[t][k].result /\ x.issued = call[t][k].issued
<1> DEFINE x == [call[t][k] EXCEPT !.st = "arrived"]
<1>1. call' = [call EXCEPT ![t][k] = x]
  BY DEF Arrive
<1>2. /\ x.st = "arrived" /\ x.token = call[t][k].token
      /\ x.result = call[t][k].result /\ x.issued = call[t][k].issued
  BY CallAt DEF ExchangeUpTo
<1> HIDE DEF x
<1>3. Becomes(t, k, x)
  BY <1>1, CallBecomes
<1> QED BY <1>2, <1>3

LEMMA LossBecomes ==
    ASSUME TypeInv, NEW t \in Tabs, NEW k \in Kinds, LoseAnswer(t, k)
    PROVE  \E x : /\ Becomes(t, k, x) /\ x.st = "arrived" /\ x.result = "refused"
                  /\ x.issued = 0
<1> DEFINE x == [call[t][k] EXCEPT !.st = "arrived", !.result = "refused", !.issued = 0]
<1>1. call' = [call EXCEPT ![t][k] = x]
  <2>1. call' = [call EXCEPT ![t][k].st = "arrived", ![t][k].result = "refused",
                             ![t][k].issued = 0]
    BY DEF LoseAnswer
  <2>2. call \in [Tabs -> [Kinds -> ExchangeUpTo(Len(rows))]]
    BY DEF TypeInv, CallsUpTo
  <2> QED BY <2>1, <2>2
<1>2. x.st = "arrived" /\ x.result = "refused" /\ x.issued = 0
  BY CallAt DEF ExchangeUpTo
<1> HIDE DEF x
<1>3. Becomes(t, k, x)
  BY <1>1, CallBecomes
<1> QED BY <1>2, <1>3

LEMMA ServeAnswers ==
    ASSUME TypeInv, NEW t \in Tabs, Serve(t)
    PROVE  \/ Answered(t, "login", "ok", Len(rows) + 1)
           \/ \E result, issued : Answered(t, "refresh", result, issued)
           \/ \E result : Answered(t, "logout", result, 0)
BY DEF Serve, ServeLogin, ServeRefresh, ServeLogout

\* A tab's step is its own, and leaves the surroundings alone.
LEMMA OthersKept ==
    ASSUME TypeInv, NEW t \in Tabs, TabStep(t)
    PROVE  /\ \A u \in Tabs : u # t => tab'[u] = tab[u] /\ call'[u] = call[u]
           /\ env' = env
<1>0. "login" \in Kinds /\ "refresh" \in Kinds /\ "logout" \in Kinds
  BY DEF Kinds
<1>1. /\ call \in [Tabs -> [Kinds -> ExchangeUpTo(Len(rows))]]
      /\ tab \in [Tabs -> TabState]
  BY DEF TypeInv, CallsUpTo, TabsTyped, TabState
<1>2. CASE Serve(t)
  <2>1. tab' = tab /\ env' = env
    BY <1>2 DEF Serve, ServeLogin, ServeRefresh, ServeLogout
  <2> QED BY <1>0, <1>2, <2>1, ServeAnswers, AnswerBecomes DEF Becomes
<1>3. ASSUME NEW k \in Kinds, Arrive(t, k) \/ LoseAnswer(t, k)
      PROVE  /\ \A u \in Tabs : u # t => tab'[u] = tab[u] /\ call'[u] = call[u]
             /\ env' = env
  <2>1. tab' = tab /\ env' = env
    BY <1>3 DEF Arrive, LoseAnswer, Spend
  <2> QED BY <1>3, <2>1, ArrivalBecomes, LossBecomes DEF Becomes
<1>4. CASE \/ OpenTab(t) \/ Login(t) \/ UseAccess(t) \/ Logout(t)
           \/ \E k \in Kinds : SignIn(t, k)
           \/ RefreshFails(t) \/ LoginFails(t) \/ LogoutReturns(t)
           \/ AccessExpires(t) \/ CloseTab(t)
  BY <1>1, <1>4 DEF OpenTab, Login, UseAccess, Logout, SignIn, RefreshFails, LoginFails,
              LogoutReturns, AccessExpires, CloseTab, Sent, Refreshing, SignedOut,
              AfterFailedRefresh, LeavesLoading, Handled, Spend
<1>5. CASE RefuseLogin(t)
  <2>1. tab' = tab /\ env' = env
    BY <1>5 DEF RefuseLogin, Spend
  <2>2. Answered(t, "login", "unauthorized", 0)
    BY <1>5 DEF RefuseLogin
  <2> QED BY <1>0, <2>1, <2>2, AnswerBecomes DEF Becomes
<1> QED BY <1>2, <1>3, <1>4, <1>5 DEF TabStep, Continue

LEMMA ActsOpen ==
    ASSUME TypeInv, LoadInv, NEW t \in Tabs, TabStep(t), ~OpenTab(t)
    PROVE  tab[t].page # "closed"
<1>0. "login" \in Kinds /\ "refresh" \in Kinds /\ "logout" \in Kinds
  BY DEF Kinds
<1>1. tab[t].page = "closed" => \A k \in Kinds : call[t][k].st = "idle"
  BY DEF LoadInv, Busy
<1>2. CASE Login(t) \/ UseAccess(t) \/ Logout(t) \/ AccessExpires(t) \/ CloseTab(t)
  BY <1>2 DEF Login, UseAccess, Logout, AccessExpires, CloseTab
<1>3. CASE Serve(t)
  BY <1>0, <1>1, <1>3 DEF Serve, ServeLogin, ServeRefresh, ServeLogout
<1>4. CASE Continue(t)
  BY <1>0, <1>1, <1>4 DEF Continue, Arrive, SignIn, RefreshFails, LoginFails, LogoutReturns
<1>5. CASE RefuseLogin(t) \/ \E k \in Kinds : LoseAnswer(t, k)
  BY <1>0, <1>1, <1>5 DEF RefuseLogin, LoseAnswer
<1> QED BY <1>2, <1>3, <1>4, <1>5 DEF TabStep

LEMMA ActsAlone ==
    ASSUME TypeInv, LoadInv, OneOpen, env.tabs = 1, NEW t \in Tabs, TabStep(t)
    PROVE  Alone(t)
<1>1. \A u \in Tabs : tab[u].page = "closed" => \A k \in Kinds : call[u][k].st = "idle"
  BY DEF LoadInv, Busy
<1>2. ASSUME NEW u \in Tabs, u # t, tab[u].page # "closed"
      PROVE  FALSE
  <2>1. CASE OpenTab(t)
    <3> DEFINE S == {w \in Tabs : tab[w].page # "closed"}
    <3>1. S = {u}
      BY <1>2 DEF OneOpen
    <3>2. Cardinality(S) = 1
      BY <3>1, FS_Singleton
    <3>3. Cardinality(S) < 1
      BY <2>1 DEF OpenTab
    <3> HIDE DEF S
    <3> QED BY <3>2, <3>3
  <2>2. CASE ~OpenTab(t)
    <3>1. tab[t].page # "closed"
      BY <2>2, ActsOpen
    <3> QED BY <1>2, <3>1 DEF OneOpen
  <2> QED BY <2>1, <2>2
<1> QED BY <1>1, <1>2 DEF Alone

LEMMA OneOpenKept ==
    ASSUME TypeInv, LoadInv, OneOpen, NEW t \in Tabs, TabStep(t)
    PROVE  OneOpen'
<1> SUFFICES ASSUME env.tabs = 1 PROVE OneOpen'
  BY OthersKept DEF OneOpen
<1>1. Alone(t)
  BY ActsAlone
<1>2. \A u \in Tabs : u # t => tab'[u].page = "closed"
  BY <1>1, OthersKept DEF Alone
<1> QED BY <1>2 DEF OneOpen

LEMMA LogoutsKept ==
    ASSUME TypeInv, LogoutsIssueNothing, NEW t \in Tabs, TabStep(t)
    PROVE  LogoutsIssueNothing'
<1>0. "login" \in Kinds /\ "refresh" \in Kinds /\ "logout" \in Kinds
  BY DEF Kinds
<1> SUFFICES call'[t]["logout"].issued = 0
  BY OthersKept DEF LogoutsIssueNothing
<1>1. ASSUME NEW k \in Kinds, NEW x, Becomes(t, k, x), k = "logout" => x.issued = 0
      PROVE  call'[t]["logout"].issued = 0
  BY <1>0, <1>1 DEF Becomes, LogoutsIssueNothing
<1>2. SentNow.issued = 0 /\ Idle.issued = 0
  BY SentFields
<1>3. CASE call' = call
  BY <1>3 DEF LogoutsIssueNothing
<1>4. ASSUME NEW k \in Kinds, call' = Sent(t, k) \/ call' = Handled(t, k)
      PROVE  call'[t]["logout"].issued = 0
  BY <1>1, <1>2, <1>4, SentBecomes, HandledBecomes
<1>5. CASE OpenTab(t) \/ Login(t) \/ UseAccess(t) \/ Logout(t)
  BY <1>0, <1>3, <1>4, <1>5 DEF OpenTab, Login, UseAccess, Logout, Refreshing
<1>6. CASE Serve(t)
  <2>1. ASSUME NEW k \in Kinds, NEW result, NEW issued, Answered(t, k, result, issued),
               k = "logout" => issued = 0
        PROVE  call'[t]["logout"].issued = 0
    BY <1>1, <2>1, AnswerBecomes
  <2> QED BY <1>0, <1>6, <2>1, ServeAnswers
<1>7. ASSUME NEW k \in Kinds, Arrive(t, k) \/ LoseAnswer(t, k)
      PROVE  call'[t]["logout"].issued = 0
  <2>1. k = "logout" => call[t][k].issued = 0
    BY DEF LogoutsIssueNothing
  <2> QED BY <1>1, <1>7, <2>1, ArrivalBecomes, LossBecomes
<1>8. ASSUME NEW k \in Kinds, SignIn(t, k)
      PROVE  call'[t]["logout"].issued = 0
  BY <1>4, <1>8 DEF SignIn
<1>9. CASE RefreshFails(t) \/ LoginFails(t) \/ LogoutReturns(t) \/ AccessExpires(t)
  BY <1>0, <1>3, <1>4, <1>9 DEF RefreshFails, LoginFails, LogoutReturns, AccessExpires
<1>10. CASE CloseTab(t)
  <2>1. call' = [call EXCEPT ![t] = [k \in Kinds |-> Idle]] /\ DOMAIN call = Tabs
    BY <1>10 DEF CloseTab, TypeInv, CallsUpTo
  <2> QED BY <1>0, <1>2, <2>1
<1>11. CASE RefuseLogin(t)
  <2>1. Answered(t, "login", "unauthorized", 0)
    BY <1>11 DEF RefuseLogin
  <2> QED BY <1>0, <1>1, <2>1, AnswerBecomes
<1> QED BY <1>5, <1>6, <1>7, <1>8, <1>9, <1>10, <1>11 DEF TabStep, Continue
-----------------------------------------------------------------------------
(* No false alarm.  One tab that is not disturbed presents a replaced token  *)
(* to nobody: the jar holds one only while the answer that brings the next   *)
(* is on its way, and the tab sends no refresh meanwhile.                    *)

Undisturbed == env.tabs = 1 /\ env.closed = 0 /\ env.lost = 0

ReplacedIn(r, k) == k # 0 /\ r[k].replaced

\* The tokens under way are not replaced ones, and the token of a login is its own.
FreshCalls(c, r, j) ==
    /\ c["refresh"].st = "sent" => ~ReplacedIn(r, c["refresh"].token)
    /\ c["refresh"].st = "answered" => ~ReplacedIn(r, c["refresh"].issued)
    /\ c["login"].st = "answered" =>
          /\ ~ReplacedIn(r, c["login"].issued)
          /\ c["login"].issued # 0 =>
                c["login"].issued \notin {j, c["refresh"].token, c["refresh"].issued}

Awaits(c) == c["refresh"].st = "answered" /\ c["refresh"].result = "ok"

Fresh(c, r, j) == FreshCalls(c, r, j) /\ (ReplacedIn(r, j) => Awaits(c))

Quiet == reused = {} /\ budget["closed"] = 0 /\ budget["lost"] = 0

Calm ==
    Undisturbed =>
        /\ Quiet
        /\ \A t \in Tabs : FreshCalls(call[t], rows, jar)
        /\ ReplacedIn(rows, jar) => \E t \in Tabs : Awaits(call[t])

\* What a step of a lone tab finds, and what it must leave.
LEMMA CalmFound ==
    ASSUME Calm, Undisturbed, NEW t \in Tabs, Alone(t)
    PROVE  Quiet /\ Fresh(call[t], rows, jar)
<1>1. "refresh" \in Kinds
  BY DEF Kinds
<1> QED BY <1>1 DEF Calm, Alone, Fresh, Awaits

LEMMA CalmLeft ==
    ASSUME TypeInv, NEW t \in Tabs, TabStep(t), Alone(t), Quiet',
           Fresh(call'[t], rows', jar')
    PROVE  Calm'
<1>1. "refresh" \in Kinds /\ "login" \in Kinds
  BY DEF Kinds
<1>2. \A u \in Tabs : u # t => /\ call'[u] = call[u]
                               /\ call[u]["refresh"].st = "idle"
                               /\ call[u]["login"].st = "idle"
  BY <1>1, OthersKept DEF Alone
<1>3. \A u \in Tabs : FreshCalls(call'[u], rows', jar')
  BY <1>2 DEF Fresh, FreshCalls
<1> QED BY <1>3 DEF Calm, Fresh

\* Rows whose marks stay.
MarksKept == \A k \in Token : ReplacedIn(rows', k) <=> ReplacedIn(rows, k)

\* What a call of the tab brings to its exchange and the jar, rows unmarked.
LEMMA FreshExchange ==
    ASSUME TypeInv, NEW t \in Tabs, Fresh(call[t], rows, jar), MarksKept, jar' \in {0, jar},
           NEW k \in Kinds, NEW x, Becomes(t, k, x), x.st # "answered",
           k = "refresh" => ~Awaits(call[t]),
           k = "refresh" /\ x.st = "sent" => x.token = jar /\ x.issued = 0,
           k = "refresh" /\ x.st # "sent" => /\ x.token \in {0, call[t][k].token}
                                             /\ x.issued \in {0, call[t][k].issued}
    PROVE  Fresh(call'[t], rows', jar')
<1>0. "login" \in Kinds /\ "refresh" \in Kinds /\ "logout" \in Kinds
  BY DEF Kinds
<1>1. /\ \A j \in Kinds : call[t][j].token \in Token /\ call[t][j].issued \in Token
      /\ jar \in Token /\ 0 \in Token
  BY CallAt, Unmoved
<1>2. ~ReplacedIn(rows', 0)
  BY DEF ReplacedIn
<1>3. /\ ReplacedIn(rows', jar') => ReplacedIn(rows, jar)
      /\ \A j \in Kinds : /\ ReplacedIn(rows', call[t][j].token)
                             <=> ReplacedIn(rows, call[t][j].token)
                          /\ ReplacedIn(rows', call[t][j].issued)
                             <=> ReplacedIn(rows, call[t][j].issued)
  BY <1>1, <1>2 DEF MarksKept
<1>4. CASE k = "login"
  <2>1. call'[t]["refresh"] = call[t]["refresh"] /\ call'[t]["login"] = x
    BY <1>0, <1>4 DEF Becomes
  <2> QED BY <1>0, <1>3, <2>1 DEF Fresh, FreshCalls, Awaits
<1>5. CASE k = "logout"
  <2>1. call'[t]["refresh"] = call[t]["refresh"] /\ call'[t]["login"] = call[t]["login"]
    BY <1>0, <1>5 DEF Becomes
  <2> QED BY <1>0, <1>3, <2>1 DEF Fresh, FreshCalls, Awaits
<1>6. CASE k = "refresh"
  <2>1. call'[t]["refresh"] = x /\ call'[t]["login"] = call[t]["login"]
    BY <1>0, <1>6 DEF Becomes
  <2>2. ~ReplacedIn(rows, jar) /\ ~ReplacedIn(rows', jar')
    BY <1>3, <1>6 DEF Fresh
  <2>3. ~ReplacedIn(rows', jar)
    BY <1>1, <2>2 DEF MarksKept
  <2> QED BY <1>0, <1>3, <1>6, <2>1, <2>2, <2>3 DEF Fresh, FreshCalls, Awaits
<1> QED BY <1>4, <1>5, <1>6 DEF Kinds

LEMMA FreshSame ==
    ASSUME TypeInv, NEW t \in Tabs, Fresh(call[t], rows, jar), MarksKept, jar' \in {0, jar},
           call'[t] = call[t]
    PROVE  Fresh(call'[t], rows', jar')
<1>0. "login" \in Kinds /\ "refresh" \in Kinds
  BY DEF Kinds
<1>1. /\ \A j \in Kinds : call[t][j].token \in Token /\ call[t][j].issued \in Token
      /\ jar \in Token
  BY CallAt, Unmoved
<1>2. ~ReplacedIn(rows', 0)
  BY DEF ReplacedIn
<1> QED BY <1>0, <1>1, <1>2 DEF Fresh, FreshCalls, Awaits, MarksKept

LEMMA SameMarks ==
    ASSUME TypeInv
    PROVE  /\ UNCHANGED rows => MarksKept
           /\ \A k \in DOMAIN rows : rows' = RevokeRow(k) => MarksKept
           /\ \A f : rows' = RevokeFamily(f) => MarksKept
           /\ \A f : rows' = [k \in DOMAIN rows |->
                   IF rows[k].family = f THEN [rows[k] EXCEPT !.expired = TRUE] ELSE rows[k]]
                => MarksKept
           /\ rows' = [k \in DOMAIN rows |-> [rows[k] EXCEPT !.revoked = TRUE]] => MarksKept
<1>1. \A k \in Token : k # 0 => k \in DOMAIN rows /\ rows[k] \in Row
  BY FamilyOf
<1>2. ASSUME DOMAIN rows' = DOMAIN rows,
             \A k \in DOMAIN rows : rows[k] \in Row => rows'[k].replaced = rows[k].replaced
      PROVE  MarksKept
  BY <1>1, <1>2 DEF MarksKept, ReplacedIn
<1>3. ASSUME NEW k \in DOMAIN rows, rows' = RevokeRow(k)
      PROVE  MarksKept
  <2>1. DOMAIN rows' = DOMAIN rows
    BY <1>3 DEF RevokeRow
  <2>2. ASSUME NEW j \in DOMAIN rows, rows[j] \in Row
        PROVE  rows'[j].replaced = rows[j].replaced
    BY <1>3, <2>2 DEF RevokeRow, Row
  <2> QED BY <1>2, <2>1, <2>2
<1>4. ASSUME NEW f, rows' = RevokeFamily(f)
      PROVE  MarksKept
  BY <1>2, <1>4 DEF RevokeFamily, Row
<1>5. ASSUME NEW f, rows' = [k \in DOMAIN rows |->
                   IF rows[k].family = f THEN [rows[k] EXCEPT !.expired = TRUE] ELSE rows[k]]
      PROVE  MarksKept
  BY <1>2, <1>5 DEF Row
<1>6. ASSUME rows' = [k \in DOMAIN rows |-> [rows[k] EXCEPT !.revoked = TRUE]]
      PROVE  MarksKept
  BY <1>2, <1>6 DEF Row
<1> QED BY <1>2, <1>3, <1>4, <1>5, <1>6 DEF MarksKept

\* A row that is appended is new, and not replaced.
LEMMA AppendedRow ==
    ASSUME TypeInv, NEW old, Shrunk(old), NEW f \in Nat, rows' = Append(old, NewRow(f))
    PROVE  /\ Len(rows) + 1 \notin Token /\ Len(rows) + 1 # 0
           /\ \A k \in Token : k # 0 => rows'[k] = old[k]
           /\ rows'[Len(rows) + 1] = NewRow(f)
           /\ ~ReplacedIn(rows', Len(rows) + 1)
<1>1. Len(rows) \in Nat /\ old \in Seq(Row) /\ Len(old) = Len(rows)
  BY ShrunkTyped DEF TypeInv, RowsTyped, Shrunk
<1>2. rows'[Len(rows) + 1] = NewRow(f) /\ \A k \in 1..Len(rows) : rows'[k] = old[k]
  <2> DEFINE w == NewRow(f)
  <2>1. rows' = Append(old, w) /\ w \in Row
    BY DEF NewRow, Row, TypeInv, RestTyped
  <2> HIDE DEF w
  <2>2. /\ Append(old, w)[Len(rows) + 1] = w
        /\ \A k \in 1..Len(rows) : Append(old, w)[k] = old[k]
    BY <1>1, <2>1
  <2> QED BY <2>1, <2>2 DEF w
<1>3. NewRow(f).replaced = FALSE
  BY DEF NewRow
<1> QED BY <1>1, <1>2, <1>3 DEF Token, ReplacedIn

LEMMA CalmAsk ==
    ASSUME TypeInv, NEW t \in Tabs, Alone(t), Fresh(call[t], rows, jar),
           OpenTab(t) \/ Login(t) \/ UseAccess(t) \/ Logout(t)
    PROVE  Fresh(call'[t], rows', jar')
<1>0. "login" \in Kinds /\ "refresh" \in Kinds /\ "logout" \in Kinds
  BY DEF Kinds
<1>1. UNCHANGED <<rows, jar>>
  BY DEF OpenTab, Login, UseAccess, Logout, server, browser
<1>2. MarksKept /\ jar' \in {0, jar}
  BY <1>1, SameMarks
<1>3. CASE call' = call
  BY <1>2, <1>3, FreshSame
<1>4. ASSUME NEW k \in Kinds, call' = Sent(t, k), k = "refresh" => Idles(t, k)
      PROVE  Fresh(call'[t], rows', jar')
  <2>1. Becomes(t, k, SentNow) /\ SentNow.st = "sent" /\ SentNow.token = jar
        /\ SentNow.issued = 0
    BY <1>4, SentBecomes, SentFields
  <2>2. k = "refresh" => ~Awaits(call[t])
    BY <1>4 DEF Idles, Awaits
  <2> QED BY <1>2, <2>1, <2>2, FreshExchange
<1>5. CASE OpenTab(t)
  <2>1. tab[t].page = "closed"
    BY <1>5 DEF OpenTab
  <2>2. Idles(t, "refresh")
    BY <1>0, <2>1 DEF Alone, Idles
  <2> QED BY <1>0, <1>3, <1>4, <1>5, <2>2 DEF OpenTab, Refreshing
<1>6. CASE Login(t) \/ UseAccess(t) \/ Logout(t)
  BY <1>0, <1>3, <1>4, <1>6 DEF Login, UseAccess, Logout, Refreshing
<1> QED BY <1>5, <1>6

LEMMA CalmHandle ==
    ASSUME TypeInv, NEW t \in Tabs, Fresh(call[t], rows, jar),
           \/ \E k \in Kinds : SignIn(t, k)
           \/ RefreshFails(t) \/ LoginFails(t) \/ LogoutReturns(t) \/ AccessExpires(t)
    PROVE  Fresh(call'[t], rows', jar')
<1>0. "login" \in Kinds /\ "refresh" \in Kinds /\ "logout" \in Kinds
  BY DEF Kinds
<1>1. UNCHANGED <<rows, jar>>
  BY DEF SignIn, RefreshFails, LoginFails, LogoutReturns, AccessExpires, server, browser
<1>2. MarksKept /\ jar' \in {0, jar}
  BY <1>1, SameMarks
<1>3. ASSUME NEW k \in Kinds, call[t][k].st = "arrived", call' = Handled(t, k)
      PROVE  Fresh(call'[t], rows', jar')
  <2>1. Becomes(t, k, Idle) /\ Idle.st = "idle" /\ Idle.token = 0 /\ Idle.issued = 0
    BY <1>3, HandledBecomes DEF Idle
  <2>2. k = "refresh" => ~Awaits(call[t])
    BY <1>3 DEF Awaits
  <2> QED BY <1>2, <2>1, <2>2, FreshExchange
<1>4. CASE AccessExpires(t)
  BY <1>2, <1>4, FreshSame DEF AccessExpires
<1>5. ASSUME NEW k \in Kinds, SignIn(t, k)
      PROVE  Fresh(call'[t], rows', jar')
  BY <1>3, <1>5 DEF SignIn
<1>6. CASE RefreshFails(t) \/ LoginFails(t) \/ LogoutReturns(t)
  BY <1>0, <1>3, <1>6 DEF RefreshFails, LoginFails, LogoutReturns
<1> QED BY <1>4, <1>5, <1>6

LEMMA CalmArrive ==
    ASSUME TypeInv, LogoutsIssueNothing, NEW t \in Tabs, Fresh(call[t], rows, jar),
           NEW k \in Kinds, Arrive(t, k)
    PROVE  Fresh(call'[t], rows', jar')
<1>0. "login" \in Kinds /\ "refresh" \in Kinds /\ "logout" \in Kinds
  BY DEF Kinds
<1>1. PICK x : /\ Becomes(t, k, x) /\ x.st = "arrived" /\ x.token = call[t][k].token
               /\ x.result = call[t][k].result /\ x.issued = call[t][k].issued
  BY ArrivalBecomes
<1>2. /\ UNCHANGED rows /\ MarksKept /\ call[t][k].st = "answered"
      /\ Sane(k, call[t][k])
  BY SameMarks, CallAt DEF Arrive, server
<1>3. CASE jar' \in {0, jar} /\ (k = "refresh" => ~Awaits(call[t]))
  BY <1>1, <1>2, <1>3, FreshExchange
<1>4. CASE k = "refresh" /\ Awaits(call[t])
  <2>1. jar' = call[t][k].issued
    BY <1>2, <1>4 DEF Arrive, Awaits, Sane
  <2>2. call'[t]["refresh"] = x /\ call'[t]["login"] = call[t]["login"]
    BY <1>0, <1>1, <1>4 DEF Becomes
  <2> QED BY <1>1, <1>2, <1>4, <2>1, <2>2 DEF Fresh, FreshCalls
<1>5. CASE k = "refresh" /\ ~Awaits(call[t]) /\ call[t][k].issued # 0
  <2>1. jar' \in {0, call[t][k].issued} /\ ~ReplacedIn(rows', 0)
    BY <1>5 DEF Arrive, ReplacedIn
  <2>2. call'[t]["refresh"] = x /\ call'[t]["login"] = call[t]["login"]
    BY <1>0, <1>1, <1>5 DEF Becomes
  <2> QED BY <1>1, <1>2, <1>5, <2>1, <2>2 DEF Fresh, FreshCalls
<1>6. CASE k = "refresh" /\ ~Awaits(call[t]) /\ call[t][k].issued = 0
  <2>1. jar' \in {0, jar}
    BY <1>6 DEF Arrive
  <2> QED BY <1>3, <1>6, <2>1
<1>7. CASE k = "login"
  <2>1. jar' = call[t][k].issued \/ jar' = jar
    BY <1>7 DEF Arrive
  <2>2. CASE jar' = jar
    BY <1>3, <1>7, <2>2
  <2>3. CASE jar' = call[t][k].issued
    <3>1. call'[t]["login"] = x /\ call'[t]["refresh"] = call[t]["refresh"]
      BY <1>0, <1>1, <1>7 DEF Becomes
    <3> QED BY <1>1, <1>2, <1>7, <2>3, <3>1 DEF Fresh, FreshCalls
  <2> QED BY <2>1, <2>2, <2>3
<1>8. CASE k = "logout"
  <2>1. jar' \in {0, jar}
    BY <1>8 DEF Arrive, LogoutsIssueNothing
  <2> QED BY <1>3, <1>8, <2>1
<1> QED BY <1>4, <1>5, <1>6, <1>7, <1>8 DEF Kinds

\* An answer that issues nothing.
LEMMA CalmRefused ==
    ASSUME TypeInv, NEW t \in Tabs, Fresh(call[t], rows, jar), MarksKept, UNCHANGED jar,
           NEW k \in Kinds, call[t][k].st = "sent",
           NEW result, Answered(t, k, result, 0)
    PROVE  Fresh(call'[t], rows', jar')
<1>0. "login" \in Kinds /\ "refresh" \in Kinds /\ "logout" \in Kinds
  BY DEF Kinds
<1>1. PICK x : /\ Becomes(t, k, x) /\ x.st = "answered" /\ x.token = call[t][k].token
               /\ x.issued = 0
  BY <1>0, AnswerBecomes
<1>2. /\ \A j \in Kinds : call[t][j].token \in Token /\ call[t][j].issued \in Token
      /\ jar \in Token
  BY CallAt, Unmoved
<1>3. /\ ReplacedIn(rows', jar') => ReplacedIn(rows, jar)
      /\ \A j \in Kinds : /\ ReplacedIn(rows', call[t][j].token)
                             <=> ReplacedIn(rows, call[t][j].token)
                          /\ ReplacedIn(rows', call[t][j].issued)
                             <=> ReplacedIn(rows, call[t][j].issued)
  BY <1>2 DEF MarksKept
<1>4. CASE k = "logout"
  <2>1. call'[t]["refresh"] = call[t]["refresh"] /\ call'[t]["login"] = call[t]["login"]
    BY <1>0, <1>1, <1>4 DEF Becomes
  <2> QED BY <1>0, <1>3, <2>1 DEF Fresh, FreshCalls, Awaits
<1>5. CASE k = "refresh"
  <2>1. call'[t]["refresh"] = x /\ call'[t]["login"] = call[t]["login"]
    BY <1>0, <1>1, <1>5 DEF Becomes
  <2>2. ~ReplacedIn(rows', jar')
    BY <1>3, <1>5 DEF Fresh, Awaits
  <2>3. ~ReplacedIn(rows', x.issued) /\ x.st = "answered"
    BY <1>1 DEF ReplacedIn
  <2>4. ASSUME call[t]["login"].st = "answered"
        PROVE  /\ ~ReplacedIn(rows', call[t]["login"].issued)
               /\ call[t]["login"].issued # 0 =>
                     call[t]["login"].issued \notin {jar', x.token, x.issued}
    BY <1>0, <1>1, <1>3, <1>5, <2>4 DEF Fresh, FreshCalls
  <2> QED BY <2>1, <2>2, <2>3, <2>4 DEF Fresh, FreshCalls
<1>6. CASE k = "login"
  <2>1. call'[t]["refresh"] = call[t]["refresh"] /\ call'[t]["login"] = x
    BY <1>0, <1>1, <1>6 DEF Becomes
  <2>2. ~ReplacedIn(rows', x.issued)
    BY <1>1 DEF ReplacedIn
  <2> QED BY <1>0, <1>1, <1>3, <2>1, <2>2 DEF Fresh, FreshCalls, Awaits
<1> QED BY <1>4, <1>5, <1>6 DEF Kinds

LEMMA CalmServe ==
    ASSUME TypeInv, NEW t \in Tabs, Fresh(call[t], rows, jar), Quiet, Serve(t)
    PROVE  Fresh(call'[t], rows', jar') /\ Quiet'
<1>0. "login" \in Kinds /\ "refresh" \in Kinds /\ "logout" \in Kinds
  BY DEF Kinds
<1>1. UNCHANGED <<jar, budget>>
  BY DEF Serve, ServeLogin, ServeRefresh, ServeLogout, browser
<1>2. /\ \A j \in Kinds : call[t][j].token \in Token /\ call[t][j].issued \in Token
      /\ jar \in Token
  BY CallAt, Unmoved
<1>3. CASE ServeLogin(t)
  <2> DEFINE f == Len(rows) + 1
  <2>1. /\ rows' = Append(rows, NewRow(f)) /\ reused' = reused
        /\ Answered(t, "login", "ok", f)
    BY <1>3 DEF ServeLogin, history
  <2>2. PICK x : /\ Becomes(t, "login", x) /\ x.st = "answered" /\ x.issued = f
    BY <1>0, <2>1, AnswerBecomes
  <2>3. /\ f \notin Token /\ f # 0
        /\ \A k \in Token : k # 0 => rows'[k] = rows[k]
        /\ ~ReplacedIn(rows', f)
    <3>0. f \in Nat /\ f = Len(rows) + 1
      BY DEF TypeInv, RowsTyped
    <3>1. Shrunk(rows)
      BY Revocations
    <3>2. rows' = Append(rows, NewRow(f))
      BY <2>1
    <3> HIDE DEF f
    <3> QED BY <3>0, <3>1, <3>2, AppendedRow
  <2> HIDE DEF f
  <2>4. call'[t]["login"] = x /\ call'[t]["refresh"] = call[t]["refresh"]
    BY <1>0, <2>2 DEF Becomes
  <2>5. \A k \in Token : ReplacedIn(rows', k) <=> ReplacedIn(rows, k)
    BY <2>3 DEF ReplacedIn
  <2>6. /\ x.issued \notin {jar, call[t]["refresh"].token, call[t]["refresh"].issued}
        /\ ReplacedIn(rows', jar) <=> ReplacedIn(rows, jar)
        /\ ReplacedIn(rows', call[t]["refresh"].token)
           <=> ReplacedIn(rows, call[t]["refresh"].token)
        /\ ReplacedIn(rows', call[t]["refresh"].issued)
           <=> ReplacedIn(rows, call[t]["refresh"].issued)
    BY <1>0, <1>2, <2>2, <2>3, <2>5
  <2>7. FreshCalls(call'[t], rows', jar')
    BY <1>1, <2>2, <2>3, <2>4, <2>6 DEF Fresh, FreshCalls
  <2>8. ReplacedIn(rows', jar') => Awaits(call'[t])
    BY <1>1, <2>4, <2>6 DEF Fresh, Awaits
  <2> QED BY <1>1, <2>1, <2>7, <2>8 DEF Fresh, Quiet
<1>4. CASE ServeLogout(t)
  <2> DEFINE k == call[t]["logout"].token
  <2>1. /\ rows' = rows \/ (k # 0 /\ rows' = RevokeRow(k))
        /\ Answered(t, "logout", "ok", 0) \/ Answered(t, "logout", "refused", 0)
        /\ reused' = reused /\ call[t]["logout"].st = "sent"
    BY <1>4 DEF ServeLogout, LogoutRevokes
  <2>2. MarksKept
    BY <1>0, <1>2, <2>1, FamilyOf, SameMarks
  <2>3. Fresh(call'[t], rows', jar')
    BY <1>0, <1>1, <2>1, <2>2, CalmRefused
  <2> QED BY <1>1, <2>1, <2>3 DEF Quiet
<1>5. CASE ServeRefresh(t)
  <2> DEFINE x == call[t]["refresh"]
             k == x.token
  <2>0. k \in Token /\ x.st = "sent" /\ ~ReplacedIn(rows, k)
    BY <1>0, <1>2, <1>5 DEF ServeRefresh, Fresh, FreshCalls
  <2>1. ASSUME NEW result, Answered(t, "refresh", result, 0), MarksKept, reused' = {}
        PROVE  Fresh(call'[t], rows', jar') /\ Quiet'
    <3>1. Fresh(call'[t], rows', jar')
      BY <1>0, <1>1, <2>0, <2>1, CalmRefused
    <3> QED BY <1>1, <2>1, <3>1 DEF Quiet
  <2>2. CASE k = 0 \/ ~ProofMatches(x)
    <3>1. rows' = rows /\ reused' = reused
          /\ (Answered(t, "refresh", "unauthorized", 0) \/ Answered(t, "refresh", "refused", 0))
      BY <1>5, <2>2 DEF ServeRefresh
    <3> QED BY <2>1, <3>1, SameMarks DEF Quiet
  <2>3. CASE k # 0 /\ ProofMatches(x)
    <3>0. k \in DOMAIN rows /\ ~rows[k].replaced
      BY <2>0, <2>3, FamilyOf DEF ReplacedIn
    <3>1. CASE ~IsLive(k)
      <4>1. /\ rows' = RevokeFamily(rows[k].family)
            /\ reused' = reused \cup {f \in {rows[k].family} : rows[k].replaced}
            /\ Answered(t, "refresh", "unauthorized", 0)
        BY <1>5, <2>3, <3>1 DEF ServeRefresh, AfterReuse
      <4>2. reused' = {}
        BY <3>0, <4>1 DEF Quiet
      <4> QED BY <2>1, <4>1, <4>2, SameMarks
    <3>2. CASE IsLive(k) /\ (rows[k].expired \/ rows[k].version # version)
      <4>1. /\ rows' = RevokeRow(k) \/ rows' = RevokeFamily(rows[k].family)
            /\ reused' = reused /\ Answered(t, "refresh", "unauthorized", 0)
        BY <1>5, <2>3, <3>2 DEF ServeRefresh
      <4> QED BY <2>1, <3>0, <4>1, SameMarks DEF Quiet
    <3>3. CASE IsLive(k) /\ ~rows[k].expired /\ rows[k].version = version
      <4> DEFINE old == [rows EXCEPT ![k].revoked = TRUE, ![k].replaced = TRUE]
                 m == Len(rows) + 1
      <4>1. /\ rows' = Append(old, NewRow(rows[k].family)) /\ reused' = reused
            /\ Answered(t, "refresh", "ok", m)
        BY <1>5, <2>3, <3>3 DEF ServeRefresh, Rotated
      <4>2. Shrunk(old) /\ \A j \in DOMAIN rows : j # k => old[j] = rows[j]
        BY <3>0, Revocations
      <4>3. PICK y : /\ Becomes(t, "refresh", y) /\ y.st = "answered" /\ y.issued = m
                     /\ y.token = k /\ y.result = "ok"
        BY <1>0, <4>1, AnswerBecomes
      <4> HIDE DEF old
      <4>4. /\ m \notin Token /\ m # 0 /\ ~ReplacedIn(rows', m)
            /\ \A j \in Token : j # 0 => rows'[j] = old[j]
        <5>1. rows[k].family \in Nat
          BY <3>0, FamilyOf DEF TypeInv, RowsTyped, Row
        <5> QED BY <4>1, <4>2, <5>1, AppendedRow
      <4> HIDE DEF m, x
      <4>5. \A j \in Token : j # k => (ReplacedIn(rows', j) <=> ReplacedIn(rows, j))
        BY <4>2, <4>4, FamilyOf DEF ReplacedIn
      <4>6. call'[t]["refresh"] = y /\ call'[t]["login"] = call[t]["login"]
        BY <1>0, <4>3 DEF Becomes
      <4>7. FreshCalls(call'[t], rows', jar')
        <5> DEFINE l == call[t]["login"].issued
        <5>1. ASSUME call[t]["login"].st = "answered"
              PROVE  /\ ~ReplacedIn(rows', l)
                     /\ l # 0 => l \notin {jar', y.token, y.issued}
          <6>1. l \in Token /\ ~ReplacedIn(rows, l) /\ (l # 0 => l # jar /\ l # k)
            BY <1>0, <1>2, <5>1 DEF Fresh, FreshCalls, x
          <6>2. ~ReplacedIn(rows', l)
            BY <2>0, <4>5, <6>1 DEF ReplacedIn
          <6> QED BY <1>1, <4>3, <4>4, <6>1, <6>2
        <5> QED BY <4>3, <4>4, <4>6, <5>1 DEF FreshCalls
      <4>8. Awaits(call'[t])
        BY <4>3, <4>6 DEF Awaits
      <4> QED BY <1>1, <4>1, <4>7, <4>8 DEF Fresh, Quiet
    <3> QED BY <3>1, <3>2, <3>3
  <2> QED BY <2>2, <2>3
<1> QED BY <1>3, <1>4, <1>5 DEF Serve

LEMMA CalmKept ==
    ASSUME TypeInv, LoadInv, OneTab, Calm, [Next]_vars
    PROVE  Calm'
<1>1. CASE UNCHANGED vars
  BY <1>1 DEF vars, server, browser, history, Calm, Undisturbed, Quiet
<1>2. ASSUME NEW t \in Tabs, TabStep(t)
      PROVE  Calm'
  <2> SUFFICES ASSUME Undisturbed PROVE Calm'
    BY <1>2, OthersKept DEF Calm, Undisturbed
  <2>1. Alone(t)
    BY <1>2, ActsAlone DEF OneTab, Undisturbed
  <2>2. Quiet /\ Fresh(call[t], rows, jar)
    BY <2>1, CalmFound
  <2>3. ~CloseTab(t) /\ \A k \in Kinds : ~LoseAnswer(t, k)
    BY <2>2 DEF CloseTab, LoseAnswer, Spend, Quiet
  <2>4. CASE OpenTab(t) \/ Login(t) \/ UseAccess(t) \/ Logout(t)
    <3>1. Quiet'
      BY <2>2, <2>4 DEF Quiet, OpenTab, Login, UseAccess, Logout, history
    <3> QED BY <1>2, <2>1, <2>2, <2>4, <3>1, CalmAsk, CalmLeft
  <2>5. CASE Serve(t)
    BY <1>2, <2>1, <2>2, <2>5, CalmServe, CalmLeft
  <2>6. CASE \/ \E k \in Kinds : SignIn(t, k)
             \/ RefreshFails(t) \/ LoginFails(t) \/ LogoutReturns(t) \/ AccessExpires(t)
    <3>1. Quiet'
      <4>1. reused' = reused
        BY <2>6 DEF SignIn, RefreshFails, LoginFails, LogoutReturns, AccessExpires, history
      <4>2. \/ budget' = budget
            \/ budget' = [budget EXCEPT !["stale"] = @ - 1]
        BY <2>6 DEF SignIn, RefreshFails, LoginFails, LogoutReturns, AccessExpires, Spend
      <4>3. budget' ["closed"] = budget["closed"] /\ budget' ["lost"] = budget["lost"]
        BY <4>2 DEF TypeInv, RestTyped
      <4> QED BY <2>2, <4>1, <4>3 DEF Quiet
    <3> QED BY <1>2, <2>1, <2>2, <2>6, <3>1, CalmHandle, CalmLeft
  <2>7. ASSUME NEW k \in Kinds, Arrive(t, k)
        PROVE  Calm'
    <3>1. Quiet'
      BY <2>2, <2>7 DEF Quiet, Arrive, history
    <3>2. Fresh(call'[t], rows', jar')
      BY <2>2, <2>7, CalmArrive DEF OneTab
    <3> QED BY <1>2, <2>1, <3>1, <3>2, CalmLeft
  <2>8. CASE RefuseLogin(t)
    <3>1. UNCHANGED <<rows, jar, reused>> /\ Spend("wrong")
      BY <2>8 DEF RefuseLogin, server, browser, history
    <3>2. Quiet'
      BY <2>2, <3>1 DEF Quiet, Spend, TypeInv, RestTyped
    <3>3. "login" \in Kinds /\ MarksKept
      BY <3>1, SameMarks DEF Kinds
    <3>4. Fresh(call'[t], rows', jar')
      BY <2>2, <2>8, <3>1, <3>3, CalmRefused DEF RefuseLogin
    <3> QED BY <1>2, <2>1, <3>2, <3>4, CalmLeft
  <2> QED BY <1>2, <2>3, <2>4, <2>5, <2>6, <2>7, <2>8 DEF TabStep, Continue
<1>3. CASE ChangeAccount \/ \E f \in DOMAIN rows : SessionExpires(f)
  <2>1. MarksKept
    BY <1>3, SameMarks DEF ChangeAccount, SessionExpires
  <2>2. jar' \in {0, jar} /\ UNCHANGED <<call, tab, env, reused>> /\ Spend("changes")
    BY <1>3 DEF ChangeAccount, SessionExpires, Spend, browser, history
  <2>3. budget' ["closed"] = budget["closed"] /\ budget' ["lost"] = budget["lost"]
    BY <2>2 DEF Spend, TypeInv, RestTyped
  <2> SUFFICES ASSUME Undisturbed PROVE Calm'
    BY <2>2 DEF Calm, Undisturbed
  <2>4. Quiet'
    BY <2>2, <2>3 DEF Calm, Quiet
  <2>5. jar \in Token /\ ~ReplacedIn(rows', 0)
    BY Unmoved DEF ReplacedIn
  <2>6. ASSUME NEW t \in Tabs
        PROVE  FreshCalls(call'[t], rows', jar')
    <3>1. "login" \in Kinds /\ "refresh" \in Kinds
      BY DEF Kinds
    <3>2. /\ \A j \in Kinds : call[t][j].token \in Token /\ call[t][j].issued \in Token
          /\ FreshCalls(call[t], rows, jar)
      BY CallAt DEF Calm
    <3> QED BY <2>1, <2>2, <3>1, <3>2 DEF FreshCalls, MarksKept
  <2>7. ReplacedIn(rows', jar') => \E t \in Tabs : Awaits(call'[t])
    BY <2>1, <2>2, <2>5 DEF Calm, MarksKept
  <2> QED BY <2>4, <2>6, <2>7 DEF Calm
<1> QED BY <1>1, <1>2, <1>3 DEF Next, TabStep

LEMMA OneTabKept ==
    ASSUME TypeInv, LoadInv, OneTab, [Next]_vars
    PROVE  OneTab'
<1>1. ASSUME NEW t \in Tabs, TabStep(t)
      PROVE  OneTab'
  BY <1>1, OneOpenKept, LogoutsKept DEF OneTab
<1>2. CASE UNCHANGED <<tab, call, env>>
  BY <1>2 DEF OneTab, OneOpen, LogoutsIssueNothing
<1>3. CASE ChangeAccount \/ \E f \in DOMAIN rows : SessionExpires(f)
  BY <1>2, <1>3 DEF ChangeAccount, SessionExpires, Spend
<1>4. CASE UNCHANGED vars
  BY <1>2, <1>4 DEF vars
<1> QED BY <1>1, <1>3, <1>4 DEF Next, TabStep

LEMMA InitOneTab == Init => OneTab
BY DEF Init, OneTab, OneOpen, LogoutsIssueNothing, Idle, Kinds

LEMMA InitCalm == Init => Calm
<1> SUFFICES ASSUME Init, Undisturbed PROVE Calm
  BY DEF Calm
<1>1. Quiet
  BY DEF Init, Quiet, Undisturbed
<1>2. "login" \in Kinds /\ "refresh" \in Kinds
  BY DEF Kinds
<1>3. \A t \in Tabs : FreshCalls(call[t], rows, jar)
  BY <1>2 DEF Init, FreshCalls, Idle
<1>4. ~ReplacedIn(rows, jar)
  BY DEF Init, ReplacedIn
<1> QED BY <1>1, <1>3, <1>4 DEF Calm

\* A tab that is alone, is not reloaded and loses nothing is never taken for a thief:
\* its requests share one refresh, so it presents no token twice.
THEOREM NoThiefImagined == Spec => []NoFalseAlarm
<1>1. Calm => NoFalseAlarm
  BY DEF Calm, Undisturbed, Quiet, NoFalseAlarm
<1> QED BY <1>1, InitTyped, InitSafe, NextKept, InitLoad, LoadKept, InitOneTab, OneTabKept,
           InitCalm, CalmKept, PTL DEF Spec
-----------------------------------------------------------------------------
(* Logouts.  When no refresh races a logout, the token a logout presents is  *)
(* the only one of its login that may be live, so its revocation ends the    *)
(* login; and while a logout waits, no tab restores a session.               *)

\* No other token of k's login is live.
CleanIn(r, k) ==
    k = 0 \/ \A j \in DOMAIN r : r[j].family = r[k].family /\ ~r[j].revoked => j = k

\* A tab restores its session alone, before any login or logout, and the tokens of
\* a tab that is signed in, signs in or logs out are clean.
Orderly(page, c, r, j, pending) ==
    /\ c["refresh"].st # "idle" => /\ page = "loading" /\ ~pending
                                   /\ c["login"].st = "idle" /\ c["logout"].st = "idle"
    /\ c["login"].st # "idle" => page = "login"
    /\ page = "in" => CleanIn(r, j)
    /\ c["logout"].st = "sent" => CleanIn(r, c["logout"].token)
    /\ \A k \in {"login", "refresh"} :
          /\ c[k].st = "answered" => CleanIn(r, c[k].issued)
          /\ c[k].st = "arrived" /\ c[k].result = "ok" => CleanIn(r, j)

Marker ==
    /\ logoutPending => CleanIn(rows, jar)
    /\ leaving # 0 => logoutPending

EndedAreDead == \A f \in ended : LiveOf(f) = {}

Still ==
    NoRefreshRaces =>
        /\ budget["stale"] = 0
        /\ \A t \in Tabs : ~tab[t].stale
                           /\ Orderly(tab[t].page, call[t], rows, jar, logoutPending)
        /\ Marker /\ EndedAreDead

StillAt(t) == /\ ~tab[t].stale /\ Orderly(tab[t].page, call[t], rows, jar, logoutPending)
              /\ Marker

LEMMA StillLeft ==
    ASSUME TypeInv, Still, NoRefreshRaces, NEW t \in Tabs, TabStep(t), Alone(t),
           budget' ["stale"] = 0, StillAt(t)', EndedAreDead'
    PROVE  Still'
<1>1. "refresh" \in Kinds /\ "login" \in Kinds /\ "logout" \in Kinds
  BY DEF Kinds
<1>2. ASSUME NEW u \in Tabs, u # t
      PROVE  ~tab'[u].stale /\ Orderly(tab'[u].page, call'[u], rows', jar', logoutPending')
  <2>1. /\ tab'[u] = tab[u] /\ call'[u] = call[u] /\ tab[u].page = "closed"
        /\ call[u]["refresh"].st = "idle" /\ call[u]["login"].st = "idle"
        /\ call[u]["logout"].st = "idle" /\ ~tab[u].stale
    BY <1>1, <1>2, OthersKept DEF Alone, Still
  <2> QED BY <2>1 DEF Orderly
<1>3. \A u \in Tabs : ~tab'[u].stale /\ Orderly(tab'[u].page, call'[u], rows', jar', logoutPending')
  BY <1>2 DEF StillAt
<1> QED BY <1>3 DEF Still, StillAt

\* Clean tokens that stay clean.
CleanStays == \A k \in Token : CleanIn(rows, k) => CleanIn(rows', k)

LEMMA CleanCalls ==
    ASSUME TypeInv, CleanStays, NEW t \in Tabs
    PROVE  /\ \A k \in Kinds :
                /\ CleanIn(rows, call[t][k].token) => CleanIn(rows', call[t][k].token)
                /\ CleanIn(rows, call[t][k].issued) => CleanIn(rows', call[t][k].issued)
           /\ CleanIn(rows, jar) => CleanIn(rows', jar)
           /\ CleanIn(rows', 0)
<1>1. /\ \A k \in Kinds : call[t][k].token \in Token /\ call[t][k].issued \in Token
      /\ jar \in Token
  BY CallAt, Unmoved
<1>2. CleanIn(rows', 0)
  BY DEF CleanIn
<1> QED BY <1>1, <1>2 DEF CleanStays

LEMMA ShrunkClean ==
    ASSUME TypeInv, Shrunk(rows')
    PROVE  /\ CleanStays
           /\ EndedAreDead /\ ended' = ended => EndedAreDead'
<1>1. \A k \in DOMAIN rows' : /\ k \in DOMAIN rows /\ rows'[k].family = rows[k].family
                              /\ rows[k].revoked => rows'[k].revoked
  BY DEF Shrunk
<1>2. CleanStays
  <2>1. \A k \in Token : k # 0 => k \in DOMAIN rows'
    BY FamilyOf DEF Shrunk
  <2> QED BY <1>1, <2>1 DEF CleanStays, CleanIn
<1>3. \A f : LiveOf(f)' \subseteq LiveOf(f)
  BY <1>1 DEF LiveOf, IsLive
<1> QED BY <1>2, <1>3 DEF EndedAreDead

LEMMA SameClean ==
    ASSUME TypeInv, UNCHANGED rows
    PROVE  CleanStays
BY ShrunkClean, Revocations

LEMMA StillAsk ==
    ASSUME TypeInv, NEW t \in Tabs, Alone(t), StillAt(t),
           OpenTab(t) \/ Login(t) \/ UseAccess(t) \/ Logout(t)
    PROVE  StillAt(t)'
<1>0. "refresh" \in Kinds /\ "login" \in Kinds /\ "logout" \in Kinds
  BY DEF Kinds
<1>1. UNCHANGED <<rows, jar>>
  BY DEF OpenTab, Login, UseAccess, Logout, server, browser
<1>2. tab \in [Tabs -> TabState]
  BY Unmoved
<1>3. ASSUME NEW k \in Kinds, call' = Sent(t, k)
      PROVE  /\ call'[t][k].st = "sent" /\ call'[t][k].token = jar
             /\ \A j \in Kinds : j # k => call'[t][j] = call[t][j]
  <2>1. Becomes(t, k, SentNow)
    BY <1>3, SentBecomes
  <2> QED BY <2>1, SentFields DEF Becomes
<1>4. CASE OpenTab(t)
  <2>1. /\ \A k \in Kinds : call[t][k].st = "idle"
        /\ UNCHANGED <<logoutPending, leaving>>
    BY <1>4 DEF OpenTab, Alone, browser, history
  <2>2. Marker'
    BY <1>1, <2>1 DEF Marker, StillAt
  <2>3. \/ logoutPending /\ call' = Sent(t, "logout") /\ tab' = [tab EXCEPT ![t].page = "loading"]
        \/ ~logoutPending /\ call' = Sent(t, "refresh") /\ tab' = [tab EXCEPT ![t].page = "loading"]
        \/ call' = call /\ tab' = [tab EXCEPT ![t].page = "login"]
    BY <1>0, <1>4, <2>1 DEF OpenTab, Refreshing, Idles
  <2>4. /\ tab'[t].page = "loading" \/ (tab'[t].page = "login" /\ call' = call)
        /\ tab'[t].stale = tab[t].stale
    BY <1>2, <2>3 DEF TabState
  <2>5. CASE call' = call
    <3>1. tab'[t].page # "in"
      BY <2>4
    <3>2. \A k \in Kinds : call'[t][k].st = "idle"
      BY <2>1, <2>5
    <3>3. Orderly(tab'[t].page, call'[t], rows', jar', logoutPending')
      BY <1>0, <3>1, <3>2 DEF Orderly
    <3> QED BY <2>2, <2>4, <3>3 DEF StillAt
  <2>6. CASE call' # call
    <3>1. tab'[t].page = "loading"
      BY <2>4, <2>6
    <3>2. \/ /\ logoutPending /\ call'[t]["logout"].token = jar
             /\ call'[t]["refresh"].st = "idle" /\ call'[t]["login"].st = "idle"
          \/ /\ ~logoutPending /\ call'[t]["refresh"].st = "sent"
             /\ call'[t]["logout"].st = "idle" /\ call'[t]["login"].st = "idle"
      BY <1>0, <1>3, <2>1, <2>3, <2>6
    <3>3. Orderly(tab'[t].page, call'[t], rows', jar', logoutPending')
      BY <1>1, <2>1, <3>1, <3>2 DEF Orderly, StillAt, Marker
    <3> QED BY <2>2, <2>4, <3>3 DEF StillAt
  <2> QED BY <2>5, <2>6
<1>5. CASE Login(t)
  <2>1. /\ UNCHANGED <<tab, logoutPending, leaving>> /\ tab[t].page = "login"
        /\ call' = Sent(t, "login")
    BY <1>5 DEF Login, browser, history
  <2>2. /\ call'[t]["login"].st = "sent" /\ call'[t]["refresh"] = call[t]["refresh"]
        /\ call'[t]["logout"] = call[t]["logout"]
    BY <1>0, <1>3, <2>1
  <2>3. call[t]["refresh"].st = "idle"
    BY <2>1 DEF StillAt, Orderly
  <2>4. Orderly(tab'[t].page, call'[t], rows', jar', logoutPending')
    BY <1>1, <2>1, <2>2, <2>3 DEF Orderly, StillAt
  <2> QED BY <1>1, <2>1, <2>4 DEF StillAt, Marker
<1>6. ASSUME tab[t].page = "in"
      PROVE  call[t]["refresh"].st = "idle" /\ call[t]["login"].st = "idle" /\ CleanIn(rows, jar)
  BY <1>6 DEF StillAt, Orderly
<1>7. CASE UseAccess(t)
  <2>1. /\ UNCHANGED <<logoutPending, leaving, call>> /\ tab[t].page = "in"
        /\ tab' = SignedOut(t)
    BY <1>7 DEF UseAccess, StillAt, history
  <2>2. tab'[t].page = "login" /\ tab'[t].stale = tab[t].stale
    BY <1>2, <2>1 DEF SignedOut, TabState
  <2>3. Orderly(tab'[t].page, call'[t], rows', jar', logoutPending')
    BY <1>1, <1>6, <2>1, <2>2 DEF Orderly, StillAt
  <2> QED BY <1>1, <2>1, <2>2, <2>3 DEF StillAt, Marker
<1>8. CASE Logout(t)
  <2>1. /\ logoutPending' /\ tab[t].page = "in" /\ tab' = SignedOut(t)
        /\ call' = Sent(t, "logout")
    BY <1>8 DEF Logout
  <2>2. tab'[t].page = "login" /\ tab'[t].stale = tab[t].stale
    BY <1>2, <2>1 DEF SignedOut, TabState
  <2>3. /\ call'[t]["logout"].token = jar /\ call'[t]["refresh"] = call[t]["refresh"]
        /\ call'[t]["login"] = call[t]["login"]
    BY <1>0, <1>3, <2>1
  <2>4. Orderly(tab'[t].page, call'[t], rows', jar', logoutPending')
    BY <1>1, <1>6, <2>1, <2>2, <2>3 DEF Orderly, StillAt
  <2> QED BY <1>1, <1>6, <2>1, <2>2, <2>4 DEF StillAt, Marker
<1> QED BY <1>4, <1>5, <1>7, <1>8

LEMMA StillArrive ==
    ASSUME TypeInv, LogoutsIssueNothing, NEW t \in Tabs, StillAt(t),
           NEW k \in Kinds, Arrive(t, k)
    PROVE  StillAt(t)'
<1>0. "refresh" \in Kinds /\ "login" \in Kinds /\ "logout" \in Kinds
  BY DEF Kinds
<1>1. PICK x : /\ Becomes(t, k, x) /\ x.st = "arrived" /\ x.result = call[t][k].result
  BY ArrivalBecomes
<1>2. /\ UNCHANGED <<rows, tab, logoutPending, leaving>> /\ call[t][k].st = "answered"
      /\ Sane(k, call[t][k])
  BY CallAt DEF Arrive, server, history
<1>4. CASE k = "logout"
  <2>1. jar' \in {0, jar}
    BY <1>4 DEF Arrive, LogoutsIssueNothing
  <2>2. /\ call'[t]["logout"] = x /\ call'[t]["refresh"] = call[t]["refresh"]
        /\ call'[t]["login"] = call[t]["login"]
    BY <1>0, <1>1, <1>4 DEF Becomes
  <2>3. CleanIn(rows, jar) => CleanIn(rows', jar')
    <3>1. CASE jar' = jar
      BY <1>2, <3>1
    <3>2. CASE jar' = 0
      BY <3>2 DEF CleanIn
    <3> QED BY <2>1, <3>1, <3>2
  <2>4. rows' = rows /\ tab' = tab /\ logoutPending' = logoutPending
        /\ call[t]["refresh"].st = "idle"
    BY <1>2, <1>4 DEF StillAt, Orderly
  <2>5. Orderly(tab'[t].page, call'[t], rows', jar', logoutPending')
    BY <1>1, <2>2, <2>3, <2>4 DEF Orderly, StillAt
  <2> QED BY <1>2, <2>3, <2>5 DEF StillAt, Marker
<1>5. CASE k = "login"
  <2>1. jar' = IF call[t][k].issued # 0 THEN call[t][k].issued ELSE jar
    BY <1>5 DEF Arrive
  <2>2. /\ call'[t]["login"] = x /\ call'[t]["refresh"] = call[t]["refresh"]
        /\ call'[t]["logout"] = call[t]["logout"]
    BY <1>0, <1>1, <1>5 DEF Becomes
  <2>3. /\ tab[t].page = "login" /\ call[t]["refresh"].st = "idle"
        /\ CleanIn(rows, call[t][k].issued)
    BY <1>2, <1>5 DEF StillAt, Orderly
  <2>4. /\ x.result = "ok" => CleanIn(rows', jar')
        /\ CleanIn(rows, jar) => CleanIn(rows', jar')
    BY <1>1, <1>2, <1>5, <2>1, <2>3 DEF Sane
  <2>5. Orderly(tab'[t].page, call'[t], rows', jar', logoutPending')
    BY <1>1, <1>2, <2>2, <2>3, <2>4 DEF Orderly, StillAt
  <2> QED BY <1>2, <2>4, <2>5 DEF StillAt, Marker
<1>6. CASE k = "refresh"
  <2>1. call[t][k].result = "ok" => jar' = call[t][k].issued
    BY <1>2, <1>6 DEF Arrive, Sane
  <2>2. /\ call'[t]["refresh"] = x /\ call'[t]["login"] = call[t]["login"]
        /\ call'[t]["logout"] = call[t]["logout"]
    BY <1>0, <1>1, <1>6 DEF Becomes
  <2>3. /\ tab[t].page = "loading" /\ ~logoutPending
        /\ call[t]["login"].st = "idle" /\ call[t]["logout"].st = "idle"
        /\ CleanIn(rows, call[t][k].issued)
    BY <1>2, <1>6 DEF StillAt, Orderly
  <2>4. Orderly(tab'[t].page, call'[t], rows', jar', logoutPending')
    BY <1>1, <1>2, <2>1, <2>2, <2>3 DEF Orderly
  <2> QED BY <1>2, <2>3, <2>4 DEF StillAt, Marker
<1> QED BY <1>4, <1>5, <1>6 DEF Kinds

LEMMA StillLose ==
    ASSUME TypeInv, NEW t \in Tabs, StillAt(t), NEW k \in Kinds, LoseAnswer(t, k)
    PROVE  StillAt(t)'
<1>0. "refresh" \in Kinds /\ "login" \in Kinds /\ "logout" \in Kinds
  BY DEF Kinds
<1>1. PICK x : Becomes(t, k, x) /\ x.st = "arrived" /\ x.result = "refused"
  BY LossBecomes
<1>2. /\ UNCHANGED <<rows, jar, tab, logoutPending, leaving>> /\ call[t][k].st # "idle"
  BY DEF LoseAnswer, server, browser, history
<1>3. /\ call'[t]["refresh"] = IF k = "refresh" THEN x ELSE call[t]["refresh"]
      /\ call'[t]["login"] = IF k = "login" THEN x ELSE call[t]["login"]
      /\ call'[t]["logout"] = IF k = "logout" THEN x ELSE call[t]["logout"]
  BY <1>0, <1>1 DEF Becomes
<1>4. Orderly(tab'[t].page, call'[t], rows', jar', logoutPending')
  BY <1>1, <1>2, <1>3 DEF Orderly, StillAt
<1> QED BY <1>2, <1>4 DEF StillAt, Marker

LEMMA StillHandle ==
    ASSUME TypeInv, NEW t \in Tabs, StillAt(t),
           \/ \E k \in Kinds : SignIn(t, k)
           \/ RefreshFails(t) \/ LoginFails(t) \/ LogoutReturns(t) \/ CloseTab(t)
    PROVE  StillAt(t)'
<1>0. "refresh" \in Kinds /\ "login" \in Kinds /\ "logout" \in Kinds
  BY DEF Kinds
<1>1. UNCHANGED <<rows, jar>>
  BY DEF SignIn, RefreshFails, LoginFails, LogoutReturns, CloseTab, server, browser
<1>2. tab \in [Tabs -> TabState]
  BY Unmoved
<1>3. ASSUME NEW k \in Kinds, call' = Handled(t, k)
      PROVE  /\ call'[t][k].st = "idle"
             /\ \A j \in Kinds : j # k => call'[t][j] = call[t][j]
  <2>1. Becomes(t, k, Idle)
    BY <1>3, HandledBecomes
  <2> QED BY <2>1, SentFields DEF Becomes
<1>4. ASSUME NEW k \in Kinds, SignIn(t, k)
      PROVE  StillAt(t)'
  <2>1. /\ k \in {"login", "refresh"} /\ call[t][k].st = "arrived" /\ call[t][k].result = "ok"
        /\ ~logoutPending' /\ call' = Handled(t, k)
        /\ leaving' = IF k = "login" THEN 0 ELSE leaving
    BY <1>4 DEF SignIn
  <2>2. tab'[t].page = "in" /\ tab'[t].stale = FALSE
    BY <1>2, <1>4 DEF SignIn
  <2>3. CleanIn(rows', jar') /\ leaving' = 0
    BY <1>1, <2>1 DEF StillAt, Orderly, Marker
  <2>4. /\ call'[t]["refresh"].st = "idle" /\ call'[t]["login"].st = "idle"
        /\ call'[t]["logout"] = call[t]["logout"]
    BY <1>0, <1>3, <2>1 DEF StillAt, Orderly
  <2>5. Orderly(tab'[t].page, call'[t], rows', jar', logoutPending')
    BY <1>1, <2>1, <2>2, <2>3, <2>4 DEF Orderly, StillAt
  <2> QED BY <2>1, <2>2, <2>3, <2>5 DEF StillAt, Marker
<1>5. CASE RefreshFails(t)
  <2>1. /\ call[t]["refresh"].st = "arrived" /\ call' = Handled(t, "refresh")
        /\ tab' = SignedOut(t) /\ UNCHANGED <<logoutPending, leaving>>
    BY <1>5 DEF RefreshFails, AfterFailedRefresh, history
  <2>2. tab'[t].page = "login" /\ tab'[t].stale = tab[t].stale
    BY <1>2, <2>1 DEF SignedOut, TabState
  <2>3. /\ call'[t]["refresh"].st = "idle" /\ call'[t]["login"].st = "idle"
        /\ call'[t]["logout"].st = "idle"
    BY <1>0, <1>3, <2>1 DEF StillAt, Orderly
  <2>4. Orderly(tab'[t].page, call'[t], rows', jar', logoutPending')
    BY <2>2, <2>3 DEF Orderly
  <2> QED BY <1>1, <2>1, <2>2, <2>4 DEF StillAt, Marker
<1>6. CASE LoginFails(t)
  <2>1. /\ call[t]["login"].st = "arrived" /\ call' = Handled(t, "login")
        /\ UNCHANGED <<logoutPending, leaving>>
        /\ tab' = tab \/ tab' = SignedOut(t)
    BY <1>6 DEF LoginFails, history
  <2>2. /\ call'[t]["login"].st = "idle" /\ call'[t]["refresh"] = call[t]["refresh"]
        /\ call'[t]["logout"] = call[t]["logout"]
    BY <1>0, <1>3, <2>1
  <2>3. tab'[t].page = tab[t].page /\ tab'[t].stale = tab[t].stale
    <3>1. tab[t].page = "login"
      BY <2>1 DEF StillAt, Orderly
    <3> QED BY <1>2, <2>1, <3>1 DEF SignedOut, TabState
  <2>4. Orderly(tab'[t].page, call'[t], rows', jar', logoutPending')
    BY <1>1, <2>1, <2>2, <2>3 DEF Orderly, StillAt
  <2> QED BY <1>1, <2>1, <2>3, <2>4 DEF StillAt, Marker
<1>7. CASE LogoutReturns(t)
  <2> DEFINE o == call[t]["logout"]
  <2>1. /\ call' = Handled(t, "logout") /\ o.st = "arrived"
        /\ logoutPending' = (logoutPending /\ o.result # "ok")
        /\ leaving' = IF o.result = "ok" THEN 0 ELSE leaving
        /\ tab' = [tab EXCEPT ![t].page = IF @ = "loading" THEN "login" ELSE @]
    BY <1>7 DEF LogoutReturns, KeepsMarker, LeavesLoading
  <2>2. /\ tab'[t].page = IF tab[t].page = "loading" THEN "login" ELSE tab[t].page
        /\ tab'[t].stale = tab[t].stale
    BY <1>2, <2>1 DEF TabState
  <2>3. /\ call'[t]["logout"].st = "idle" /\ call'[t]["refresh"] = call[t]["refresh"]
        /\ call'[t]["login"] = call[t]["login"] /\ call[t]["refresh"].st = "idle"
    BY <1>0, <1>3, <2>1 DEF StillAt, Orderly
  <2>4. Orderly(tab'[t].page, call'[t], rows', jar', logoutPending')
    BY <1>1, <2>1, <2>2, <2>3 DEF Orderly, StillAt
  <2> QED BY <1>1, <2>1, <2>2, <2>4 DEF StillAt, Marker
<1>8. CASE CloseTab(t)
  <2>1. /\ call' = [call EXCEPT ![t] = [k \in Kinds |-> Idle]] /\ DOMAIN call = Tabs
        /\ tab'[t] = [page |-> "closed", access |-> 0, stale |-> FALSE]
        /\ UNCHANGED <<logoutPending, leaving>>
    BY <1>2, <1>8 DEF CloseTab, TypeInv, CallsUpTo, browser, history
  <2>2. \A k \in Kinds : call'[t][k].st = "idle"
    BY <2>1, SentFields
  <2>3. Orderly(tab'[t].page, call'[t], rows', jar', logoutPending')
    BY <1>0, <2>1, <2>2 DEF Orderly
  <2> QED BY <1>1, <2>1, <2>3 DEF StillAt, Marker
<1> QED BY <1>4, <1>5, <1>6, <1>7, <1>8

\* An answer that issues nothing.
LEMMA StillRefused ==
    ASSUME TypeInv, NEW t \in Tabs, StillAt(t), CleanStays,
           UNCHANGED <<jar, tab, logoutPending, leaving>>,
           NEW k \in Kinds, call[t][k].st = "sent",
           NEW result, Answered(t, k, result, 0)
    PROVE  StillAt(t)'
<1>0. "refresh" \in Kinds /\ "login" \in Kinds /\ "logout" \in Kinds
  BY DEF Kinds
<1>1. PICK x : Becomes(t, k, x) /\ x.st = "answered" /\ x.issued = 0
  BY <1>0, AnswerBecomes
<1>2. /\ CleanIn(rows, jar) => CleanIn(rows', jar')
      /\ CleanIn(rows, call[t]["logout"].token) => CleanIn(rows', call[t]["logout"].token)
      /\ CleanIn(rows, call[t]["login"].issued) => CleanIn(rows', call[t]["login"].issued)
      /\ CleanIn(rows, call[t]["refresh"].issued) => CleanIn(rows', call[t]["refresh"].issued)
      /\ CleanIn(rows', 0)
  BY <1>0, CleanCalls
<1>3. Marker'
  BY <1>2 DEF StillAt, Marker
<1>4. CASE k = "refresh"
  <2>1. /\ call'[t]["refresh"] = x /\ call'[t]["login"] = call[t]["login"]
        /\ call'[t]["logout"] = call[t]["logout"]
    BY <1>0, <1>1, <1>4 DEF Becomes
  <2>2. Orderly(tab'[t].page, call'[t], rows', jar', logoutPending')
    BY <1>1, <1>2, <1>4, <2>1 DEF Orderly, StillAt
  <2> QED BY <1>3, <2>2 DEF StillAt
<1>5. CASE k = "logout"
  <2>1. /\ call'[t]["logout"] = x /\ call'[t]["login"] = call[t]["login"]
        /\ call'[t]["refresh"] = call[t]["refresh"]
    BY <1>0, <1>1, <1>5 DEF Becomes
  <2>2. Orderly(tab'[t].page, call'[t], rows', jar', logoutPending')
    BY <1>1, <1>2, <1>5, <2>1 DEF Orderly, StillAt
  <2> QED BY <1>3, <2>2 DEF StillAt
<1>6. CASE k = "login"
  <2>1. /\ call'[t]["login"] = x /\ call'[t]["logout"] = call[t]["logout"]
        /\ call'[t]["refresh"] = call[t]["refresh"]
    BY <1>0, <1>1, <1>6 DEF Becomes
  <2>2. Orderly(tab'[t].page, call'[t], rows', jar', logoutPending')
    BY <1>1, <1>2, <1>6, <2>1 DEF Orderly, StillAt
  <2> QED BY <1>3, <2>2 DEF StillAt
<1> QED BY <1>4, <1>5, <1>6 DEF Kinds

\* A row that begins a login, or follows the only live one of its login.
LEMMA NewIsClean ==
    ASSUME TypeInv, NEW old, Shrunk(old), NEW f \in Nat, rows' = Append(old, NewRow(f)),
           \A j \in DOMAIN rows : rows[j].family = f => old[j].revoked
    PROVE  /\ CleanIn(rows', Len(rows) + 1)
           /\ \A g : g # f => LiveOf(g)' \subseteq LiveOf(g)
           /\ (\A j \in DOMAIN rows : rows[j].family # f) => CleanStays
<1>1. /\ Len(rows) \in Nat /\ old \in Seq(Row) /\ Len(old) = Len(rows)
      /\ DOMAIN rows = 1..Len(rows)
  BY ShrunkTyped DEF TypeInv, RowsTyped, Shrunk
<1>2. DOMAIN rows' = 1..Len(rows) + 1
  <2> DEFINE w == NewRow(f)
  <2>1. rows' = Append(old, w) /\ w \in Row
    BY DEF NewRow, Row, TypeInv, RestTyped
  <2> HIDE DEF w
  <2>2. DOMAIN Append(old, w) = 1..Len(rows) + 1
    BY <1>1, <2>1
  <2> QED BY <2>1, <2>2
<1>3. /\ \A k \in Token : k # 0 => rows'[k] = old[k]
      /\ rows'[Len(rows) + 1] = NewRow(f)
  BY AppendedRow
<1>4. NewRow(f).family = f
  BY DEF NewRow
<1>5. \A k \in DOMAIN rows' : k \in DOMAIN rows \/ k = Len(rows) + 1
  BY <1>1, <1>2
<1>6. \A k \in DOMAIN rows : /\ rows'[k].family = rows[k].family
                             /\ rows[k].revoked => rows'[k].revoked
                             /\ rows[k].family = f => rows'[k].revoked
  <2>1. \A k \in DOMAIN rows : k \in Token /\ k # 0
    BY <1>1 DEF Token
  <2> QED BY <1>3, <2>1 DEF Shrunk
<1>7. CleanIn(rows', Len(rows) + 1)
  BY <1>3, <1>4, <1>5, <1>6 DEF CleanIn
<1>8. \A g : g # f => LiveOf(g)' \subseteq LiveOf(g)
  BY <1>3, <1>4, <1>5, <1>6 DEF LiveOf, IsLive
<1>9. ASSUME \A j \in DOMAIN rows : rows[j].family # f
      PROVE  CleanStays
  <2>1. \A k \in Token : k # 0 => k \in DOMAIN rows
    BY FamilyOf
  <2> QED BY <1>3, <1>4, <1>5, <1>6, <1>9, <2>1 DEF CleanStays, CleanIn
<1> QED BY <1>7, <1>8, <1>9

LEMMA StillServeLogin ==
    ASSUME TypeInv, NEW t \in Tabs, StillAt(t), EndedAreDead, ServeLogin(t)
    PROVE  StillAt(t)' /\ EndedAreDead'
<1>0. "refresh" \in Kinds /\ "login" \in Kinds /\ "logout" \in Kinds
  BY DEF Kinds
<1> DEFINE f == Len(rows) + 1
<1>1. /\ rows' = Append(rows, NewRow(f)) /\ Answered(t, "login", "ok", f)
      /\ UNCHANGED <<jar, tab, logoutPending, leaving, ended>> /\ call[t]["login"].st = "sent"
  BY DEF ServeLogin, browser, history
<1>2. f \in Nat /\ f = Len(rows) + 1 /\ f \notin ended
  BY DEF TypeInv, RowsTyped, RestTyped
<1>3. \A j \in DOMAIN rows : rows[j].family # f
  BY <1>2 DEF TypeInv, RowsTyped
<1>4. Shrunk(rows)
  BY Revocations
<1> HIDE DEF f
<1>5. /\ CleanIn(rows', f) /\ CleanStays
      /\ \A g : g # f => LiveOf(g)' \subseteq LiveOf(g)
  BY <1>1, <1>2, <1>3, <1>4, NewIsClean
<1>6. EndedAreDead'
  BY <1>1, <1>2, <1>5 DEF EndedAreDead
<1>7. PICK x : Becomes(t, "login", x) /\ x.st = "answered" /\ x.issued = f
  BY <1>0, <1>1, AnswerBecomes
<1>8. /\ call'[t]["login"] = x /\ call'[t]["refresh"] = call[t]["refresh"]
      /\ call'[t]["logout"] = call[t]["logout"]
  BY <1>0, <1>7 DEF Becomes
<1>9. /\ CleanIn(rows, jar) => CleanIn(rows', jar')
      /\ CleanIn(rows, call[t]["logout"].token) => CleanIn(rows', call[t]["logout"].token)
      /\ CleanIn(rows, call[t]["refresh"].issued) => CleanIn(rows', call[t]["refresh"].issued)
  BY <1>0, <1>1, <1>5, CleanCalls
<1>10. Orderly(tab'[t].page, call'[t], rows', jar', logoutPending')
  BY <1>1, <1>5, <1>7, <1>8, <1>9 DEF Orderly, StillAt
<1> QED BY <1>1, <1>6, <1>9, <1>10 DEF StillAt, Marker

LEMMA StillServeLogout ==
    ASSUME TypeInv, NEW t \in Tabs, StillAt(t), EndedAreDead, ServeLogout(t)
    PROVE  StillAt(t)' /\ EndedAreDead'
<1> DEFINE x == call[t]["logout"]
           k == x.token
<1>0. k \in Token /\ "logout" \in Kinds
  BY CallAt DEF Kinds
<1>1. /\ UNCHANGED <<jar, tab, logoutPending, leaving>> /\ x.st = "sent"
      /\ Answered(t, "logout", "ok", 0) \/ Answered(t, "logout", "refused", 0)
      /\ \/ UNCHANGED <<rows, ended>>
         \/ rows' = LogoutRevokes(k) /\ ended' = ended \cup ({Family(k)} \ {0})
  BY DEF ServeLogout, browser
<1>2. CleanIn(rows, k)
  BY <1>1 DEF StillAt, Orderly
<1>3. Shrunk(rows')
  BY <1>0, <1>1, Revocations, FamilyOf DEF LogoutRevokes
<1>4. StillAt(t)'
  BY <1>0, <1>1, <1>3, ShrunkClean, StillRefused
<1>5. CASE UNCHANGED <<rows, ended>>
  BY <1>3, <1>4, <1>5, ShrunkClean
<1>6. CASE rows' = LogoutRevokes(k) /\ ended' = ended \cup ({Family(k)} \ {0})
  <2> HIDE DEF x
  <2>1. \A f : LiveOf(f)' \subseteq LiveOf(f)
    BY <1>3 DEF Shrunk, LiveOf, IsLive
  <2>2. ASSUME k # 0, NEW f, f = Family(k), NEW j \in LiveOf(f)'
        PROVE  FALSE
    <3>1. k \in DOMAIN rows /\ rows[k] \in Row /\ f = rows[k].family
      BY <1>0, <2>2, FamilyOf
    <3>2. j \in DOMAIN rows /\ rows[j].family = rows[k].family /\ ~rows[j].revoked
          /\ ~rows'[j].revoked
      <4>1. j \in LiveOf(f)
        BY <2>1, <2>2
      <4>2. ~rows'[j].revoked
        BY <2>2 DEF LiveOf, IsLive
      <4> QED BY <3>1, <4>1, <4>2 DEF LiveOf, IsLive
    <3>3. j = k
      BY <1>2, <2>2, <3>2 DEF CleanIn
    <3>4. rows' = [rows EXCEPT ![k].revoked = TRUE]
      BY <1>6, <2>2, <3>2, <3>3 DEF LogoutRevokes, IsLive, RevokeRow
    <3>5. rows'[k].revoked
      BY <3>1, <3>4 DEF Row
    <3> QED BY <3>2, <3>3, <3>5
  <2>3. k = 0 => {Family(k)} \ {0} = {}
    BY DEF Family
  <2>4. ASSUME NEW f \in ended'
        PROVE  LiveOf(f)' = {}
    <3>1. CASE f \in ended
      BY <2>1, <3>1 DEF EndedAreDead
    <3>2. CASE f \notin ended
      <4>1. f = Family(k) /\ k # 0
        BY <1>6, <2>3, <2>4, <3>2
      <4> QED BY <2>2, <4>1
    <3> QED BY <3>1, <3>2
  <2> QED BY <1>4, <2>4 DEF EndedAreDead
<1> QED BY <1>1, <1>5, <1>6

LEMMA StillServeRefresh ==
    ASSUME TypeInv, Safe, NEW t \in Tabs, StillAt(t), EndedAreDead, ServeRefresh(t)
    PROVE  StillAt(t)' /\ EndedAreDead'
<1> DEFINE x == call[t]["refresh"]
           k == x.token
<1>0. "refresh" \in Kinds /\ "login" \in Kinds /\ "logout" \in Kinds /\ k \in Token
  BY CallAt DEF Kinds
<1>1. UNCHANGED <<jar, tab, logoutPending, leaving, ended>> /\ x.st = "sent"
  BY DEF ServeRefresh, browser
<1>2. ASSUME NEW result, Answered(t, "refresh", result, 0), Shrunk(rows')
      PROVE  StillAt(t)' /\ EndedAreDead'
  <2>1. CleanStays /\ EndedAreDead'
    BY <1>1, <1>2, ShrunkClean
  <2> QED BY <1>0, <1>1, <1>2, <2>1, StillRefused
<1>3. CASE k = 0 \/ ~ProofMatches(x)
  <2>1. rows' = rows
        /\ (Answered(t, "refresh", "unauthorized", 0) \/ Answered(t, "refresh", "refused", 0))
    BY <1>3 DEF ServeRefresh
  <2> QED BY <1>2, <2>1, Revocations
<1>4. CASE k # 0 /\ ProofMatches(x)
  <2>0. k \in DOMAIN rows /\ rows[k] \in Row
    BY <1>0, <1>4, FamilyOf
  <2>1. CASE ~IsLive(k) \/ rows[k].expired \/ rows[k].version # version
    <3>1. /\ rows' = RevokeRow(k) \/ rows' = RevokeFamily(rows[k].family)
          /\ Answered(t, "refresh", "unauthorized", 0)
      BY <1>4, <2>1 DEF ServeRefresh, AfterReuse
    <3> QED BY <1>2, <2>0, <3>1, Revocations
  <2>2. CASE IsLive(k) /\ ~rows[k].expired /\ rows[k].version = version
    <3> DEFINE old == [rows EXCEPT ![k].revoked = TRUE, ![k].replaced = TRUE]
               f == rows[k].family
    <3>1. /\ rows' = Append(old, NewRow(f))
          /\ Answered(t, "refresh", "ok", Len(rows) + 1)
      BY <1>4, <2>2 DEF ServeRefresh, Rotated
    <3>2. Shrunk(old) /\ f \in Nat
      BY <2>0, Revocations DEF Row
    <3>3. ASSUME NEW j \in DOMAIN rows, rows[j].family = f
          PROVE  old[j].revoked
      <4>1. rows \in Seq(Row) /\ rows[j] \in Row
        BY DEF TypeInv, RowsTyped
      <4>2. CASE j = k
        BY <2>0, <4>1, <4>2 DEF Row
      <4>3. CASE j # k
        <5>1. rows[j].revoked
          BY <2>0, <2>2, <3>3, <4>3 DEF Safe, OneLiveToken, IsLive
        <5> QED BY <3>2, <5>1 DEF Shrunk
      <4> QED BY <4>2, <4>3
    <3>4. f \notin ended
      BY <2>0, <2>2 DEF EndedAreDead, LiveOf
    <3> HIDE DEF old, f
    <3>5. /\ CleanIn(rows', Len(rows) + 1)
          /\ \A g : g # f => LiveOf(g)' \subseteq LiveOf(g)
      BY <3>1, <3>2, <3>3, NewIsClean
    <3>6. EndedAreDead'
      BY <1>1, <3>4, <3>5 DEF EndedAreDead
    <3>7. PICK y : Becomes(t, "refresh", y) /\ y.st = "answered" /\ y.issued = Len(rows) + 1
      BY <1>0, <3>1, AnswerBecomes
    <3>8. /\ call'[t]["refresh"] = y /\ call'[t]["login"] = call[t]["login"]
          /\ call'[t]["logout"] = call[t]["logout"]
      BY <1>0, <3>7 DEF Becomes
    <3>9. /\ tab[t].page = "loading" /\ ~logoutPending
          /\ call[t]["login"].st = "idle" /\ call[t]["logout"].st = "idle"
      BY <1>1 DEF StillAt, Orderly
    <3>10. Orderly(tab'[t].page, call'[t], rows', jar', logoutPending')
      BY <1>1, <3>5, <3>7, <3>8, <3>9 DEF Orderly
    <3> QED BY <1>1, <3>6, <3>9, <3>10 DEF StillAt, Marker
  <2> QED BY <2>1, <2>2
<1> QED BY <1>3, <1>4

LEMMA StillKept ==
    ASSUME TypeInv, Safe, LoadInv, OneTab, Still, [Next]_vars
    PROVE  Still'
<1>1. CASE UNCHANGED vars
  BY <1>1 DEF vars, server, browser, history, Still, NoRefreshRaces, Marker, EndedAreDead,
              LiveOf, IsLive
<1>2. ASSUME NEW t \in Tabs, TabStep(t)
      PROVE  Still'
  <2> SUFFICES ASSUME NoRefreshRaces PROVE Still'
    BY <1>2, OthersKept DEF Still, NoRefreshRaces
  <2>1. Alone(t)
    BY <1>2, ActsAlone DEF OneTab, NoRefreshRaces
  <2>2. StillAt(t) /\ EndedAreDead /\ budget["stale"] = 0
    BY DEF Still, StillAt
  <2>3. ~AccessExpires(t)
    BY <2>2 DEF AccessExpires, Spend
  <2>4. ASSUME StillAt(t)', EndedAreDead', \/ budget' = budget
                                          \/ budget' = [budget EXCEPT !["closed"] = @ - 1]
                                          \/ budget' = [budget EXCEPT !["lost"] = @ - 1]
                                          \/ budget' = [budget EXCEPT !["wrong"] = @ - 1]
        PROVE  Still'
    <3>1. budget' ["stale"] = 0
      BY <2>2, <2>4 DEF TypeInv, RestTyped
    <3> QED BY <1>2, <2>1, <2>4, <3>1, StillLeft
  <2>5. ASSUME UNCHANGED <<rows, ended>>
        PROVE  EndedAreDead'
    BY <2>2, <2>5 DEF EndedAreDead, LiveOf, IsLive
  <2>6. CASE OpenTab(t) \/ Login(t) \/ UseAccess(t) \/ Logout(t)
    <3>1. UNCHANGED <<rows, ended, budget>>
      BY <2>6 DEF OpenTab, Login, UseAccess, Logout, server, history
    <3> QED BY <2>1, <2>2, <2>4, <2>5, <2>6, <3>1, StillAsk
  <2>7. CASE Serve(t)
    <3>1. budget' = budget
      BY <2>7 DEF Serve, ServeLogin, ServeRefresh, ServeLogout
    <3>2. StillAt(t)' /\ EndedAreDead'
      BY <2>2, <2>7, StillServeLogin, StillServeRefresh, StillServeLogout DEF Serve
    <3> QED BY <2>4, <3>1, <3>2
  <2>8. CASE \/ \E k \in Kinds : SignIn(t, k)
             \/ RefreshFails(t) \/ LoginFails(t) \/ LogoutReturns(t) \/ CloseTab(t)
    <3>1. /\ UNCHANGED <<rows, ended>>
          /\ budget' = budget \/ budget' = [budget EXCEPT !["closed"] = @ - 1]
      BY <2>8 DEF SignIn, RefreshFails, LoginFails, LogoutReturns, CloseTab, Spend, server, history
    <3> QED BY <2>2, <2>4, <2>5, <2>8, <3>1, StillHandle
  <2>9. ASSUME NEW k \in Kinds, Arrive(t, k) \/ LoseAnswer(t, k)
        PROVE  Still'
    <3>1. /\ UNCHANGED <<rows, ended>>
          /\ budget' = budget \/ budget' = [budget EXCEPT !["lost"] = @ - 1]
      BY <2>9 DEF Arrive, LoseAnswer, Spend, server, history
    <3> QED BY <2>2, <2>4, <2>5, <2>9, <3>1, StillArrive, StillLose DEF OneTab
  <2>10. CASE RefuseLogin(t)
    <3>1. UNCHANGED <<rows, ended, jar, tab, logoutPending, leaving>> /\ Spend("wrong")
      BY <2>10 DEF RefuseLogin, server, browser, history
    <3>2. CleanStays /\ "login" \in Kinds
      BY <3>1, SameClean DEF Kinds
    <3>3. StillAt(t)'
      BY <2>2, <2>10, <3>1, <3>2, StillRefused DEF RefuseLogin
    <3> QED BY <2>4, <2>5, <3>1, <3>3 DEF Spend
  <2> QED BY <1>2, <2>3, <2>6, <2>7, <2>8, <2>9, <2>10 DEF TabStep, Continue
<1>3. CASE ChangeAccount \/ \E f \in DOMAIN rows : SessionExpires(f)
  <2>1. /\ jar' \in {0, jar} /\ Spend("changes")
        /\ UNCHANGED <<call, tab, env, logoutPending, leaving, ended>>
    BY <1>3 DEF ChangeAccount, SessionExpires, Spend, browser, history
  <2>2. Shrunk(rows')
    <3>1. CASE ChangeAccount
      <4>1. OnRows(rows') /\ \A k \in DOMAIN rows : Aged(rows[k], rows'[k])
        BY <3>1, Zenon DEF ChangeAccount, OnRows, Aged
      <4> QED BY <4>1, ShrunkRows
    <3>2. ASSUME NEW f, SessionExpires(f)
          PROVE  Shrunk(rows')
      <4>1. rows' = [k \in DOMAIN rows |->
                      IF rows[k].family = f THEN [rows[k] EXCEPT !.expired = TRUE] ELSE rows[k]]
        BY <3>2 DEF SessionExpires
      <4>2. OnRows(rows') /\ \A k \in DOMAIN rows : Aged(rows[k], rows'[k])
        BY <4>1, Zenon DEF OnRows, Aged
      <4> QED BY <4>2, ShrunkRows
    <3> QED BY <1>3, <3>1, <3>2
  <2> SUFFICES ASSUME NoRefreshRaces PROVE Still'
    BY <2>1 DEF Still, NoRefreshRaces
  <2>3. budget' ["stale"] = 0
    BY <2>1 DEF Spend, Still, TypeInv, RestTyped
  <2>4. CleanStays /\ EndedAreDead'
    BY <2>1, <2>2, ShrunkClean DEF Still
  <2>5. CleanIn(rows, jar) => CleanIn(rows', jar')
    <3>1. jar \in Token /\ CleanIn(rows', 0)
      BY Unmoved DEF CleanIn
    <3> QED BY <2>1, <2>4, <3>1 DEF CleanStays
  <2>6. ASSUME NEW t \in Tabs
        PROVE  ~tab'[t].stale /\ Orderly(tab'[t].page, call'[t], rows', jar', logoutPending')
    <3>1. "refresh" \in Kinds /\ "login" \in Kinds /\ "logout" \in Kinds
      BY DEF Kinds
    <3>2. \A k \in Kinds :
             /\ CleanIn(rows, call[t][k].token) => CleanIn(rows', call[t][k].token)
             /\ CleanIn(rows, call[t][k].issued) => CleanIn(rows', call[t][k].issued)
      BY <2>4, CleanCalls
    <3>3. ~tab[t].stale /\ Orderly(tab[t].page, call[t], rows, jar, logoutPending)
      BY DEF Still
    <3> QED BY <2>1, <2>5, <3>1, <3>2, <3>3 DEF Orderly
  <2>7. Marker'
    BY <2>1, <2>5 DEF Still, Marker
  <2> QED BY <2>3, <2>4, <2>6, <2>7 DEF Still
<1> QED BY <1>1, <1>2, <1>3 DEF Next, TabStep

LEMMA InitStill == Init => Still
<1> SUFFICES ASSUME Init, NoRefreshRaces PROVE Still
  BY DEF Still
<1>1. /\ Marker /\ EndedAreDead /\ budget["stale"] = 0
  BY DEF Init, Marker, EndedAreDead, NoRefreshRaces
<1>2. ASSUME NEW t \in Tabs
      PROVE  ~tab[t].stale /\ Orderly(tab[t].page, call[t], rows, jar, logoutPending)
  <2>1. /\ tab[t].page = "closed" /\ ~tab[t].stale
        /\ \A k \in Kinds : call[t][k].st = "idle"
    BY SentFields DEF Init
  <2> QED BY <2>1 DEF Orderly, Kinds
<1> QED BY <1>1, <1>2 DEF Still

\* An acknowledged logout leaves no live token of its login, when no refresh of the
\* tab runs beside it.
THEOREM LogoutIsFinal == Spec => []LogoutEndsSession
<1>1. Still => LogoutEndsSession
  BY DEF Still, EndedAreDead, LogoutEndsSession
<1> QED BY <1>1, InitTyped, InitSafe, NextKept, InitLoad, LoadKept, InitOneTab, OneTabKept,
           InitStill, StillKept, PTL DEF Spec

\* While a logout waits for its revocation only a login signs a tab in: a refresh
\* that would restore the session is never under way beside the marker.
THEOREM MarkerHolds == Spec => PendingLogoutHolds
<1> DEFINE Held == NoRefreshRaces =>
                     \A t \in Tabs : tab[t].page # "in" /\ tab'[t].page = "in" => leaving' = 0
<1>1. ASSUME TypeInv, Still, [Next]_vars
      PROVE  Held
  <2> SUFFICES ASSUME NoRefreshRaces, NEW u \in Tabs, tab[u].page # "in", tab'[u].page = "in"
               PROVE  leaving' = 0
    OBVIOUS
  <2>1. tab \in [Tabs -> TabState]
    BY <1>1, Unmoved
  <2>2. \E t \in Tabs : \E k \in Kinds : SignIn(t, k)
    <3>1. ~UNCHANGED vars /\ tab' # tab
      BY DEF vars
    <3>2. PICK t \in Tabs : TabStep(t)
      BY <1>1, <3>1 DEF Next, TabStep, ChangeAccount, SessionExpires
    <3>3. u = t
      BY <1>1, <3>2, OthersKept
    <3>4. CASE \/ OpenTab(t) \/ UseAccess(t) \/ Logout(t)
               \/ RefreshFails(t) \/ LoginFails(t) \/ LogoutReturns(t)
               \/ AccessExpires(t) \/ CloseTab(t)
      <4>1. tab'[t].page # "in"
        BY <2>1, <3>3, <3>4 DEF OpenTab, UseAccess, Logout, RefreshFails, LoginFails,
             LogoutReturns, AccessExpires, CloseTab, SignedOut, AfterFailedRefresh,
             LeavesLoading, TabState
      <4> QED BY <3>3, <4>1
    <3>5. CASE \/ Login(t) \/ Serve(t) \/ RefuseLogin(t)
               \/ \E k \in Kinds : Arrive(t, k) \/ LoseAnswer(t, k)
      <4>1. tab' = tab
        BY <3>5 DEF Login, Serve, ServeLogin, ServeRefresh, ServeLogout, RefuseLogin,
                    Arrive, LoseAnswer
      <4> QED BY <3>1, <4>1
    <3> QED BY <3>2, <3>4, <3>5 DEF TabStep, Continue
  <2>3. PICK t \in Tabs, k \in Kinds : SignIn(t, k)
    BY <2>2
  <2>4. CASE k = "login"
    BY <2>3, <2>4 DEF SignIn
  <2>5. CASE k = "refresh"
    <3>1. call[t]["refresh"].st # "idle" /\ leaving' = leaving
      BY <2>3, <2>5 DEF SignIn
    <3>2. ~logoutPending /\ Marker
      BY <1>1, <3>1 DEF Still, Orderly
    <3> QED BY <3>1, <3>2 DEF Marker
  <2> QED BY <2>3, <2>4, <2>5 DEF SignIn
<1>2. TypeInv /\ Still /\ [Next]_vars => [Held]_vars
  BY <1>1
<1>3. PendingLogoutHolds <=> [][Held]_vars
  BY DEF PendingLogoutHolds
<1> QED BY <1>2, <1>3, InitTyped, InitSafe, NextKept, InitLoad, LoadKept, InitOneTab,
           OneTabKept, InitStill, StillKept, PTL DEF Spec
=============================================================================

----------------------------- MODULE TeamScreens -----------------------------
(***************************************************************************)
(* The other two management screens, over the accounts, the stalls, their  *)
(* staff and their terminals: "stalls" (StallOwner) and "users" (useUsers  *)
(* with the staff list).  Each shows one list, asks for several changes at *)
(* a time, patches the list as the answers come and then loads it again;   *)
(* requests of other managers run beside them.  The manager of the tab is  *)
(* the owner.  Sessions and sockets a change ends are StaffSessions'.      *)
(***************************************************************************)
EXTENDS ManagementScreens, TLC

CONSTANTS
    People, Terminals,
    Rosters,       \* bound: for each of the two screens, who may be hired at first
    Edits          \* bound: what an account is asked to become

VARIABLES
    account,       \* users: an account has a role, a password, a PIN
    placed,        \* stall_staff
    place,         \* stalls: "absent", "live" or "deleted"
    terminal,      \* stall_devices
    calls,         \* the requests of this tab and of other managers
    list,          \* the stalls or the users, as loaded last
    selected,      \* StallOwner: selectedStallId
    transfer,      \* StallOwner: transferConfirm
    form           \* useUsers: userForm, while its window is open

staffVars == <<account, placed, place, terminal>>
tabVars == <<calls, list, selected, transfer, form>>
teamVars == <<staffVars, tabVars>>
allVars == <<screenVars, teamVars>>
-----------------------------------------------------------------------------
LiveStalls == {s \in StallIds : place[s] = "live"}
Members == {c \in People : account[c].state = "live"}

\* findAllStallsByOwnerId: the staff of a stall include deleted accounts.
StallsListed ==
    [s \in LiveStalls |-> [staff |-> {c \in People : placed[c] = s},
                           devices |-> {d \in Terminals : terminal[d] = [at |-> s, active |-> TRUE]}]]

\* findAllUsersByOwnerId
UsersListed == [c \in Members |-> [role |-> account[c].role, active |-> account[c].active]]

TeamList == IF view = "stalls" THEN StallsListed ELSE UsersListed

\* buildCreateCredentials and the column rules of a role.
FitsRole(a) == (a.pin <=> a.role = "cashier") /\ (a.password <=> a.role # "cashier")

\* applyUpdateCredentialRules: what the columns become, for the role that was read.
NeedsNothingNew(asked, old, new) ==
    IF new = "cashier"
    THEN ~asked.password /\ (asked.pin \/ old = "cashier")
    ELSE ~asked.pin /\ (asked.password \/ old # "cashier")

Rewritten(a, asked, old) ==
    LET new == Get(asked, "role", old) IN
    [a EXCEPT !.role = Get(asked, "role", @),
              !.active = Get(asked, "active", @),
              !.pin = new = "cashier" /\ (@ \/ asked.pin),
              !.password = new # "cashier" /\ (@ \/ asked.password)]
-----------------------------------------------------------------------------
\* loadStalls and fetchUsers: the first load, one after a change or an event, or
\* the automatic one.
Reload(kind) == [pc |-> "reload", kind |-> kind, mine |-> TRUE]

Asked(kind, who, at, asked, mine) ==
    [pc |-> "sent", id |-> events + 1, kind |-> kind, who |-> who, at |-> at,
     asked |-> asked, read |-> Nothing, mine |-> mine]

NoAccount == [state |-> "absent", role |-> "cashier", active |-> FALSE,
              password |-> FALSE, pin |-> FALSE]
Employed == [NoAccount EXCEPT !.state = "live", !.active = TRUE, !.pin = TRUE]

TeamInit ==
    /\ ScreenInit
    /\ view \notin {"none", "menu"} => product = CHOOSE m \in Menus : TRUE
    /\ \E hired \in IF view \in DOMAIN Rosters THEN Rosters[view] ELSE {{}},
          open \in IF view = "stalls" THEN {StallIds, {CHOOSE s \in StallIds : TRUE}} ELSE {{}} :
          /\ account = [c \in People |-> IF c \in hired THEN Employed ELSE NoAccount]
          /\ place = [s \in StallIds |-> IF s \in open THEN "live" ELSE "absent"]
          /\ placed \in [People -> open \cup {Nothing}]
          /\ \A c \in People \ hired : placed[c] = Nothing
          /\ \E s \in {Nothing} \cup (open \cap {CHOOSE t \in StallIds : TRUE}) :
                terminal = [d \in Terminals |-> [at |-> s, active |-> s # Nothing]]
    /\ calls = IF view \in {"stalls", "users"} THEN {Reload("load")} ELSE {}
    /\ list = << >>
    /\ selected = Nothing
    /\ transfer = Nothing
    /\ form = Nothing

\* A change is asked for, by this tab or by another manager.
Request(kind, who, at, asked, mine) ==
    /\ Spend(1)
    /\ calls' = calls \cup {Asked(kind, who, at, asked, mine)}
    /\ UNCHANGED <<categories, product, request, view, menuVars, reportVars, refreshing,
                   staffVars, list, selected, form>>

Elsewhere == UNCHANGED <<catalogVars, view, menuVars, reportVars>>
-----------------------------------------------------------------------------
(* The server.  A request takes effect in one step, an account update in   *)
(* two: updateUser reads the account before its transaction.               *)

\* A step of the request: its answer is sent, or nobody waits for one here.
Becomes(k, pc) ==
    calls' = (calls \ {k}) \cup IF k.mine THEN {[k EXCEPT !.pc = pc]} ELSE {}

Refuse(k) == Becomes(k, "refused") /\ UNCHANGED staffVars

\* The request is refused, or changes what it names.
Decide(k, ok, change) == IF ok THEN change /\ Becomes(k, "ok") ELSE Refuse(k)

Assigns(k) ==
    Decide(k, place[k.at] = "live" /\ k.who \in Members /\ account[k.who].role = "cashier",
           placed' = [placed EXCEPT ![k.who] = k.at] /\ UNCHANGED <<account, place, terminal>>)

Unassigns(k) ==
    Decide(k, place[k.at] = "live" /\ k.who \in Members /\ placed[k.who] = k.at,
           placed' = [placed EXCEPT ![k.who] = Nothing] /\ UNCHANGED <<account, place, terminal>>)

CreatesStall(k) ==
    Decide(k, place[k.at] = "absent",
           place' = [place EXCEPT ![k.at] = "live"] /\ UNCHANGED <<account, placed, terminal>>)

\* deleteStallById revokes the terminals and leaves the staff assigned.
DeletesStall(k) ==
    Decide(k, place[k.at] = "live",
           /\ place' = [place EXCEPT ![k.at] = "deleted"]
           /\ terminal' = [d \in Terminals |-> IF terminal[d].at = k.at
                                               THEN [terminal[d] EXCEPT !.active = FALSE]
                                               ELSE terminal[d]]
           /\ UNCHANGED <<account, placed>>)

\* A terminal that is inactive already answers like one revoked now.
Deregisters(k) ==
    Decide(k, place[k.at] = "live" /\ terminal[k.who].at = k.at,
           /\ terminal' = [terminal EXCEPT ![k.who].active = FALSE]
           /\ UNCHANGED <<account, placed, place>>)

\* createUser
CreatesUser(k) ==
    Decide(k, account[k.who].state = "absent" /\ FitsRole(k.asked),
           /\ account' = [account EXCEPT ![k.who] =
                 [state |-> "live", role |-> k.asked.role, active |-> k.asked.active,
                  password |-> k.asked.password, pin |-> k.asked.pin]]
           /\ UNCHANGED <<placed, place, terminal>>)

\* requireManageableUser; deleteUserById leaves the assignment.
DeletesUser(k) ==
    Decide(k, k.who \in Members,
           /\ account' = [account EXCEPT ![k.who].state = "deleted", ![k.who].active = FALSE]
           /\ UNCHANGED <<placed, place, terminal>>)

Takes(k) ==
    \/ k.kind = "assign" /\ Assigns(k)
    \/ k.kind = "unassign" /\ Unassigns(k)
    \/ k.kind = "addStall" /\ CreatesStall(k)
    \/ k.kind = "deleteStall" /\ DeletesStall(k)
    \/ k.kind = "deregister" /\ Deregisters(k)
    \/ k.kind = "newUser" /\ CreatesUser(k)
    \/ k.kind = "deleteUser" /\ DeletesUser(k)

Commit(k) ==
    /\ k.pc = "sent"
    /\ Takes(k)
    /\ Elsewhere /\ UNCHANGED <<refreshing, list, selected, transfer, form>>

ReadAccount(k) ==
    /\ k.pc = "sent" /\ k.kind \in {"saveUser", "toggleUser"}
    /\ LET old == account[k.who].role IN
       IF k.who \in Members /\ NeedsNothingNew(k.asked, old, Get(k.asked, "role", old))
       THEN /\ calls' = (calls \ {k}) \cup {[k EXCEPT !.pc = "read", !.read = old]}
            /\ UNCHANGED staffVars
       ELSE Refuse(k)
    /\ Elsewhere /\ UNCHANGED <<refreshing, list, selected, transfer, form>>

\* The update names the row by its id alone.
WriteAccount(k) ==
    /\ k.pc = "read"
    /\ account' = [account EXCEPT ![k.who] = Rewritten(@, k.asked, k.read)]
    /\ Becomes(k, "ok")
    /\ Elsewhere /\ UNCHANGED <<placed, place, terminal, refreshing, list, selected, transfer, form>>

\* A manager registers a terminal at a stall; the event reaches the tab, or its
\* socket is down.
RegisterTerminal(d, s) ==
    /\ view = "stalls" /\ s \in LiveStalls /\ terminal[d].at = Nothing
    /\ Spend(1)
    /\ terminal' = [terminal EXCEPT ![d] = [at |-> s, active |-> TRUE]]
    /\ calls' \in {calls, calls \cup {Reload("load")}}
    /\ UNCHANGED <<categories, product, request, view, menuVars, reportVars, refreshing,
                   account, placed, place, list, selected, transfer, form>>

\* Another manager; when the request was sent does not matter, unless it updates
\* an account.
OtherTeamManager(kind, who, at) ==
    /\ \/ view = "stalls" /\ kind \in {"assign", "unassign"} /\ who \in Members /\ at \in LiveStalls
       \/ view = "stalls" /\ kind = "deleteStall" /\ who = Nothing /\ at \in LiveStalls
       \/ view = "stalls" /\ kind = "deregister" /\ who \in Terminals /\ at \in LiveStalls
       \/ view = "users" /\ kind = "deleteUser" /\ who \in Members /\ at = Nothing
    /\ Spend(1)
    /\ Takes(Asked(kind, who, at, << >>, FALSE))
    /\ UNCHANGED <<categories, product, request, view, menuVars, reportVars, refreshing, list,
                   selected, transfer, form>>

OtherEdit(c, edit) ==
    /\ view = "users" /\ c \in Members
    /\ Request("saveUser", c, Nothing, edit, FALSE)
    /\ UNCHANGED transfer
-----------------------------------------------------------------------------
(* The tab: StallOwner. *)

Change(kind, who, at, asked) == Request(kind, who, at, asked, TRUE)

\* The stall whose staff the list shows the person in.
ShownAt(c) == {s \in DOMAIN list : c \in list[s].staff}

Choosing == view = "stalls" /\ selected # Nothing /\ transfer = Nothing

\* The manager waits for the list before choosing another stall.
SelectStall(s) ==
    /\ view = "stalls" /\ transfer = Nothing /\ s # selected
    /\ events < MaxEvents /\ calls = {}
    /\ selected' = s
    /\ Elsewhere /\ UNCHANGED <<refreshing, staffVars, calls, list, transfer, form>>

\* handleAssign: who is shown at another stall is moved after a question.
HandleAssign(c) ==
    /\ Choosing /\ selected \notin ShownAt(c) /\ account[c].state # "absent"
    /\ IF ShownAt(c) = {}
       THEN Change("assign", c, selected, << >>) /\ UNCHANGED transfer
       ELSE /\ events < MaxEvents
            /\ transfer' = [who |-> c, to |-> selected]
            /\ Elsewhere /\ UNCHANGED <<refreshing, staffVars, calls, list, selected, form>>

HandleConfirmTransfer ==
    /\ transfer # Nothing
    /\ transfer' = Nothing
    /\ Change("assign", transfer.who, transfer.to, << >>)

CancelTransfer ==
    /\ transfer # Nothing
    /\ transfer' = Nothing
    /\ Elsewhere /\ UNCHANGED <<refreshing, staffVars, calls, list, selected, form>>

HandleUnassign(c) ==
    /\ Choosing /\ selected \in ShownAt(c)
    /\ Change("unassign", c, selected, << >>) /\ UNCHANGED transfer

\* One deletion, and one removal of a terminal, at a time.
NoneOf(kind) == \A k \in calls : k.kind # kind \/ ~k.mine

HandleAddStall(s) ==
    /\ view = "stalls" /\ transfer = Nothing /\ place[s] = "absent" /\ NoneOf("addStall")
    /\ Change("addStall", Nothing, s, << >>) /\ UNCHANGED transfer

HandleDeleteStall ==
    /\ Choosing /\ NoneOf("deleteStall")
    /\ Change("deleteStall", Nothing, selected, << >>) /\ UNCHANGED transfer

HandleDeregisterDevice(d) ==
    /\ Choosing /\ selected \in DOMAIN list /\ d \in list[selected].devices
    /\ NoneOf("deregister")
    /\ Change("deregister", d, selected, << >>) /\ UNCHANGED transfer
-----------------------------------------------------------------------------
(* The tab: useUsers, StaffList. *)

Listing == view = "users" /\ form = Nothing

OpenForm(c) ==
    /\ Listing /\ c \in DOMAIN list
    /\ events < MaxEvents
    /\ form' = [who |-> c, data |-> [password |-> FALSE, pin |-> FALSE] @@ list[c]]
    /\ Elsewhere /\ UNCHANGED <<refreshing, staffVars, calls, list, selected, transfer>>

CloseForm ==
    /\ form # Nothing /\ NoneOf("saveUser")
    /\ form' = Nothing
    /\ Elsewhere /\ UNCHANGED <<refreshing, staffVars, calls, list, selected, transfer>>

\* saveUser: the form sends role and active as they were loaded, unless changed.
SaveUser(edit) ==
    /\ form # Nothing /\ NoneOf("saveUser")
    /\ Change("saveUser", form.who, Nothing, With(form.data, edit)) /\ UNCHANGED transfer

\* A new account names its credential.
AddUser(c, edit) ==
    /\ Listing /\ account[c].state = "absent" /\ NoneOf("newUser")
    /\ DOMAIN edit = {"role", "active", "password", "pin"}
    /\ IF edit.role = "cashier" THEN edit.pin ELSE edit.password
    /\ Change("newUser", c, Nothing, edit) /\ UNCHANGED transfer

ToggleUserActive(c) ==
    /\ Listing /\ c \in DOMAIN list
    /\ Change("toggleUser", c, Nothing, [role |-> list[c].role, active |-> ~list[c].active,
                                        password |-> FALSE, pin |-> FALSE])
    /\ UNCHANGED transfer

\* The last active account of the list stays.
DeleteUser(c) ==
    /\ Listing /\ c \in DOMAIN list
    /\ list[c].active => \E other \in DOMAIN list \ {c} : list[other].active
    /\ Change("deleteUser", c, Nothing, << >>) /\ UNCHANGED transfer
-----------------------------------------------------------------------------
(* The tab: answers and loads. *)

\* updateAssignmentsLocally, and what the other handlers change in the list before
\* they load it again.
Patched(k) ==
    CASE k.kind = "assign" ->
            [s \in DOMAIN list |-> [list[s] EXCEPT !.staff =
                IF s = k.at THEN @ \cup {k.who} ELSE @ \ {k.who}]]
      [] k.kind = "unassign" ->
            [s \in DOMAIN list |-> IF s = k.at THEN [list[s] EXCEPT !.staff = @ \ {k.who}]
                                              ELSE list[s]]
      [] k.kind = "addStall" -> list @@ (k.at :> [staff |-> {}, devices |-> {}])
      [] k.kind = "deregister" ->
            [s \in DOMAIN list |-> IF s = k.at THEN [list[s] EXCEPT !.devices = @ \ {k.who}]
                                              ELSE list[s]]
      [] OTHER -> list

\* The answer to a change, or the request fails on its way back.
Answer(k) ==
    /\ k.pc \in {"ok", "refused"}
    /\ \/ /\ k.pc = "ok"
          /\ calls' = (calls \ {k}) \cup {Reload(k.kind)}
          /\ list' = Patched(k)
          /\ selected' = IF k.kind = "addStall" THEN k.at ELSE selected
          /\ UNCHANGED events
       \/ /\ IF k.pc = "ok" THEN Spend(1) ELSE UNCHANGED events
          /\ calls' = calls \ {k}
          /\ UNCHANGED <<list, selected>>
    /\ UNCHANGED <<categories, product, request, view, menuVars, reportVars, refreshing,
                   staffVars, transfer, form>>

AutoReload ==
    /\ view \in {"stalls", "users"} /\ ~refreshing
    /\ refreshing' = TRUE
    /\ calls' = calls \cup {Reload("auto")}
    /\ Elsewhere /\ UNCHANGED <<staffVars, list, selected, transfer, form>>

ReadList(k) ==
    /\ k.pc = "reload"
    /\ calls' = (calls \ {k}) \cup
          {[pc |-> "answered", kind |-> k.kind, mine |-> TRUE, answer |-> TeamList]}
    /\ Elsewhere /\ UNCHANGED <<refreshing, staffVars, list, selected, transfer, form>>

\* A form that was saved closes after the list was loaded again.
EndLoad(k, failed) ==
    /\ AfterLoad(IF k.kind = "auto" THEN "auto" ELSE "own", failed)
    /\ form' = IF k.kind = "saveUser" THEN Nothing ELSE form

\* loadStalls keeps the selected stall if it is still there.
ShowList(k) ==
    /\ k.pc = "answered"
    /\ calls' = calls \ {k}
    /\ list' = k.answer
    /\ selected' = IF view # "stalls" \/ DOMAIN k.answer = {} THEN Nothing
                   ELSE IF selected \in DOMAIN k.answer THEN selected
                   ELSE CHOOSE s \in DOMAIN k.answer : TRUE
    /\ EndLoad(k, FALSE)
    /\ Elsewhere /\ UNCHANGED <<staffVars, transfer>>

FailList(k) ==
    /\ k.pc \in {"reload", "answered"}
    /\ Spend(1)
    /\ calls' = calls \ {k}
    /\ EndLoad(k, TRUE)
    /\ UNCHANGED <<categories, product, request, view, menuVars, reportVars,
                   staffVars, list, selected, transfer>>
-----------------------------------------------------------------------------
Served(k) == Commit(k) \/ ReadAccount(k) \/ WriteAccount(k)

TeamNext ==
    \/ \E k \in calls : Served(k) \/ Answer(k) \/ ReadList(k) \/ ShowList(k) \/ FailList(k)
    \/ AutoReload
    \/ \E d \in Terminals, s \in StallIds : RegisterTerminal(d, s)
    \/ \E kind \in {"assign", "unassign", "deleteStall", "deregister", "deleteUser"},
          who \in People \cup Terminals \cup {Nothing}, s \in StallIds \cup {Nothing} :
             OtherTeamManager(kind, who, s)
    \/ \E c \in People, e \in Edits : OtherEdit(c, e)
    \/ \E s \in DOMAIN list : SelectStall(s)
    \/ \E c \in People : HandleAssign(c) \/ HandleUnassign(c)
    \/ HandleConfirmTransfer \/ CancelTransfer
    \/ \E s \in StallIds : HandleAddStall(s)
    \/ HandleDeleteStall
    \/ \E d \in Terminals : HandleDeregisterDevice(d)
    \/ \E c \in People : \/ ToggleUserActive(c) \/ DeleteUser(c)
                         \/ OpenForm(c) \/ \E e \in Edits : AddUser(c, e)
    \/ CloseForm
    \/ \E e \in Edits : SaveUser(e)

ManagementNext == TeamNext \/ (ScreenNext /\ UNCHANGED teamVars)

\* Requests are served, answers arrive, the list is refreshed every 30 seconds.
TeamFairness ==
    /\ WF_allVars(\E k \in calls : Served(k) \/ Answer(k) \/ ReadList(k) \/ ShowList(k))
    /\ WF_allVars(AutoReload)

ManagementSpec ==
    TeamInit /\ [][ManagementNext]_allVars /\ Fairness /\ TeamFairness
-----------------------------------------------------------------------------
\* Whatever was changed, by whom, and whichever loads failed or overtook each
\* other: when the changes and the failures end, the screen that is open comes to
\* show the catalog, the report that was chosen, the stalls or the accounts as they
\* are, with one of the stalls selected, and keeps showing it.
ScreensSettle ==
    <>[](/\ view = "menu" => MenuCurrent
         /\ view = "reports" => ReportCurrent
         /\ view \in {"stalls", "users"} => list = TeamList
         /\ view = "stalls" => (selected \in LiveStalls \/ LiveStalls = {}))

\* Every account has "exactly one role-appropriate credential" (architecture.md):
\* a cashier a PIN and no password, a manager a password and no PIN.
OneCredential == \A c \in Members : FitsRole(account[c])
=============================================================================

-------------------------- MODULE ManagementScreens --------------------------
(***************************************************************************)
(* A manager's browser tab over the catalog and the sales.  One screen is  *)
(* open: the menu, whose lists come from two queries answered at moments   *)
(* of their own and whose changes are requests to the catalog, or the      *)
(* sales report, which asks anew for every choice and every event.  Other  *)
(* managers change the catalog and cashiers sell meanwhile; loads fail.    *)
(* The tab is in the foreground, and every answer comes or fails.          *)
(***************************************************************************)
EXTENDS Catalog

CONSTANTS
    Changes,       \* bound: what the manager changes in an editor
    Touched,       \* bound: the products others change while the menu is open
    Views,         \* the screens that may be open; "none": no tab
    Ranges, Searches, LedgerPages,
    Nothing        \* no value

VARIABLES
    view,          \* the screen that is open
    shown,         \* useProducts: categories and products, as loaded last
    load,          \* the two loads that can be under way
    refreshing,    \* useAutoRefresh: isRefreshingRef
    operation,     \* the change this tab waits for
    editor,        \* MenuCatalog: the product being edited
    sales,         \* the sales recorded so far
    choice,        \* OrderHistory: what the report is asked for
    typed,         \* OrderHistory: the search text before its delay
    shownReport,   \* useSalesReport: the report shown
    fetches,       \* its requests under way
    timer          \* useSalesReport: a request is about to be made

menuVars == <<shown, load, operation, editor>>
reportVars == <<sales, choice, typed, shownReport, fetches, timer>>
screenVars == <<catalogVars, view, menuVars, reportVars, refreshing>>
-----------------------------------------------------------------------------
(* What the tab shows of a catalog. *)

\* mapProductToFrontend: the price and visibility of the first assignment.
Mapped(p) ==
    [category |-> product[p].category, stalls |-> DOMAIN product[p].at,
     price |-> IF product[p].at = << >> THEN product[p].price ELSE First(product[p].at).price,
     visible |-> product[p].at # << >> /\ First(product[p].at).visible]

Listed == [p \in {q \in Products : Live(q)} |-> Mapped(p)]

With(record, change) ==
    [f \in DOMAIN record |-> IF f \in DOMAIN change THEN change[f] ELSE record[f]]
-----------------------------------------------------------------------------
Idle == [pc |-> "none"]
NoLoad == [pc |-> "none", categories |-> Nothing, products |-> Nothing]
Loading == [NoLoad EXCEPT !.pc = "loading"]
FirstChoice == [range |-> CHOOSE x \in Ranges : TRUE, search |-> "", page |-> 1]

ScreenInit ==
    /\ CatalogInit
    /\ view \in Views
    /\ view = "reports" => product = CHOOSE m \in Menus : TRUE
    /\ shown = [categories |-> {}, products |-> << >>]
    /\ load = [own |-> IF view = "menu" THEN Loading ELSE NoLoad, auto |-> NoLoad]
    /\ refreshing = FALSE
    /\ operation = Idle
    /\ editor = Nothing
    /\ sales = 0
    /\ choice = FirstChoice
    /\ typed = ""
    /\ shownReport = Nothing
    /\ fetches = {}
    /\ timer = (view = "reports")

Others(vs) == UNCHANGED <<catalogVars, view, vs>>
-----------------------------------------------------------------------------
(* useProducts.loadData and useAutoRefresh on the menu screen. *)

\* The load follows a change of this kind.
AfterA(kind) == operation # Idle /\ operation.kind = kind

\* A saved form closes the editor; a deleted product closes its own.
ClosesEditor ==
    AfterA("save") \/ (AfterA("delete") /\ editor # Nothing /\ editor.target \in operation.targets)

\* Faulty variant: a load that failed leaves the flag set.
AfterLoadKeptByFailure(l, failed) ==
    refreshing' = IF l = "auto" THEN failed ELSE refreshing

AfterLoad(l, failed) == refreshing' = (refreshing /\ l # "auto")

AutoRefresh ==
    /\ view = "menu"
    /\ ~refreshing
    /\ refreshing' = TRUE
    /\ load' = [load EXCEPT !.auto = Loading]
    /\ Others(<<shown, operation, editor, reportVars>>)

\* The database answers one of the two queries.  After a category was deleted its
\* answer is shown at once, and the products are asked for then.
ReadCategories(l) ==
    /\ load[l].pc = "loading" /\ load[l].categories = Nothing
    /\ load' = [load EXCEPT ![l].categories = categories]
    /\ shown' = IF l = "own" /\ AfterA("dropCategory")
                THEN [shown EXCEPT !.categories = categories] ELSE shown
    /\ Others(<<operation, editor, reportVars, refreshing>>)

ReadProducts(l) ==
    /\ load[l].pc = "loading" /\ load[l].products = Nothing
    /\ l = "own" /\ AfterA("dropCategory") => load[l].categories # Nothing
    /\ load' = [load EXCEPT ![l].products = Listed]
    /\ Others(<<shown, operation, editor, reportVars, refreshing>>)

\* Both answers are there, and the operation that asked is over.
ShowLoad(l) ==
    /\ load[l].pc = "loading" /\ load[l].categories # Nothing /\ load[l].products # Nothing
    /\ shown' = [categories |-> load[l].categories, products |-> load[l].products]
    /\ load' = [load EXCEPT ![l] = NoLoad]
    /\ IF l = "own"
       THEN /\ operation' = Idle
            /\ editor' = IF ClosesEditor THEN Nothing ELSE editor
       ELSE UNCHANGED <<operation, editor>>
    /\ AfterLoad(l, FALSE)
    /\ Others(reportVars)

\* loadData tells nobody that it failed; what was saved is saved.
FailLoad(l) ==
    /\ load[l].pc = "loading"
    /\ Spend(1)
    /\ load' = [load EXCEPT ![l] = NoLoad]
    /\ IF l = "own"
       THEN /\ operation' = Idle
            /\ editor' = IF ClosesEditor THEN Nothing ELSE editor
       ELSE UNCHANGED <<operation, editor>>
    /\ AfterLoad(l, TRUE)
    /\ UNCHANGED <<categories, product, request, view, shown, reportVars>>
-----------------------------------------------------------------------------
(* MenuCatalog and CategoryOwner.  The manager waits for one change to end *)
(* before the next.                                                        *)

Ready == view = "menu" /\ operation = Idle /\ load.own = NoLoad

\* A change is sent as one request for every target.
Send(kind, targets, requestKind, asked) ==
    \E R \in SUBSET Requests : \E to \in [R -> targets] :
        /\ Cardinality(R) = Cardinality(targets) /\ \A t \in targets : \E r \in R : to[r] = t
        /\ \A r \in R : request[r].pc = "none"
        /\ request' = [r \in Requests |->
                IF r \in R THEN Posted(requestKind, to[r], asked) ELSE request[r]]
        /\ Spend(Cardinality(R))
        /\ operation' = [pc |-> "sent", kind |-> kind, targets |-> targets, waits |-> R]
        /\ UNCHANGED <<categories, product, view, shown, load, refreshing, reportVars>>

OpenEditor(p) ==
    /\ Ready /\ editor = Nothing
    /\ events < MaxEvents
    /\ editor' = [target |-> p, form |-> shown.products[p]]
    /\ Others(<<shown, load, operation, reportVars, refreshing>>)

\* The form goes out whole, the columns that were not changed as they were
\* loaded.
SaveProduct(change) ==
    /\ Ready /\ editor # Nothing
    /\ Send("save", {editor.target}, "update", With(editor.form, change))
    /\ UNCHANGED editor

NewProduct(asked) ==
    /\ Ready /\ editor = Nothing /\ asked.category \in shown.categories
    /\ Cardinality({p \in Products : product[p].state = "absent"}) >
            Cardinality({r \in Requests : request[r].pc # "none" /\ request[r].kind = "create"})
    /\ Send("save", {"new"}, "create", asked)
    /\ UNCHANGED editor

ToggleAvailability(p) ==
    /\ Ready
    /\ LET old == shown.products[p]
       IN  Send("toggle", {p}, "update", With(old, [visible |-> ~old.visible]))
    /\ UNCHANGED editor

DeleteProduct(p) ==
    /\ Ready
    /\ Send("delete", {p}, "delete", << >>)
    /\ UNCHANGED editor

MoveProducts(P, c) ==
    /\ Ready /\ P # {} /\ c \in shown.categories
    /\ Send("move", P, "update", [category |-> c])
    /\ UNCHANGED editor

SaveCategory(c) ==
    /\ Ready /\ c \notin shown.categories
    /\ Send("addCategory", {c}, "addCategory", << >>)
    /\ UNCHANGED editor

DeleteCategory(c) ==
    /\ Ready
    /\ \A p \in DOMAIN shown.products : shown.products[p].category # c
    /\ Send("dropCategory", {c}, "dropCategory", << >>)
    /\ UNCHANGED editor

\* The answer to a change: the lists are loaded again after a change that was
\* made and after a move that failed, whose other requests may still be under
\* way; any other failure ends the operation.
Answered(r) ==
    /\ Ended(r)
    /\ request' = [request EXCEPT ![r] = NoRequest]
    /\ IF operation = Idle \/ operation.pc # "sent" \/ r \notin operation.waits
       THEN UNCHANGED <<operation, load>>
       ELSE IF request[r].pc = "done" /\ operation.waits # {r}
       THEN operation' = [operation EXCEPT !.waits = @ \ {r}] /\ UNCHANGED load
       ELSE IF request[r].pc = "done" \/ operation.kind = "move"
       THEN /\ operation' = [operation EXCEPT !.pc = "loading"]
            /\ load' = [load EXCEPT !.own = Loading]
       ELSE operation' = Idle /\ UNCHANGED load
    /\ UNCHANGED <<categories, product, events, view, shown, editor, refreshing, reportVars>>

\* Another manager, or another client of the API, while the menu is open or no
\* screen is.
OtherManager(r) ==
    /\ view \in {"none", "menu"}
    /\ \/ \E p \in IF view = "menu" THEN Touched ELSE Products :
            \/ Ask(r, "delete", p, << >>)
            \/ \E u \in IF view = "menu" THEN Changes ELSE Updates : Ask(r, "update", p, u)
       \/ \E c \in categories : Ask(r, "dropCategory", c, << >>)
       \/ \E c \in Categories \ categories : Ask(r, "addCategory", c, << >>)
    /\ UNCHANGED <<categories, product, view, menuVars, reportVars, refreshing>>
-----------------------------------------------------------------------------
(* OrderHistory and useSalesReport. *)

\* A sale is recorded.  Its event reaches the tab, or the socket is down.
RecordSale ==
    /\ view = "reports"
    /\ Spend(1)
    /\ sales' = sales + 1
    /\ timer' \in {timer, TRUE}
    /\ UNCHANGED <<categories, product, request, view, menuVars, choice, typed, shownReport,
                   fetches, refreshing>>

\* A new choice starts at the first page and asks at once; the old timer is
\* cleared, the old request is not.
Choose(c) ==
    /\ view = "reports"
    /\ events < MaxEvents
    /\ c # choice
    /\ events' = events + 1
    /\ choice' = c
    /\ timer' = TRUE
    /\ UNCHANGED <<categories, product, request, view, menuVars, sales, typed, shownReport,
                   fetches, refreshing>>

ChooseRange(x) == Choose([choice EXCEPT !.range = x, !.page = 1])
TurnPage(n) == Choose([choice EXCEPT !.page = n])

\* The search box: the page turns back at once, the text counts 300 ms later.
TypeSearch(q) ==
    /\ typed # q
    /\ typed' = q
    /\ view = "reports" /\ Spend(1)
    /\ choice' = [choice EXCEPT !.page = 1]
    /\ timer' = (timer \/ choice.page # 1)
    /\ UNCHANGED <<categories, product, request, view, menuVars, sales, shownReport,
                   fetches, refreshing>>

TakeSearch ==
    /\ typed # choice.search
    /\ choice' = [choice EXCEPT !.search = typed]
    /\ timer' = TRUE
    /\ Others(<<menuVars, sales, typed, shownReport, fetches, refreshing>>)

Fetch(auto) ==
    fetches' = fetches \cup {[choice |-> choice, auto |-> auto, answer |-> Nothing]}

TimedFetch ==
    /\ timer
    /\ timer' = FALSE
    /\ Fetch(FALSE)
    /\ Others(<<menuVars, sales, choice, typed, shownReport, refreshing>>)

AutoFetch ==
    /\ view = "reports" /\ ~refreshing
    /\ refreshing' = TRUE
    /\ Fetch(TRUE)
    /\ Others(<<menuVars, sales, choice, typed, shownReport, timer>>)

HandleRefresh ==
    /\ view = "reports"
    /\ Spend(1)
    /\ Fetch(FALSE)
    /\ UNCHANGED <<categories, product, request, view, menuVars, sales, choice, typed, shownReport,
                   timer, refreshing>>

Compute(f) ==
    /\ f.answer = Nothing
    /\ fetches' = (fetches \ {f}) \cup {[f EXCEPT !.answer = <<f.choice, sales>>]}
    /\ Others(<<menuVars, sales, choice, typed, shownReport, timer, refreshing>>)

\* Answers come in any order; the one that comes last is shown, whatever it was
\* asked for.
ShowReport(f) ==
    /\ f.answer # Nothing
    /\ shownReport' = f.answer
    /\ fetches' = fetches \ {f}
    /\ AfterLoad(IF f.auto THEN "auto" ELSE "own", FALSE)
    /\ Others(<<menuVars, sales, choice, typed, timer>>)

FailReport(f) ==
    /\ Spend(1)
    /\ fetches' = fetches \ {f}
    /\ AfterLoad(IF f.auto THEN "auto" ELSE "own", TRUE)
    /\ UNCHANGED <<categories, product, request, view, menuVars, sales, choice, typed, shownReport,
                   timer>>
-----------------------------------------------------------------------------
Loaders == {"own", "auto"}
Serving(r) == Serve(r) /\ UNCHANGED <<view, menuVars, reportVars, refreshing>>

ScreenNext ==
    \/ \E r \in Requests : Serving(r) \/ Answered(r) \/ OtherManager(r)
    \/ AutoRefresh
    \/ \E l \in Loaders : ReadCategories(l) \/ ReadProducts(l) \/ ShowLoad(l) \/ FailLoad(l)
    \/ \E p \in DOMAIN shown.products : OpenEditor(p) \/ ToggleAvailability(p) \/ DeleteProduct(p)
    \/ \E u \in Changes : SaveProduct(u)
    \/ \E u \in Updates : DOMAIN u = {"category", "price", "stalls", "visible"} /\ NewProduct(u)
    \/ \E P \in SUBSET DOMAIN shown.products, c \in Categories : MoveProducts(P, c)
    \/ \E c \in Categories : SaveCategory(c)
    \/ \E c \in shown.categories : DeleteCategory(c)
    \/ RecordSale
    \/ \E x \in Ranges : ChooseRange(x)
    \/ \E n \in LedgerPages : TurnPage(n)
    \/ \E q \in Searches : TypeSearch(q)
    \/ TakeSearch
    \/ TimedFetch
    \/ HandleRefresh
    \/ AutoFetch
    \/ \E f \in fetches : Compute(f) \/ ShowReport(f) \/ FailReport(f)

\* Timers fire, requests are served and answers arrive.  Nobody has to change
\* anything, and nothing has to fail.
Fairness ==
    /\ WF_screenVars(\E r \in Requests : Serving(r) \/ Answered(r))
    /\ WF_screenVars(AutoRefresh \/ AutoFetch)
    /\ \A l \in Loaders : WF_screenVars(ReadCategories(l) \/ ReadProducts(l) \/ ShowLoad(l))
    /\ WF_screenVars(TakeSearch \/ TimedFetch)
    /\ WF_screenVars(\E f \in fetches : Compute(f) \/ ShowReport(f))
-----------------------------------------------------------------------------
MenuCurrent == shown = [categories |-> categories, products |-> Listed]
ReportCurrent == shownReport = <<choice, sales>>
=============================================================================

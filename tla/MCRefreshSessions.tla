-------------------------- MODULE MCRefreshSessions --------------------------
(***************************************************************************)
(* Surroundings for checking RefreshSessions with TLC: two tabs with an    *)
(* access token that expires; two tabs that cannot read the cookie, in one *)
(* of which a password is mistyped; one undisturbed tab; and one tab that  *)
(* is reloaded and loses answers, its page unable to read the cookie.      *)
(***************************************************************************)
EXTENDS RefreshSessions, TLC

TwoTabs == [tabs |-> 2, readable |-> TRUE, rows |-> 3, stale |-> 1, closed |-> 0,
            lost |-> 0, wrong |-> 0, changes |-> 1]
Mistyped == [tabs |-> 2, readable |-> FALSE, rows |-> 3, stale |-> 1, closed |-> 0,
             lost |-> 0, wrong |-> 1, changes |-> 0]
OneTab == [tabs |-> 1, readable |-> TRUE, rows |-> 4, stale |-> 2, closed |-> 0,
           lost |-> 0, wrong |-> 0, changes |-> 2]
Reloads == [tabs |-> 1, readable |-> FALSE, rows |-> 4, stale |-> 0, closed |-> 2,
            lost |-> 2, wrong |-> 1, changes |-> 1]

MCBrowsers == {TwoTabs, Mistyped, OneTab, Reloads}

\* Tabs are interchangeable.
Symmetry == Permutations(Tabs)
=============================================================================

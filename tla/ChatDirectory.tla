---------------------------- MODULE ChatDirectory ----------------------------
(***************************************************************************)
(* What the backend promises about kitchen groups: a directory that gives  *)
(* every Telegram chat at most one stall.  A chat passes from one stall to *)
(* another only after it was free in between, and a stall that is given a  *)
(* chat leaves the one it had.                                             *)
(***************************************************************************)
CONSTANTS Stalls, Chats, None

VARIABLE owner  \* the stall each chat cooks for

Init == owner = [c \in Chats |-> None]

Without(s) == [c \in Chats |-> IF owner[c] = s THEN None ELSE owner[c]]

Give(c, s) ==
    /\ owner[c] = None
    /\ owner' = [Without(s) EXCEPT ![c] = s]

Retire(s) == owner' = Without(s)

Next == \E s \in Stalls : Retire(s) \/ \E c \in Chats : Give(c, s)

Spec == Init /\ [][Next]_owner
=============================================================================

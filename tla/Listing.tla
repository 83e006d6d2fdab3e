------------------------------ MODULE Listing ------------------------------
(***************************************************************************)
(* What a caller of user.Reader gets from a store that others write to     *)
(* while it is read (internal/user/user.go): a list that leaves out all or *)
(* nothing of what the store has held from the beginning of the call to    *)
(* its end, or no list.                                                    *)
(***************************************************************************)
CONSTANTS Users, Calls

VARIABLES
    held,       \* the users in the store
    call,       \* where each call is
    owed,       \* the users it must not leave out
    listed      \* those it has been given

vars == <<held, call, owed, listed>>

Init ==
    /\ held = {}
    /\ call = [c \in Calls |-> "idle"]
    /\ owed = [c \in Calls |-> {}]
    /\ listed = [c \in Calls |-> {}]

Create(u) == held' = held \cup {u} /\ UNCHANGED <<call, owed, listed>>

\* The store loses a user: a list need not show it any more.
Lose(u) ==
    /\ held' = held \ {u}
    /\ owed' = [c \in Calls |-> owed[c] \ {u}]
    /\ UNCHANGED <<call, listed>>

Begin(c) ==
    /\ call[c] = "idle"
    /\ call' = [call EXCEPT ![c] = "open"]
    /\ owed' = [owed EXCEPT ![c] = held]
    /\ UNCHANGED <<held, listed>>

Return(c) ==
    /\ call[c] = "open"
    /\ call' = [call EXCEPT ![c] = "listed"]
    /\ \E users \in SUBSET held :
          /\ users = {} \/ owed[c] \subseteq users
          /\ listed' = [listed EXCEPT ![c] = users]
    /\ UNCHANGED <<held, owed>>

\* Calls return an error, or are not answered; they may be made again.
Fail ==
    /\ \E calls \in SUBSET {c \in Calls : call[c] = "open"} :
          call' = [c \in Calls |-> IF c \in calls THEN "idle" ELSE call[c]]
    /\ UNCHANGED <<held, owed, listed>>

Next ==
    \/ \E u \in Users : Create(u) \/ Lose(u)
    \/ \E c \in Calls : Begin(c) \/ Return(c)
    \/ Fail

Spec == Init /\ [][Next]_vars
=============================================================================

--------------------------- MODULE UserProjection ---------------------------
(***************************************************************************)
(* What a consumer group promises to the readers of its store              *)
(* (internal/user/user.go: Creator on one side, Reader and Searcher on the *)
(* other): the store is a projection of the users that have been created.  *)
(* A user may be missing from it for any length of time, but nothing else  *)
(* is ever seen there, and what has been seen stays.                       *)
(***************************************************************************)
CONSTANTS
    Ids,        \* user ids
    Versions,   \* the contents of a user besides the id
    NoUser      \* no entry

Users == [id : Ids, version : Versions]

VARIABLES
    created,    \* the users created so far
    store       \* the entry of each id

Init == created = {} /\ store = [i \in Ids |-> NoUser]

\* A user comes into being, under an id no user has had.
Create(u) ==
    /\ \A v \in created : v.id # u.id
    /\ created' = created \cup {u}
    /\ UNCHANGED store

\* A created user shows up in the store.
Project(u) ==
    /\ u \in created
    /\ store' = [store EXCEPT ![u.id] = u]
    /\ UNCHANGED created

Next == \E u \in Users : Create(u) \/ Project(u)

Spec == Init /\ [][Next]_<<created, store>>

=============================================================================

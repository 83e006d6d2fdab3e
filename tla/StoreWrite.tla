----------------------------- MODULE StoreWrite -----------------------------
(***************************************************************************)
(* What a caller of user.Creator may rely on (internal/user/user.go): a    *)
(* call to Create writes users to a store until it replies.  When it has   *)
(* replied nil, every user has been written or refused and nothing more is *)
(* written; when it has replied an error, users may still be on their way. *)
(***************************************************************************)
CONSTANT Users

VARIABLES
    written,    \* the users the store has taken
    refused,    \* those it has turned down
    reply       \* what the caller has been told

vars == <<written, refused, reply>>

Init == written = {} /\ refused = {} /\ reply = "none"

Write(u) ==
    /\ reply # "nil"
    /\ written' = written \cup {u}
    /\ UNCHANGED <<refused, reply>>

Refuse(u) ==
    /\ reply # "nil"
    /\ refused' = refused \cup {u}
    /\ UNCHANGED <<written, reply>>

ReplyNil ==
    /\ reply = "none"
    /\ Users \subseteq written \cup refused
    /\ reply' = "nil"
    /\ UNCHANGED <<written, refused>>

ReplyError ==
    /\ reply = "none"
    /\ reply' = "error"
    /\ UNCHANGED <<written, refused>>

Next == ReplyNil \/ ReplyError \/ \E u \in Users : Write(u) \/ Refuse(u)

Spec == Init /\ [][Next]_vars
=============================================================================

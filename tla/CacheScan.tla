----------------------------- MODULE CacheScan -----------------------------
(***************************************************************************)
(* How a list is read from Redis (internal/storage/redis/user.go): the     *)
(* keys are collected page by page with SCAN while the consumers write,    *)
(* and the values are then read with one MGET.                             *)
(*                                                                         *)
(* Redis keeps its keys in buckets, which SCAN visits one after the other: *)
(* a page has the keys that are in its bucket then, perhaps none, and,     *)
(* when the table is being resized, keys that an earlier page had.         *)
(***************************************************************************)
EXTENDS Naturals, Sequences, SequencesExt

CONSTANTS
    Users,      \* users, each with its key
    Calls,      \* calls of Read
    Buckets,    \* the number of pages of an iteration
    Empty,      \* user.User{}
    MaxFaults   \* bound: failing commands and evictions

ASSUME SizeAssumption == Buckets \in Nat \ {0} /\ MaxFaults \in Nat
ASSUME EmptyAssumption == Empty \notin Users

VARIABLES
    bucket,     \* the bucket of each key
    cache,      \* the users in Redis
    pc,         \* where each call is
    cursor,     \* the pages it has read
    keys,       \* the keys it has found
    owed,       \* the users Redis has held since it began
    users,      \* the users it has returned
    faults

callVars == <<pc, cursor, keys, users>>
vars == <<bucket, cache, callVars, owed, faults>>

Init ==
    /\ bucket \in [Users -> 1 .. Buckets]
    /\ cache = {}
    /\ pc = [c \in Calls |-> "idle"]
    /\ cursor = [c \in Calls |-> 0]
    /\ keys = [c \in Calls |-> <<>>]
    /\ owed = [c \in Calls |-> {}]
    /\ users = [c \in Calls |-> <<>>]
    /\ faults = 0

Fault == faults < MaxFaults /\ faults' = faults + 1

Goto(c, l) == pc' = [pc EXCEPT ![c] = l]

----------------------------------------------------------------------------
(* The keys come, and may go.                                              *)

\* MSET, by a consumer: the user is there, or is there again.
Create(u) ==
    /\ cache' = cache \cup {u}
    /\ UNCHANGED <<bucket, callVars, owed, faults>>

\* Redis evicts a key, or somebody deletes it.
Evict(u) ==
    /\ u \in cache /\ Fault
    /\ cache' = cache \ {u}
    /\ owed' = [c \in Calls |-> owed[c] \ {u}]
    /\ UNCHANGED <<bucket, callVars>>

----------------------------------------------------------------------------
(* Read.                                                                   *)

Scan(c) ==
    /\ pc[c] = "idle"
    /\ Goto(c, "scanning")
    /\ owed' = [owed EXCEPT ![c] = cache]
    /\ UNCHANGED <<bucket, cache, cursor, keys, users, faults>>

InBucket(b) == {u \in cache : bucket[u] = b}
Again(c) == {<<>>} \cup {<<k>> : k \in cache \cap Range(keys[c])}

\* A slip: an empty page is taken for the end.
NextPageUntilEmpty(c) ==
    /\ pc[c] = "scanning" /\ cursor[c] < Buckets
    /\ \E again \in Again(c) :
         LET page == SetToSeq(InBucket(cursor[c] + 1)) \o again
         IN  /\ keys' = [keys EXCEPT ![c] = @ \o page]
             /\ cursor' = [cursor EXCEPT ![c] = IF page = <<>> THEN Buckets ELSE @ + 1]
    /\ UNCHANGED <<bucket, cache, pc, owed, users, faults>>

\* A slip: an empty page is asked for again.
NextPageNotEmpty(c) ==
    /\ pc[c] = "scanning" /\ cursor[c] < Buckets
    /\ InBucket(cursor[c] + 1) # {}
    /\ keys' = [keys EXCEPT ![c] = @ \o SetToSeq(InBucket(cursor[c] + 1))]
    /\ cursor' = [cursor EXCEPT ![c] = @ + 1]
    /\ UNCHANGED <<bucket, cache, pc, owed, users, faults>>

\* The iterator asks for the pages until the cursor is back at 0, whatever
\* they contain.
NextPage(c) ==
    /\ pc[c] = "scanning" /\ cursor[c] < Buckets
    /\ \E again \in Again(c) :
         keys' = [keys EXCEPT ![c] = @ \o SetToSeq(InBucket(cursor[c] + 1)) \o again]
    /\ cursor' = [cursor EXCEPT ![c] = @ + 1]
    /\ UNCHANGED <<bucket, cache, pc, owed, users, faults>>

\* iter.Err: Read returns the error.
ScanFails(c) ==
    /\ pc[c] = "scanning" /\ cursor[c] < Buckets /\ Fault
    /\ Goto(c, "failed")
    /\ UNCHANGED <<bucket, cache, cursor, keys, owed, users>>

NoKeys(c) ==
    /\ pc[c] = "scanning" /\ cursor[c] = Buckets /\ keys[c] = <<>>
    /\ Goto(c, "returned")
    /\ UNCHANGED <<bucket, cache, cursor, keys, owed, users, faults>>

\* A slip: a nil is not looked at, and its user stays empty.
MGetNil(c) ==
    /\ pc[c] = "scanning" /\ cursor[c] = Buckets /\ keys[c] # <<>>
    /\ users' = [users EXCEPT ![c] = [i \in DOMAIN keys[c] |->
                                        IF keys[c][i] \in cache THEN keys[c][i] ELSE Empty]]
    /\ Goto(c, "returned")
    /\ UNCHANGED <<bucket, cache, cursor, keys, owed, faults>>

\* MGET has nil for a key that is gone, which Read does not take for a user.
MGet(c) ==
    /\ pc[c] = "scanning" /\ cursor[c] = Buckets /\ keys[c] # <<>>
    /\ IF Range(keys[c]) \subseteq cache
       THEN users' = [users EXCEPT ![c] = keys[c]] /\ Goto(c, "returned")
       ELSE UNCHANGED users /\ Goto(c, "failed")
    /\ UNCHANGED <<bucket, cache, cursor, keys, owed, faults>>

\* MGET fails: its error is not looked at, and there are no values.
MGetFails(c) ==
    /\ pc[c] = "scanning" /\ cursor[c] = Buckets /\ keys[c] # <<>> /\ Fault
    /\ Goto(c, "returned")
    /\ UNCHANGED <<bucket, cache, cursor, keys, owed, users>>

----------------------------------------------------------------------------
ReadStep(c) == NextPage(c) \/ ScanFails(c) \/ NoKeys(c) \/ MGet(c) \/ MGetFails(c)

Next ==
    \/ \E u \in Users : Create(u) \/ Evict(u)
    \/ \E c \in Calls : Scan(c) \/ ReadStep(c)

\* A call goes on; nobody has to write.
Spec == Init /\ [][Next]_vars /\ \A c \in Calls : WF_vars(ReadStep(c))

----------------------------------------------------------------------------
(* Properties.                                                             *)

\* The type invariant: a list has no user that nobody has created.
TypeOK ==
    /\ bucket \in [Users -> 1 .. Buckets]
    /\ cache \subseteq Users
    /\ pc \in [Calls -> {"idle", "scanning", "failed", "returned"}]
    /\ cursor \in [Calls -> 0 .. Buckets]
    /\ keys \in [Calls -> Seq(Users)]
    /\ users \in [Calls -> Seq(Users)]
    /\ owed \in [Calls -> SUBSET Users]
    /\ faults \in 0 .. MaxFaults

\* However many pages there are, whichever are empty and whatever is written,
\* evicted or refused in between, a list leaves out all or nothing of what
\* Redis has held all the time, and has only what Redis holds at its end.
Listed == INSTANCE Listing WITH
    held <- cache,
    call <- [c \in Calls |-> CASE pc[c] = "scanning" -> "open"
                               [] pc[c] = "returned" -> "listed"
                               [] OTHER -> "idle"],
    listed <- [c \in Calls |-> IF pc[c] = "returned" THEN Range(users[c]) ELSE {}]
ImplementsListing == Listed!Spec

\* A list comes to an end while the consumers go on writing.
EveryListEnds == \A c \in Calls : pc[c] = "scanning" ~> pc[c] # "scanning"
=============================================================================

---------------------------- MODULE UserPipeline ----------------------------
(***************************************************************************)
(* A user's way through the system: a request creates it in the storage    *)
(* (internal/user/create, internal/storage/mysql or memory), the connector *)
(* publishes the new row, the two consumer groups copy it to the cache and *)
(* to the search index, and requests read it there (internal/user/read,    *)
(* internal/user/search, internal/storage/redis and elastic).              *)
(*                                                                         *)
(* Each consumer group is represented by what ConsumerGroup is shown to do *)
(* (UserProjection): a published user shows up in the store at some time,  *)
(* or the group has given up on it.                                        *)
(*                                                                         *)
(* The id of a user is drawn by the request that creates it (uuid.New), so *)
(* users are identified with the requests to create them.                  *)
(***************************************************************************)
EXTENDS Naturals

CONSTANTS
    Requests,       \* requests to create a user
    Queries,        \* requests to list or to search users
    StorageType,    \* config: "sql" or "memory"
    NoVersion,      \* the contents of a user, which no step looks at
    NoUser,         \* no entry
    MaxFaults       \* bound: failing operations and crashes

ASSUME StorageAssumption == StorageType \in {"sql", "memory"}
ASSUME BoundAssumption == MaxFaults \in Nat

VARIABLES
    \* the requests
    create,     \* where each request to create is
    status,     \* and what it has been answered
    query,      \* where each query is
    begun,      \* what the cache held when a list was begun
    result,     \* the users it has been answered with
    \* the storage
    executing,  \* INSERT statements MySQL has been sent and not dealt with
    rows,       \* the users stored
    \* the consumer groups
    published,  \* the rows the connector has published
    cache,      \* the users in Redis
    index,      \* the users in Elasticsearch
    visible,    \* those a search finds (documents are indexed without refresh)
    missedBy,   \* the users each group has given up on
    faults      \* how many operations have failed

requestVars == <<create, status>>
queryVars == <<query, begun, result>>
storageVars == <<executing, rows>>
groupVars == <<published, cache, index, visible, missedBy>>
vars == <<requestVars, queryVars, storageVars, groupVars, faults>>

Groups == {"cache", "search"}

Init ==
    /\ create = [r \in Requests |-> "idle"]
    /\ status = [r \in Requests |-> 0]
    /\ query = [q \in Queries |-> "idle"]
    /\ begun = [q \in Queries |-> {}]
    /\ result = [q \in Queries |-> {}]
    /\ executing = {} /\ rows = {} /\ published = {}
    /\ cache = {} /\ index = {} /\ visible = {}
    /\ missedBy = [g \in Groups |-> {}]
    /\ faults = 0

Fault == faults < MaxFaults /\ faults' = faults + 1

----------------------------------------------------------------------------
(* Create.                                                                 *)

Respond(r, code) ==
    /\ create' = [create EXCEPT ![r] = "answered"]
    /\ status' = [status EXCEPT ![r] = code]

\* A slip: the errors of the validator do not end the handler.
ValidationIgnored(r) ==
    /\ create[r] = "idle"
    /\ create' = [create EXCEPT ![r] = "storing"]
    /\ status' = [status EXCEPT ![r] = 400]
    /\ executing' = executing \cup {r}
    /\ UNCHANGED <<queryVars, rows, groupVars, faults>>

\* The body cannot be read, or a name is missing, too short or too long.
CreateRefused(r) ==
    /\ create[r] = "idle"
    /\ Respond(r, 400)
    /\ UNCHANGED <<queryVars, storageVars, groupVars, faults>>

\* The input is valid: the interactor draws the id and calls the storage.
CreateAccepted(r) ==
    /\ create[r] = "idle"
    /\ create' = [create EXCEPT ![r] = "storing"]
    /\ IF StorageType = "sql"
       THEN executing' = executing \cup {r} /\ UNCHANGED rows
       ELSE rows' = rows \cup {r} /\ UNCHANGED executing
    /\ UNCHANGED <<status, queryVars, groupVars, faults>>

\* MySQL executes a statement, perhaps after nobody waits for it any more.
Insert(r) ==
    /\ r \in executing
    /\ rows' = rows \cup {r}
    /\ executing' = executing \ {r}
    /\ UNCHANGED <<requestVars, queryVars, groupVars, faults>>

\* MySQL never gets to execute it.
InsertLost(r) ==
    /\ r \in executing
    /\ executing' = executing \ {r}
    /\ Fault
    /\ UNCHANGED <<requestVars, queryVars, rows, groupVars>>

\* A slip: the answer is given as soon as the statement is on its way.
AnswerEarly(r) ==
    /\ create[r] = "storing"
    /\ Respond(r, 201)
    /\ UNCHANGED <<queryVars, storageVars, groupVars, faults>>

\* The storage has returned nil.
CreateDone(r) ==
    /\ create[r] = "storing" /\ r \in rows
    /\ Respond(r, 201)
    /\ UNCHANGED <<queryVars, storageVars, groupVars, faults>>

\* The storage returns an error: the query timeout (mysql.UserStorage), a
\* lost connection.  Whether the row is there, or will be, is not known.
CreateFailed(r) ==
    /\ StorageType = "sql"
    /\ create[r] = "storing"
    /\ Respond(r, 500)
    /\ IF r \in executing \cup rows THEN Fault ELSE UNCHANGED faults
    /\ UNCHANGED <<queryVars, storageVars, groupVars>>

\* The process dies and is started again: its requests get no answer, and
\* the memory storage is empty.
Crash ==
    /\ Fault
    /\ create' = [r \in Requests |-> IF create[r] = "storing" THEN "lost" ELSE create[r]]
    /\ query' = [q \in Queries |-> IF query[q] \in {"listing", "searching"} THEN "lost" ELSE query[q]]
    /\ rows' = IF StorageType = "memory" THEN {} ELSE rows
    /\ UNCHANGED <<status, begun, result, executing, groupVars>>

----------------------------------------------------------------------------
(* From the storage to the stores that are read.                           *)

\* A slip: the handler fills the cache itself, next to the storage.
DualWrite(r) ==
    /\ create[r] = "storing"
    /\ published' = published \cup {r}
    /\ cache' = cache \cup {r}
    /\ UNCHANGED <<requestVars, queryVars, storageVars, index, visible, missedBy, faults>>

\* A slip: the handler publishes the user, as soon as the row is stored and the
\* request is answered; a connector reads every row of the log.
PublishAnswered(r) ==
    /\ StorageType = "sql"
    /\ status[r] = 201 /\ r \notin published
    /\ published' = published \cup {r}
    /\ UNCHANGED <<requestVars, queryVars, storageVars, cache, index, visible, missedBy, faults>>

\* The connector publishes a row of MySQL.
Publish(r) ==
    /\ StorageType = "sql"
    /\ r \in rows \ published
    /\ published' = published \cup {r}
    /\ UNCHANGED <<requestVars, queryVars, storageVars, cache, index, visible, missedBy, faults>>

\* A slip: both groups are given the same name, so that each message goes to
\* one of them only.
SharedGroup(r) ==
    /\ r \in published \ cache
    /\ index' = index \cup {r}
    /\ UNCHANGED <<requestVars, queryVars, storageVars, published, cache, visible, missedBy, faults>>

\* The cache group, the search group copy a user; they may do so again.
ProjectToCache(r) ==
    /\ r \in published
    /\ cache' = cache \cup {r}
    /\ UNCHANGED <<requestVars, queryVars, storageVars, published, index, visible, missedBy, faults>>

ProjectToIndex(r) ==
    /\ r \in published
    /\ index' = index \cup {r}
    /\ UNCHANGED <<requestVars, queryVars, storageVars, published, cache, visible, missedBy, faults>>

\* A group gives up on a user: Process failed, or the failure went unnoticed.
Miss(g, r) ==
    /\ r \in published
    /\ r \notin (IF g = "cache" THEN cache ELSE index) \cup missedBy[g]
    /\ missedBy' = [missedBy EXCEPT ![g] = @ \cup {r}]
    /\ Fault
    /\ UNCHANGED <<requestVars, queryVars, storageVars, published, cache, index, visible>>

\* Elasticsearch refreshes the index.
Refresh ==
    /\ visible # index
    /\ visible' = index
    /\ UNCHANGED <<requestVars, queryVars, storageVars, published, cache, index, missedBy, faults>>

----------------------------------------------------------------------------
(* Queries: the list comes from Redis and from nowhere else, a search from  *)
(* Elasticsearch.                                                          *)

QueryGoto(q, l) == query' = [query EXCEPT ![q] = l]

ListStart(q) ==
    /\ query[q] = "idle"
    /\ QueryGoto(q, "listing")
    /\ begun' = [begun EXCEPT ![q] = cache]
    /\ UNCHANGED <<requestVars, result, storageVars, groupVars, faults>>

\* A list is taken as one call of Listing: how SCAN and MGET come to what
\* Listing promises is the subject of CacheScan, which implements it, and no
\* property of this module.
ListDone(q) ==
    /\ query[q] = "listing"
    /\ \E users \in SUBSET cache :
          /\ begun[q] \subseteq users
          /\ result' = [result EXCEPT ![q] = users]
    /\ QueryGoto(q, "listed")
    /\ UNCHANGED <<requestVars, begun, storageVars, groupVars, faults>>

\* MGET fails: Read does not look at its error, sees no values, and returns
\* an empty list.
ListEmpty(q) ==
    /\ query[q] = "listing" /\ cache # {}
    /\ QueryGoto(q, "listed")
    /\ Fault
    /\ UNCHANGED <<requestVars, begun, result, storageVars, groupVars>>

\* The handler of a search begins; a term of less than three letters goes no
\* further.
SearchStart(q) ==
    /\ query[q] = "idle"
    /\ QueryGoto(q, "searching") \/ QueryGoto(q, "refused")
    /\ UNCHANGED <<requestVars, begun, result, storageVars, groupVars, faults>>

\* The search returns some of the documents that are visible: those that
\* match, and of them the first ten.
SearchDone(q) ==
    /\ query[q] = "searching"
    /\ \E users \in SUBSET visible : result' = [result EXCEPT ![q] = users]
    /\ QueryGoto(q, "found")
    /\ UNCHANGED <<requestVars, begun, storageVars, groupVars, faults>>

\* A slip: the response is used before the error is looked at.
QueryPanics(q) ==
    /\ query[q] \in {"listing", "searching"}
    /\ QueryGoto(q, "panicked")
    /\ Fault
    /\ UNCHANGED <<requestVars, begun, result, storageVars, groupVars>>

\* Redis or Elasticsearch returns an error, the handler answers 500: for a
\* search that is the answer as long as nothing has created the index.
QueryFailed(q) ==
    /\ query[q] \in {"listing", "searching"}
    /\ QueryGoto(q, "failed")
    /\ IF query[q] = "searching" /\ index = {} THEN UNCHANGED faults ELSE Fault
    /\ UNCHANGED <<requestVars, begun, result, storageVars, groupVars>>

----------------------------------------------------------------------------

CreateStep(r) == CreateRefused(r) \/ CreateAccepted(r) \/ CreateDone(r) \/ CreateFailed(r)
StorageStep(r) == Insert(r) \/ InsertLost(r)
CacheStep(r) == ProjectToCache(r) \/ Miss("cache", r)
IndexStep(r) == ProjectToIndex(r) \/ Miss("search", r)
ListStep(q) == ListStart(q) \/ ListDone(q) \/ ListEmpty(q)
SearchStep(q) == SearchStart(q) \/ SearchDone(q) \/ QueryFailed(q)

Next ==
    \/ \E r \in Requests : CreateStep(r) \/ StorageStep(r) \/ Publish(r) \/ CacheStep(r) \/ IndexStep(r)
    \/ \E q \in Queries : ListStep(q) \/ SearchStep(q)
    \/ Refresh \/ Crash

\* MySQL deals with its statements, the connector with the rows, each group
\* with what is published (ConsumerGroup: EventuallySettled), unless it has
\* given up on it, and Elasticsearch refreshes.  Nothing is assumed of the
\* requests.
Fairness ==
    /\ WF_vars(Refresh)
    /\ \A r \in Requests :
          /\ WF_vars(StorageStep(r)) /\ WF_vars(Publish(r))
          /\ WF_vars(r \notin missedBy["cache"] /\ CacheStep(r))
          /\ WF_vars(r \notin missedBy["search"] /\ IndexStep(r))

Spec == Init /\ [][Next]_vars /\ Fairness

----------------------------------------------------------------------------
(* Properties.                                                             *)

\* The type invariant.
TypeOK ==
    /\ create \in [Requests -> {"idle", "storing", "answered", "lost"}]
    /\ status \in [Requests -> {0, 201, 400, 500}]
    /\ query \in [Queries -> {"idle", "listing", "listed", "searching", "found",
                              "refused", "failed", "lost"}]
    /\ begun \in [Queries -> SUBSET Requests]
    /\ result \in [Queries -> SUBSET Requests]
    /\ executing \subseteq Requests /\ rows \subseteq Requests /\ published \subseteq Requests
    /\ cache \subseteq Requests /\ index \subseteq Requests /\ visible \subseteq Requests
    /\ missedBy \in [Groups -> SUBSET Requests]
    /\ faults \in 0..MaxFaults

\* A user that has been answered 400 is never served: not when the storage
\* and the groups take their time, and not by a search either (the create
\* controllers: validation comes before the interactor).
RefusedIsNeverServed ==
    \A r \in Requests : status[r] = 400 => \A q \in Queries : r \notin result[q]

\* A 201 is never taken back: with MySQL the row is there when the answer is
\* given, and survives crashes (the interactor returns after Create has).
CreatedIsStored == StorageType = "sql" => \A r \in Requests : status[r] = 201 => r \in rows

\* What a list or a search has returned has been stored before: the stores
\* that are read are filled from the log of the storage, never beside it.
ServedIsStored == StorageType = "sql" => \A q \in Queries : result[q] \subseteq rows

\* Seen from the requests, from MySQL through Kafka to Redis, the cache is a
\* projection of the rows.
User(r) == [id |-> r, version |-> NoVersion]
Cache == INSTANCE UserProjection WITH
            Ids <- Requests,
            Versions <- {NoVersion},
            created <- {User(r) : r \in rows},
            store <- [r \in Requests |-> IF r \in cache THEN User(r) ELSE NoUser]
ImplementsProjection == Cache!Spec

\* A user is in both stores that are read, unless a group has given up on it.
Served(r) == /\ r \in cache \cup missedBy["cache"]
             /\ r \in visible \cup missedBy["search"]

\* A created user can be listed and found in the end, unless a group has
\* given up on it.
EventuallyServed == <>[](\A r \in Requests : status[r] = 201 => Served(r))

\* Nothing stays in MySQL alone: a row that was inserted after its request had
\* been answered 500, or had died with the process, can be listed and found in
\* the end like any other (mysql: the query timeout ends the wait, not the
\* statement), unless a group has given up on it.
LateRowsAreServed == <>[](\A r \in rows : status[r] # 201 => Served(r))

----------------------------------------------------------------------------
(* The inductive invariant behind the safety properties.                   *)

\* A status is given with the answer, and nothing comes of a request that has
\* not been accepted.
Answered == \A r \in Requests : create[r] # "answered" => status[r] = 0
Accepted == {r \in Requests : create[r] # "idle" /\ status[r] # 400}
OnlyAccepted == executing \cup rows \cup published \subseteq Accepted

\* Every store is filled from the one before it.
Downstream ==
    /\ cache \cup index \subseteq published
    /\ visible \subseteq index
    /\ \A q \in Queries : result[q] \subseteq published
    /\ StorageType = "sql" => published \subseteq rows

\* A statement is executed once.
ExecutedOnce == StorageType = "sql" => executing \cap rows = {}

\* A query has no result before it has been answered.
NoResultYet ==
    \A q \in Queries : query[q] \in {"idle", "listing", "searching", "refused"} => result[q] = {}

IInv ==
    /\ TypeOK /\ Answered /\ OnlyAccepted /\ Downstream /\ ExecutedOnce /\ CreatedIsStored
    /\ NoResultYet

=============================================================================

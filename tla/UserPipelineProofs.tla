------------------------- MODULE UserPipelineProofs -------------------------
(***************************************************************************)
(* Theorems about UserPipeline, for every number of requests, queries and  *)
(* failures.                                                               *)
(***************************************************************************)
EXTENDS UserPipeline, TLAPS

USE StorageAssumption, BoundAssumption
USE DEF requestVars, queryVars, storageVars, groupVars

LEMMA InitHolds == Init => IInv
BY DEF Init, IInv, TypeOK, Groups, Answered, OnlyAccepted, Accepted, Downstream, ExecutedOnce,
       CreatedIsStored, NoResultYet

----------------------------------------------------------------------------
(* One lemma for each part of the system.                                  *)

LEMMA CreateKeeps ==
    ASSUME IInv, NEW r \in Requests, CreateStep(r)
    PROVE  IInv'
<1> USE DEF Respond, Fault
<1>1. TypeOK'
    <2>1. CASE CreateRefused(r)
        BY <2>1 DEF IInv, TypeOK, CreateRefused
    <2>2. CASE CreateAccepted(r)
        BY <2>2 DEF IInv, TypeOK, CreateAccepted
    <2>3. CASE CreateDone(r)
        BY <2>3 DEF IInv, TypeOK, CreateDone
    <2>4. CASE CreateFailed(r)
        BY <2>4 DEF IInv, TypeOK, CreateFailed
    <2> QED BY <2>1, <2>2, <2>3, <2>4 DEF CreateStep
<1>2. Accepted \subseteq Accepted' /\ Answered'
    BY DEF IInv, TypeOK, CreateStep, CreateRefused, CreateAccepted, CreateDone, CreateFailed,
           Accepted, Answered
<1>3. CASE CreateAccepted(r)
    <2>1. create[r] = "idle" /\ r \notin Accepted /\ r \notin executing \cup rows \cup published
        BY <1>3 DEF IInv, OnlyAccepted, Accepted, CreateAccepted
    <2>2. r \in Accepted'
        BY <1>3, <1>1 DEF IInv, TypeOK, Answered, Accepted, CreateAccepted
    <2>3. OnlyAccepted'
        BY <1>2, <1>3, <2>2 DEF IInv, OnlyAccepted, CreateAccepted
    <2>4. Downstream'
        BY <1>3 DEF IInv, Downstream, CreateAccepted
    <2>5. ExecutedOnce' /\ CreatedIsStored'
        BY <1>3, <2>1 DEF IInv, ExecutedOnce, CreatedIsStored, CreateAccepted
    <2>6. NoResultYet'
        BY <1>3 DEF IInv, NoResultYet, CreateAccepted
    <2> QED BY <1>1, <1>2, <2>3, <2>4, <2>5, <2>6 DEF IInv
<1>4. CASE ~CreateAccepted(r)
    <2>1. UNCHANGED <<queryVars, storageVars, groupVars>>
        BY <1>4 DEF CreateStep, CreateRefused, CreateDone, CreateFailed
    <2>2. CreatedIsStored'
        BY <1>4 DEF IInv, TypeOK, CreatedIsStored, CreateStep, CreateRefused, CreateDone, CreateFailed
    <2> QED BY <1>1, <1>2, <2>1, <2>2 DEF IInv, OnlyAccepted, Downstream, ExecutedOnce,
               NoResultYet
<1> QED BY <1>3, <1>4

LEMMA StorageKeeps ==
    ASSUME IInv, NEW r \in Requests, StorageStep(r)
    PROVE  IInv'
<1> USE DEF Fault
<1>1. TypeOK' /\ Accepted' = Accepted /\ Answered'
    BY DEF IInv, TypeOK, StorageStep, Insert, InsertLost, Accepted, Answered
<1> QED BY <1>1 DEF IInv, OnlyAccepted, Downstream, ExecutedOnce, CreatedIsStored,
           NoResultYet, StorageStep, Insert, InsertLost

LEMMA GroupKeeps ==
    ASSUME IInv, NEW r \in Requests, Publish(r) \/ CacheStep(r) \/ IndexStep(r)
    PROVE  IInv'
<1> USE DEF Fault, CacheStep, IndexStep
<1>1. TypeOK' /\ Accepted' = Accepted /\ Answered'
    BY DEF IInv, TypeOK, Groups, Publish, ProjectToCache, ProjectToIndex, Miss, Accepted, Answered
<1> QED BY <1>1 DEF IInv, OnlyAccepted, Downstream, ExecutedOnce, CreatedIsStored,
           NoResultYet, Publish, ProjectToCache, ProjectToIndex, Miss

LEMMA QueryKeeps ==
    ASSUME IInv, NEW q \in Queries, ListStep(q) \/ SearchStep(q)
    PROVE  IInv'
<1> USE DEF Fault, QueryGoto, ListStep, SearchStep
<1>1. Accepted' = Accepted /\ Answered'
    BY DEF IInv, Accepted, Answered, ListStart, ListDone, ListEmpty, SearchStart, SearchDone, QueryFailed
<1>2. /\ \/ UNCHANGED result
         \/ \E users \in SUBSET (cache \cup visible) : result' = [result EXCEPT ![q] = users]
      /\ \/ UNCHANGED begun
         \/ begun' = [begun EXCEPT ![q] = cache]
      /\ UNCHANGED <<requestVars, storageVars, groupVars>>
      /\ faults' = faults \/ Fault
      /\ \E l \in {"listing", "listed", "searching", "found", "refused", "failed"} : QueryGoto(q, l)
    <2>1. CASE ListStart(q) \/ ListEmpty(q) \/ SearchStart(q) \/ QueryFailed(q)
        BY <2>1 DEF ListStart, ListEmpty, SearchStart, QueryFailed
    <2>2. CASE ListDone(q)
        BY <2>2 DEF ListDone
    <2>3. CASE SearchDone(q)
        BY <2>3 DEF SearchDone
    <2> QED BY <2>1, <2>2, <2>3
<1>3. TypeOK'
    BY <1>2 DEF IInv, TypeOK
<1>4. Downstream'
    BY <1>2 DEF IInv, TypeOK, Downstream
<1>5. NoResultYet'
    BY DEF IInv, TypeOK, NoResultYet, ListStart, ListDone, ListEmpty, SearchStart, SearchDone,
           QueryFailed
<1> QED BY <1>1, <1>2, <1>3, <1>4, <1>5 DEF IInv, OnlyAccepted, ExecutedOnce, CreatedIsStored

LEMMA OtherKeeps ==
    ASSUME IInv, Refresh \/ Crash \/ UNCHANGED vars
    PROVE  IInv'
<1>1. CASE Refresh \/ UNCHANGED vars
    BY <1>1 DEF Refresh, vars, IInv, TypeOK, OnlyAccepted, Accepted, Answered, Downstream,
                ExecutedOnce, CreatedIsStored, NoResultYet
<1>2. CASE Crash
    <2>1. TypeOK'
        BY <1>2 DEF IInv, TypeOK, Crash, Fault
    <2>2. Accepted' = Accepted /\ Answered'
        BY <1>2 DEF IInv, TypeOK, Accepted, Answered, Crash
    <2>3. NoResultYet'
        BY <1>2 DEF IInv, TypeOK, NoResultYet, Crash
    <2> QED BY <1>2, <2>1, <2>2, <2>3 DEF IInv, OnlyAccepted, Downstream, ExecutedOnce,
               CreatedIsStored, Crash
<1> QED BY <1>1, <1>2

\* The chain from the requests to the stores holds of every behaviour.
THEOREM Invariance == Spec => []IInv
<1>1. IInv /\ [Next]_vars => IInv'
    BY CreateKeeps, StorageKeeps, GroupKeeps, QueryKeeps, OtherKeeps DEF Next
<1> QED BY <1>1, InitHolds, PTL DEF Spec

----------------------------------------------------------------------------
(* What follows from it.                                                   *)

\* Every variable keeps its type, for every number of requests and queries.
THEOREM TypeCorrect == Spec => []TypeOK
BY Invariance, PTL DEF IInv

\* A 201 is never taken back when the storage is MySQL: the answer is given
\* after the row is there (the interactor), and no crash removes it.
THEOREM AnswersHold == Spec => []CreatedIsStored
BY Invariance, PTL DEF IInv

\* The stores that are read are never ahead of MySQL: what a query returns
\* has gone through the log of the storage.
THEOREM ReadsAreStored == Spec => []ServedIsStored
<1>1. IInv => ServedIsStored
    BY DEF IInv, Downstream, ServedIsStored
<1> QED BY <1>1, Invariance, PTL

\* What the create handlers refuse with 400 is never read.
THEOREM RefusalsHold == Spec => []RefusedIsNeverServed
<1>1. IInv => RefusedIsNeverServed
    BY DEF IInv, Downstream, OnlyAccepted, Accepted, RefusedIsNeverServed
<1> QED BY <1>1, Invariance, PTL

----------------------------------------------------------------------------
(* With MySQL the pipeline, from the requests to the cache, implements the *)
(* same projection as a consumer group.                                    *)

LEMMA InitRefines == Init => Cache!Init
BY DEF Init, Cache!Init

LEMMA InsertRefines ==
    ASSUME IInv, StorageType = "sql", NEW r \in Requests, Insert(r)
    PROVE  Cache!Create(User(r))
BY DEF IInv, ExecutedOnce, Insert, Cache!Create, User

LEMMA ProjectRefines ==
    ASSUME IInv, StorageType = "sql", NEW r \in Requests, ProjectToCache(r)
    PROVE  Cache!Project(User(r))
BY DEF IInv, Downstream, ProjectToCache, Cache!Project, User

LEMMA NextRefines ==
    ASSUME IInv, StorageType = "sql", [Next]_vars
    PROVE  \/ Cache!Next
           \/ UNCHANGED <<{User(r) : r \in rows},
                          [r \in Requests |-> IF r \in cache THEN User(r) ELSE NoUser]>>
<1>1. ASSUME NEW r \in Requests, Insert(r) PROVE Cache!Next
    BY <1>1, InsertRefines DEF Cache!Next, Cache!Users, User
<1>2. ASSUME NEW r \in Requests, ProjectToCache(r) PROVE Cache!Next
    BY <1>2, ProjectRefines DEF Cache!Next, Cache!Users, User
<1>3. CASE UNCHANGED <<rows, cache>>
    BY <1>3
<1>4. \/ UNCHANGED <<rows, cache>>
      \/ \E r \in Requests : Insert(r) \/ ProjectToCache(r)
    BY DEF Next, vars, CreateStep, CreateRefused, CreateAccepted, CreateDone, CreateFailed,
           StorageStep, InsertLost, Publish, CacheStep, IndexStep, ProjectToIndex, Miss,
           ListStep, ListStart, ListDone, ListEmpty, SearchStep, SearchStart, SearchDone,
           QueryFailed, Refresh, Crash
<1> QED BY <1>1, <1>2, <1>3, <1>4

\* From the requests to the cache, with everything in between that can fail,
\* come late or come twice, the pipeline is one projection.
THEOREM Refinement == ASSUME StorageType = "sql" PROVE Spec => ImplementsProjection
<1>1. IInv /\ [Next]_vars =>
          [Cache!Next]_<<{User(r) : r \in rows},
                         [r \in Requests |-> IF r \in cache THEN User(r) ELSE NoUser]>>
    BY NextRefines
<1> QED BY <1>1, InitRefines, Invariance, PTL
        DEF Spec, ImplementsProjection, Cache!Spec

----------------------------------------------------------------------------
(* One list after another.                                                 *)

\* What a list has shown stays in the cache.
ListedIsCached == \A q \in Queries : query[q] = "listed" => result[q] \subseteq cache

\* A list that is begun after another has ended owes its caller all that the
\* other has shown.
LaterListsKeep ==
    \A p, q \in Queries : query[p] = "listed" /\ ListStart(q) => result[p] \subseteq begun'[q]

LEMMA ListedStaysCached == IInv /\ ListedIsCached /\ [Next]_vars => ListedIsCached'
<1> SUFFICES ASSUME IInv, ListedIsCached, [Next]_vars PROVE ListedIsCached'
    OBVIOUS
<1>1. CASE UNCHANGED queryVars /\ cache \subseteq cache'
    BY <1>1 DEF ListedIsCached
<1>2. ASSUME NEW r \in Requests, CreateStep(r) \/ StorageStep(r) \/ Publish(r) \/ CacheStep(r) \/ IndexStep(r)
      PROVE  UNCHANGED queryVars /\ cache \subseteq cache'
    BY <1>2 DEF CreateStep, CreateRefused, CreateAccepted, CreateDone, CreateFailed, StorageStep,
                Insert, InsertLost, Publish, CacheStep, IndexStep, ProjectToCache, ProjectToIndex, Miss
<1>3. CASE Refresh \/ UNCHANGED vars
    BY <1>3 DEF Refresh, vars, ListedIsCached
<1>4. CASE Crash
    BY <1>4 DEF Crash, ListedIsCached, IInv, TypeOK
<1>5. ASSUME NEW q \in Queries, ListStep(q) \/ SearchStep(q) PROVE ListedIsCached'
    BY <1>5 DEF ListStep, ListStart, ListDone, ListEmpty, SearchStep, SearchStart, SearchDone,
                QueryFailed, QueryGoto, ListedIsCached, IInv, TypeOK, NoResultYet
<1> QED BY <1>1, <1>2, <1>3, <1>4, <1>5 DEF Next

\* Lists do not go back: whoever has been shown a user and asks again is
\* owed it again (nothing in this code deletes a key).
THEOREM ListsDoNotGoBack == Spec => [][LaterListsKeep]_vars
<1>1. Init => ListedIsCached
    BY DEF Init, ListedIsCached
<1>2. IInv /\ ListedIsCached /\ [Next]_vars => [LaterListsKeep]_vars
    BY DEF IInv, TypeOK, ListedIsCached, LaterListsKeep, ListStart
<1> QED BY <1>1, <1>2, ListedStaysCached, Invariance, PTL DEF Spec

----------------------------------------------------------------------------
(* The memory storage.                                                     *)

NothingPublished == published = {}

\* With the memory storage, the default, no query ever returns a user: its
\* rows reach no connector, and no query reads them (bootstrap/router.go).
\* The run that finds EventuallyServed violated shows it for one request.
THEOREM MemoryServesNothing ==
    ASSUME StorageType = "memory" PROVE Spec => [](\A q \in Queries : result[q] = {})
<1>1. Init => NothingPublished
    BY DEF Init, NothingPublished
<1>2. NothingPublished /\ [Next]_vars => NothingPublished'
    BY DEF NothingPublished, Next, vars, CreateStep, CreateRefused, CreateAccepted, CreateDone,
           CreateFailed, StorageStep, Insert, InsertLost, Publish, CacheStep, IndexStep,
           ProjectToCache, ProjectToIndex, Miss, ListStep, ListStart, ListDone, ListEmpty,
           SearchStep, SearchStart, SearchDone, QueryFailed, Refresh, Crash
<1>3. IInv /\ NothingPublished => \A q \in Queries : result[q] = {}
    BY DEF IInv, Downstream, NothingPublished
<1> QED BY <1>1, <1>2, <1>3, Invariance, PTL DEF Spec

----------------------------------------------------------------------------
(* As long as nothing has failed, nothing is lost.                         *)

\* What holds of the requests, the groups and the queries until the first
\* operation fails or the process dies.
Untroubled ==
    /\ \A r \in Requests : /\ create[r] # "lost"
                           /\ create[r] = "answered" => status[r] \in {201, 400}
                           /\ create[r] = "storing" => r \in executing \cup rows
    /\ \A g \in Groups : missedBy[g] = {}
    /\ \A q \in Queries : query[q] # "lost"
UntilTheFirstFault == faults = 0 => Untroubled

LEMMA NoFaultsTakenBack ==
    ASSUME IInv, [Next]_vars, faults' = 0
    PROVE  faults = 0 /\ ~Fault
<1>1. faults \in Nat
    BY DEF IInv, TypeOK
<1>2. ~Fault
    BY <1>1 DEF Fault
<1>3. faults' = faults
    BY <1>2 DEF Next, vars, CreateStep, CreateRefused, CreateAccepted, CreateDone,
           CreateFailed, StorageStep, Insert, InsertLost, Publish, CacheStep, IndexStep,
           ProjectToCache, ProjectToIndex, Miss, ListStep, ListStart, ListDone, ListEmpty,
           SearchStep, SearchStart, SearchDone, QueryFailed, Refresh, Crash
<1> QED BY <1>2, <1>3

LEMMA UntroubledKeeps ==
    ASSUME StorageType = "sql", IInv, UntilTheFirstFault, [Next]_vars
    PROVE  UntilTheFirstFault'
<1> SUFFICES ASSUME faults' = 0 PROVE Untroubled'
    BY DEF UntilTheFirstFault
<1>1. Untroubled /\ ~Fault /\ TypeOK
    BY NoFaultsTakenBack DEF UntilTheFirstFault, IInv
<1>2. ASSUME NEW r \in Requests, CreateStep(r) PROVE Untroubled'
    <2>1. ~CreateFailed(r)
        BY <1>1 DEF CreateFailed, Untroubled
    <2>2. CASE CreateRefused(r)
        BY <1>1, <2>2 DEF CreateRefused, Respond, Untroubled, TypeOK
    <2>3. CASE CreateAccepted(r)
        BY <1>1, <2>3 DEF CreateAccepted, Untroubled, TypeOK
    <2>4. CASE CreateDone(r)
        BY <1>1, <2>4 DEF CreateDone, Respond, Untroubled, TypeOK
    <2> QED BY <1>2, <2>1, <2>2, <2>3, <2>4 DEF CreateStep
<1>3. ASSUME NEW r \in Requests, StorageStep(r) PROVE Untroubled'
    BY <1>1, <1>3 DEF StorageStep, Insert, InsertLost, Untroubled
<1>4. ASSUME NEW r \in Requests, Publish(r) \/ CacheStep(r) \/ IndexStep(r) PROVE Untroubled'
    BY <1>1, <1>4 DEF Publish, CacheStep, IndexStep, ProjectToCache, ProjectToIndex, Miss, Untroubled
<1>5. ASSUME NEW q \in Queries, ListStep(q) PROVE Untroubled'
    BY <1>1, <1>5 DEF ListStep, ListStart, ListDone, ListEmpty, QueryGoto, Untroubled, TypeOK
<1>6. ASSUME NEW q \in Queries, SearchStep(q) PROVE Untroubled'
    BY <1>1, <1>6 DEF SearchStep, SearchStart, SearchDone, QueryFailed, QueryGoto, Untroubled, TypeOK
<1>7. CASE Refresh \/ UNCHANGED vars
    BY <1>1, <1>7 DEF Refresh, vars, Untroubled
<1>8. ~Crash
    BY <1>1 DEF Crash
<1> QED BY <1>2, <1>3, <1>4, <1>5, <1>6, <1>7, <1>8 DEF Next

\* With MySQL the pipeline loses nothing by itself: until an operation fails
\* or the process dies, no create request is answered 500 or left without an
\* answer, and no group has given up on a user, however requests, groups and
\* queries overlap.
THEOREM NothingIsLostByItself == ASSUME StorageType = "sql" PROVE Spec => []UntilTheFirstFault
<1>1. Init => UntilTheFirstFault
    BY DEF Init, UntilTheFirstFault, Untroubled, Groups
<1> QED BY <1>1, UntroubledKeeps, Invariance, PTL DEF Spec

----------------------------------------------------------------------------
(* The safety half of EventuallyServed and LateRowsAreServed.              *)

\* MySQL, the connector, both groups and Elasticsearch have nothing to do:
\* what Fairness speaks of has no step left.
AtRest ==
    /\ executing = {} /\ rows \subseteq published
    /\ published \subseteq (cache \cup missedBy["cache"]) \cap (index \cup missedBy["search"])
    /\ visible = index

\* When the system comes to rest, every row can be listed and found, and with
\* it every user answered 201, or a group has given up on it; and if nothing
\* has failed so far,
\* every request that was not refused has been or can still be answered 201,
\* and its user can be listed and found.
ServedAtRest ==
    AtRest =>
        \A r \in Requests :
            /\ status[r] = 201 \/ r \in rows => Served(r)
            /\ faults = 0 /\ create[r] # "idle" /\ status[r] # 400 => r \in cache \cap visible

\* With MySQL nothing is left half way: a system with no fair step to take has
\* each user it has answered 201 for, and each row that came late, in both
\* stores, given up ones apart, and without a fault it has all that were
\* accepted.
THEOREM RestMeansServed == ASSUME StorageType = "sql" PROVE Spec => []ServedAtRest
<1>1. IInv /\ UntilTheFirstFault => ServedAtRest
    <2> SUFFICES ASSUME IInv, UntilTheFirstFault, AtRest, NEW r \in Requests
                 PROVE  /\ status[r] = 201 \/ r \in rows => Served(r)
                        /\ faults = 0 /\ create[r] # "idle" /\ status[r] # 400 => r \in cache \cap visible
        BY DEF ServedAtRest
    <2>1. r \in rows => r \in published
        BY DEF AtRest
    <2>2. r \in rows => Served(r)
        BY <2>1 DEF AtRest, Served
    <2>3. status[r] = 201 => r \in rows
        BY DEF IInv, CreatedIsStored
    <2> QED BY <2>2, <2>3 DEF IInv, TypeOK, AtRest, Served, UntilTheFirstFault, Untroubled, Groups
<1> QED BY <1>1, NothingIsLostByItself, Invariance, PTL

=============================================================================

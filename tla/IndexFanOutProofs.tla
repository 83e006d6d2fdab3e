------------------------- MODULE IndexFanOutProofs --------------------------
(***************************************************************************)
(* Theorems about IndexFanOut, for every number of users.                  *)
(***************************************************************************)
EXTENDS IndexFanOut, FiniteSetTheorems, TLAPS

USE NAssumption

\* The part of the invariant that no cardinality enters into.
Shape == Started /\ Answered /\ Joined /\ Phases

\* TypeOK but for the counter.
Types ==
    /\ pc \in {"spawning", "collecting", "returned"}
    /\ next \in 1..(N + 1)
    /\ worker \in [Users -> {"none", "calling", "handing", "handed", "done"}]
    /\ outcome \in [Users -> {"none", "ok", "refused", "failed"}]
    /\ closer \in {"none", "waiting", "closed"}
    /\ errs \subseteq Users
    /\ reply \in {"none", "nil", "error"}
    /\ indexed \subseteq Users

LEMMA CountOfUsers ==
    ASSUME NEW S \in SUBSET Users
    PROVE  IsFiniteSet(S) /\ Cardinality(S) \in 0..N
<1>1. IsFiniteSet(Users) /\ Cardinality(Users) = N
    BY FS_Interval DEF Users
<1>2. IsFiniteSet(S) /\ Cardinality(S) <= N
    BY <1>1, FS_Subset
<1> QED BY <1>2, FS_CardinalityType

LEMMA RunningIsFinite == IsFiniteSet(Running) /\ Cardinality(Running) \in 0..N
BY CountOfUsers DEF Running

\* The WaitGroup is at zero exactly when no goroutine runs.
LEMMA ZeroMeansNobody == Counted => (wg = 0 <=> Running = {})
BY RunningIsFinite, FS_EmptySet DEF Counted

\* Since it counts, it never goes below zero nor above the number of users.
LEMMA CountedIsTyped == Counted /\ Types => TypeOK
BY RunningIsFinite DEF Counted, Types, TypeOK

LEMMA CountedStaysTyped == ASSUME Counted', Types' PROVE TypeOK'
<1>1. Running' \in SUBSET Users
    BY DEF Running
<1>2. wg' \in 0..N
    BY <1>1, CountOfUsers DEF Counted
<1> QED BY <1>2 DEF Types, TypeOK

LEMMA InitHolds == Init => IInv
<1> SUFFICES ASSUME Init PROVE IInv
    OBVIOUS
<1>1. Types /\ Shape
    BY DEF Init, Types, Shape, Started, Answered, Joined, Phases, Users
<1>2. Running = {}
    BY DEF Init, Running
<1>3. Counted
    BY <1>2, FS_EmptySet DEF Init, Counted
<1> QED BY <1>1, <1>3, CountedIsTyped DEF Shape, IInv

\* A goroutine that is started enters the set of those that run.
LEMMA SpawnKeeps == ASSUME IInv, Spawn PROVE IInv'
<1>1. Types'
    BY DEF IInv, TypeOK, Types, Spawn, WorkerGoto, Users
<1>2. next \in Users /\ worker[next] = "none" /\ next \notin Running
    BY DEF IInv, TypeOK, Started, Spawn, Users, Running
<1>3. Running' = Running \cup {next}
    BY <1>2 DEF IInv, TypeOK, Spawn, WorkerGoto, Running
<1>4. Counted'
    BY <1>2, <1>3, RunningIsFinite, FS_AddElement DEF IInv, Counted, Spawn
<1>5. Started'
    BY <1>2 DEF IInv, TypeOK, Started, Spawn, WorkerGoto, Users
<1>6. Answered' /\ Joined' /\ Phases'
    BY <1>2 DEF IInv, TypeOK, Answered, Joined, Phases, Spawn, WorkerGoto, Users
<1> QED BY <1>1, <1>4, <1>5, <1>6, CountedStaysTyped DEF IInv

\* The deferred wg.Done takes a goroutine out of it.
LEMMA WorkerEndsKeeps ==
    ASSUME IInv, NEW i \in Users, WorkerEnds(i)
    PROVE  IInv'
<1>1. Types'
    BY DEF IInv, TypeOK, Types, WorkerEnds, WorkerGoto
<1>2. i \in Running
    BY DEF WorkerEnds, Running
<1>3. Running' = Running \ {i}
    BY <1>2 DEF IInv, TypeOK, WorkerEnds, WorkerGoto, Running
<1>4. Counted'
    BY <1>2, <1>3, RunningIsFinite, FS_RemoveElement DEF IInv, Counted, WorkerEnds
<1>5. Started' /\ Answered' /\ Joined'
    BY DEF IInv, TypeOK, Started, Answered, Joined, WorkerEnds, WorkerGoto
<1>6. closer # "closed"
    BY <1>2, ZeroMeansNobody DEF IInv, Phases
<1>7. Phases'
    BY <1>6 DEF IInv, Phases, WorkerEnds
<1> QED BY <1>1, <1>4, <1>5, <1>7, CountedStaysTyped DEF IInv

\* Every other step of a goroutine, and every receive, leaves the set alone.
LEMMA HandKeeps ==
    ASSUME IInv, NEW i \in Users,
           Receive(i) \/ Indexed(i) \/ Refused(i) \/ RequestFails(i) \/ IndexedLate(i)
    PROVE  IInv'
<1> USE DEF Responded, WorkerGoto
<1>1. Types'
    BY DEF IInv, TypeOK, Types, Receive, Indexed, Refused, RequestFails, IndexedLate
<1>2. Running' = Running /\ wg' = wg
    BY DEF IInv, TypeOK, Running, Receive, Indexed, Refused, RequestFails, IndexedLate
<1>3. Counted'
    BY <1>2 DEF IInv, Counted
<1>4. Started'
    BY DEF IInv, TypeOK, Started, Receive, Indexed, Refused, RequestFails, IndexedLate
<1>5. Answered'
    BY DEF IInv, TypeOK, Answered, Receive, Indexed, Refused, RequestFails, IndexedLate
<1>6. Joined'
    <2>1. CASE Receive(i)
        BY <2>1 DEF IInv, TypeOK, Joined, Receive
    <2>2. CASE ~Receive(i)
        BY <2>2 DEF IInv, TypeOK, Answered, Joined, Indexed, Refused, RequestFails, IndexedLate
    <2> QED BY <2>1, <2>2
<1>7. Phases'
    BY DEF IInv, Phases, Receive, Indexed, Refused, RequestFails, IndexedLate
<1> QED BY <1>1, <1>3, <1>4, <1>5, <1>6, <1>7, CountedStaysTyped DEF IInv

LEMMA CallerKeeps ==
    ASSUME IInv, MarshalFails \/ StartCloser \/ Return \/ CloseChannel \/ UNCHANGED vars
    PROVE  IInv'
<1>1. UNCHANGED <<wg, worker, outcome, indexed, errs, next>>
    BY DEF MarshalFails, StartCloser, Return, CloseChannel, vars
<1>2. TypeOK'
    BY <1>1 DEF IInv, TypeOK, MarshalFails, StartCloser, Return, Reply, CloseChannel, vars
<1>3. Counted' /\ Started' /\ Answered' /\ Joined'
    BY <1>1 DEF IInv, Counted, Running, Started, Answered, Joined
<1>4. Phases'
    <2> USE <1>1 DEF IInv, TypeOK, Phases
    <2>1. CASE MarshalFails
        BY <2>1 DEF MarshalFails
    <2>2. CASE StartCloser
        BY <2>2 DEF StartCloser
    <2>3. CASE Return
        BY <2>3 DEF Return, Reply
    <2>4. CASE CloseChannel
        BY <2>4 DEF CloseChannel
    <2>5. CASE UNCHANGED vars
        BY <2>5 DEF vars
    <2> QED BY <2>1, <2>2, <2>3, <2>4, <2>5
<1> QED BY <1>2, <1>3, <1>4 DEF IInv

LEMMA StepKeeps == ASSUME IInv, [Next]_vars PROVE IInv'
BY SpawnKeeps, WorkerEndsKeeps, HandKeeps, CallerKeeps DEF Next, CallerStep, WorkerStep

\* What the fan-out keeps true from its first goroutine to its reply.
THEOREM Invariance == Spec => []IInv
BY InitHolds, StepKeeps, PTL DEF Spec

----------------------------------------------------------------------------
(* What follows from it.                                                   *)

\* The types; the WaitGroup in particular is never driven below zero.
THEOREM TypeCorrect == Spec => []TypeOK
<1>1. IInv => TypeOK
    BY DEF IInv
<1> QED BY <1>1, Invariance, PTL

\* No goroutine sends on the closed channel.
THEOREM ChannelSafe == Spec => []NeverSendsOnClosed
<1>1. IInv => NeverSendsOnClosed
    <2> SUFFICES ASSUME IInv, closer = "closed", NEW i \in Users
                 PROVE  worker[i] \notin {"calling", "handing"}
        BY DEF NeverSendsOnClosed
    <2>1. Running = {}
        BY ZeroMeansNobody DEF IInv, Phases
    <2> QED BY <2>1 DEF Running
<1> QED BY <1>1, Invariance, PTL

\* A call that got through its loop leaves no goroutine behind.
THEOREM NoLeak == Spec => []NothingOutlivesTheCall
<1>1. IInv => NothingOutlivesTheCall
    <2> SUFFICES ASSUME IInv, pc = "returned", next > N, NEW i \in Users
                 PROVE  worker[i] = "done"
        BY DEF NothingOutlivesTheCall
    <2>1. Running = {}
        BY ZeroMeansNobody DEF IInv, Phases
    <2>2. worker[i] # "none"
        BY DEF IInv, TypeOK, Started, Users
    <2> QED BY <2>1, <2>2 DEF IInv, TypeOK, Running
<1> QED BY <1>1, Invariance, PTL

\* The reply is an error exactly if a request has failed.
THEOREM ReplyCorrect == Spec => []ReplyIsRight
<1>1. IInv /\ NothingOutlivesTheCall => ReplyIsRight
    <2> SUFFICES ASSUME IInv, NothingOutlivesTheCall, pc = "returned", next > N
                 PROVE  reply = "error" <=> \E i \in Users : outcome[i] = "failed"
        BY DEF ReplyIsRight
    <2>1. reply \in {"nil", "error"} /\ (reply = "nil" <=> errs = {})
        BY DEF IInv, TypeOK, Phases
    <2>2. errs = {i \in Users : outcome[i] = "failed"}
        BY DEF IInv, Joined, NothingOutlivesTheCall
    <2> QED BY <2>1, <2>2
<1> QED BY <1>1, Invariance, NoLeak, PTL

\* A reply of nil means that Elasticsearch has taken or refused every user.
THEOREM NilMeansAll ==
    Spec => [](reply = "nil" => \A i \in Users : i \in indexed \/ outcome[i] = "refused")
<1>1. IInv /\ NothingOutlivesTheCall
        => (reply = "nil" => \A i \in Users : i \in indexed \/ outcome[i] = "refused")
    <2> SUFFICES ASSUME IInv, NothingOutlivesTheCall, reply = "nil", NEW i \in Users
                 PROVE  i \in indexed \/ outcome[i] = "refused"
        OBVIOUS
    <2>1. pc = "returned" /\ next > N /\ errs = {}
        BY DEF IInv, TypeOK, Phases
    <2>2. worker[i] = "done"
        BY <2>1 DEF NothingOutlivesTheCall
    <2>3. outcome[i] \in {"ok", "refused"}
        BY <2>1, <2>2 DEF IInv, TypeOK, Answered, Joined
    <2> QED BY <2>3 DEF IInv, Answered
<1> QED BY <1>1, Invariance, NoLeak, PTL

----------------------------------------------------------------------------
(* The refinement.                                                         *)

LEMMA StepRefines ==
    ASSUME IInv, NothingOutlivesTheCall, [Next]_vars
    PROVE  [Call!Next]_(Call!vars)
<1> DEFINE turned == {i \in Users : outcome[i] = "refused"}
<1> USE DEF Call!vars, Call!Next
<1>1. ASSUME NEW i \in Users, WorkerStep(i) \/ IndexedLate(i)
      PROVE  [Call!Next]_(Call!vars)
    <2>1. CASE WorkerEnds(i)
        BY <2>1 DEF WorkerEnds
    <2>2. CASE Indexed(i) \/ Refused(i) \/ RequestFails(i)
        <3> USE DEF Indexed, Refused, RequestFails, Responded, WorkerGoto
        <3>1. worker[i] = "calling" /\ reply' = reply
            BY <2>2
        <3>2. reply # "nil"
            BY <3>1 DEF IInv, TypeOK, Phases, NothingOutlivesTheCall
        <3>3. CASE Indexed(i) \/ RequestFails(i)
            <4>1. turned' = turned
                BY <3>3 DEF IInv, TypeOK, Answered
            <4>2. indexed' \in {indexed, indexed \cup {i}}
                BY <3>3
            <4> QED BY <3>1, <3>2, <4>1, <4>2 DEF Call!Write
        <3>4. CASE Refused(i)
            <4>1. turned' = turned \cup {i}
                BY <3>4 DEF IInv, TypeOK
            <4> QED BY <3>1, <3>2, <3>4, <4>1 DEF Call!Refuse
        <3> QED BY <2>2, <3>3, <3>4
    <2>3. CASE IndexedLate(i)
        <3>1. reply # "nil"
            <4> SUFFICES ASSUME reply = "nil" PROVE FALSE
                OBVIOUS
            <4>1. pc = "returned" /\ next > N /\ errs = {}
                BY DEF IInv, TypeOK, Phases, Users
            <4>2. worker[i] = "done"
                BY <4>1 DEF NothingOutlivesTheCall
            <4> QED BY <2>3, <4>1, <4>2 DEF IInv, Joined, IndexedLate
        <3> QED BY <2>3, <3>1 DEF IndexedLate, Call!Write
    <2> QED BY <1>1, <2>1, <2>2, <2>3 DEF WorkerStep
<1>2. CASE Return
    <2>1. reply = "none" /\ UNCHANGED <<outcome, indexed>>
        BY <1>2 DEF IInv, Phases, Return
    <2>2. CASE errs # {}
        BY <1>2, <2>1, <2>2 DEF Return, Reply, Call!ReplyError
    <2>3. CASE errs = {}
        <3>1. next > N /\ Running = {}
            BY <1>2, ZeroMeansNobody DEF IInv, Phases, Return
        <3>2. \A i \in Users : worker[i] = "done"
            BY <3>1 DEF IInv, TypeOK, Started, Running, Users
        <3>3. \A i \in Users : outcome[i] \in {"ok", "refused"}
            BY <2>3, <3>2 DEF IInv, TypeOK, Answered, Joined
        <3>4. Users \subseteq indexed \cup turned
            BY <3>3 DEF IInv, Answered
        <3> QED BY <1>2, <2>1, <2>3, <3>4 DEF Return, Reply, Call!ReplyNil
    <2> QED BY <2>2, <2>3
<1>3. CASE MarshalFails
    BY <1>3 DEF IInv, Phases, MarshalFails, Call!ReplyError
<1>4. CASE Spawn \/ StartCloser \/ CloseChannel \/ (\E i \in Users : Receive(i)) \/ UNCHANGED vars
    BY <1>4 DEF Spawn, StartCloser, CloseChannel, Receive, vars
<1> QED BY <1>1, <1>2, <1>3, <1>4 DEF Next, CallerStep

\* The fan-out is one call of Create to whoever makes it.
THEOREM Refinement == Spec => ImplementsStoreWrite
<1>1. Init => Call!Init
    BY DEF Init, Call!Init
<1>2. IInv /\ NothingOutlivesTheCall /\ [Next]_vars => [Call!Next]_(Call!vars)
    BY StepRefines
<1> QED BY <1>1, <1>2, Invariance, NoLeak, PTL DEF Spec, ImplementsStoreWrite, Call!Spec

----------------------------------------------------------------------------
(* That a call comes to its end.  Fairness is left to TLC; what it rests on *)
(* holds for every number of users: nobody waits for ever (somebody has a   *)
(* step he can take) and nobody goes on for ever (the steps run out).       *)

\* The guards of the steps that are fairly taken.
CallerCan ==
    \/ pc = "spawning"
    \/ pc = "collecting" /\ closer = "closed"
    \/ pc = "collecting" /\ \E i \in Users : worker[i] = "handing"
WorkersCan == \E i \in Users : worker[i] \in {"calling", "handed"}
CloserCan == closer = "waiting" /\ wg = 0
SomebodyCan == CallerCan \/ WorkersCan \/ CloserCan

\* What is left to do of the call, as pairs of who and what: the steps of the
\* goroutine of a user, the documents that may still arrive, and (for 0) the
\* ends of the caller and of the channel.
Tasks == {"start", "request", "hand over", "end", "arrive", "collect", "return", "wait", "close"}
Due(i, t) ==
    \/ i \in Users /\ \/ t = "start" /\ worker[i] = "none"
                      \/ t = "request" /\ worker[i] \in {"none", "calling"}
                      \/ t = "hand over" /\ worker[i] \in {"none", "calling", "handing"}
                      \/ t = "end" /\ worker[i] # "done"
                      \/ t = "arrive" /\ i \notin indexed
    \/ i = 0 /\ \/ t = "collect" /\ pc = "spawning"
                \/ t = "return" /\ pc # "returned"
                \/ t = "wait" /\ closer = "none"
                \/ t = "close" /\ closer # "closed"
Left == {x \in (0..N) \X Tasks : Due(x[1], x[2])}

LEMMA LeftIsFinite == IsFiniteSet(Left) /\ Cardinality(Left) \in Nat
<1>1. IsFiniteSet(0..N)
    BY FS_Interval
<1>2. IsFiniteSet(Tasks)
    <2> DEFINE A == {"start", "request", "hand over"}
               B == {"end", "arrive", "collect"}
               C == {"return", "wait", "close"}
    <2>1. ASSUME NEW a, NEW b, NEW c PROVE IsFiniteSet({a, b, c})
        <3>1. IsFiniteSet({a} \cup {b})
            BY FS_Singleton, FS_Union
        <3>2. IsFiniteSet(({a} \cup {b}) \cup {c})
            BY <3>1, FS_Singleton, FS_Union
        <3>3. ({a} \cup {b}) \cup {c} = {a, b, c}
            OBVIOUS
        <3> QED BY <3>2, <3>3
    <2>2. IsFiniteSet(A) /\ IsFiniteSet(B) /\ IsFiniteSet(C)
        BY <2>1
    <2>3. Tasks = (A \cup B) \cup C
        BY DEF Tasks
    <2> HIDE DEF A, B, C
    <2> QED BY <2>2, <2>3, FS_Union
<1>3. IsFiniteSet((0..N) \X Tasks)
    BY <1>1, <1>2, FS_Product
<1>4. Left \in SUBSET ((0..N) \X Tasks)
    BY DEF Left
<1> QED BY <1>3, <1>4, FS_Subset, FS_CardinalityType

\* A step that makes nothing due and something done has less left after it.
LEMMA LessLeft ==
    ASSUME \A i \in 0..N, t \in Tasks : Due(i, t)' => Due(i, t),
           NEW j \in 0..N, NEW s \in Tasks, Due(j, s), ~Due(j, s)'
    PROVE  Cardinality(Left') < Cardinality(Left)
<1>1. Left' \in SUBSET Left
    BY DEF Left
<1>2. <<j, s>> \in Left /\ <<j, s>> \notin Left'
    BY DEF Left
<1>3. Cardinality(Left') <= Cardinality(Left) /\ Left' # Left /\ Cardinality(Left') \in Nat
    BY <1>1, <1>2, LeftIsFinite, FS_Subset, FS_CardinalityType
<1> QED BY <1>1, <1>3, LeftIsFinite, FS_Subset

\* A goroutine goes on, for which somebody starts it, receives from it or not.
LEMMA WorkerGoesOn ==
    ASSUME TypeOK, NEW j \in Users, NEW l, WorkerGoto(j, l),
           \/ worker[j] = "none" /\ l = "calling"
           \/ worker[j] = "calling" /\ l = "handing"
           \/ worker[j] = "handing" /\ l = "handed"
           \/ worker[j] = "handed" /\ l = "done",
           indexed \subseteq indexed', UNCHANGED <<pc, closer>>
    PROVE  Cardinality(Left') < Cardinality(Left)
<1>1. worker'[j] = l /\ \A i \in Users \ {j} : worker'[i] = worker[i]
    BY DEF TypeOK, WorkerGoto
<1>2. \A i \in 0..N, t \in Tasks : Due(i, t)' => Due(i, t)
    BY <1>1 DEF Due
<1>3. j \in 0..N /\ j # 0
    BY DEF Users
<1>4. \E t \in {"start", "request", "hand over", "end"} : Due(j, t) /\ ~Due(j, t)'
    BY <1>1, <1>3 DEF Due
<1> QED BY <1>2, <1>3, <1>4, LessLeft DEF Tasks

\* The caller or the closer goes on, or a document arrives late.
LEMMA OtherGoesOn ==
    ASSUME IInv, MarshalFails \/ StartCloser \/ Return \/ CloseChannel
    PROVE  Cardinality(Left') < Cardinality(Left)
<1>1. UNCHANGED <<worker, indexed>>
    BY DEF MarshalFails, StartCloser, Return, CloseChannel
<1>2. \/ pc' = pc /\ closer = "waiting" /\ closer' = "closed"
      \/ pc = "spawning" /\ pc' = "collecting" /\ closer = "none" /\ closer' = "waiting"
      \/ pc # "returned" /\ pc' = "returned" /\ closer' = closer
    BY DEF IInv, Phases, MarshalFails, StartCloser, Return, CloseChannel
<1>3. \A i \in 0..N, t \in Tasks : Due(i, t)' => Due(i, t)
    BY <1>1, <1>2 DEF Due
<1>4. \E t \in {"collect", "return", "close"} : Due(0, t) /\ ~Due(0, t)'
    BY <1>2 DEF Due, Users
<1>5. 0 \in 0..N
    OBVIOUS
<1> QED BY <1>3, <1>4, <1>5, LessLeft DEF Tasks

LEMMA LateGoesOn ==
    ASSUME IInv, NEW j \in Users, IndexedLate(j)
    PROVE  Cardinality(Left') < Cardinality(Left)
<1>1. UNCHANGED <<pc, worker, closer>> /\ j \notin indexed /\ indexed' = indexed \cup {j}
    BY DEF IndexedLate
<1>2. \A i \in 0..N, t \in Tasks : Due(i, t)' => Due(i, t)
    BY <1>1 DEF Due
<1>3. Due(j, "arrive") /\ ~Due(j, "arrive")' /\ j \in 0..N
    BY <1>1 DEF Due, Users
<1> QED BY <1>2, <1>3, LessLeft DEF Tasks

LEMMA StepLessLeft ==
    ASSUME IInv, Next
    PROVE  Cardinality(Left') < Cardinality(Left)
<1> USE DEF IInv
<1>1. CASE Spawn
    <2>1. next \in Users /\ worker[next] = "none"
        BY <1>1 DEF TypeOK, Started, Spawn, Users
    <2> QED BY <1>1, <2>1, WorkerGoesOn DEF Spawn
<1>2. ASSUME NEW i \in Users, Receive(i) \/ WorkerStep(i)
      PROVE  Cardinality(Left') < Cardinality(Left)
    BY <1>2, WorkerGoesOn DEF Receive, WorkerStep, Indexed, Refused, RequestFails, Responded, WorkerEnds
<1>3. ASSUME NEW i \in Users, IndexedLate(i) PROVE Cardinality(Left') < Cardinality(Left)
    BY <1>3, LateGoesOn
<1>4. CASE MarshalFails \/ StartCloser \/ Return \/ CloseChannel
    BY <1>4, OtherGoesOn
<1> QED BY <1>1, <1>2, <1>3, <1>4 DEF Next, CallerStep

\* The steps run out: every one of them, of whoever it is, leaves less to do,
\* and there are 5 * N + 4 things to do at most.
THEOREM StepsRunOut == Spec => [][Cardinality(Left') < Cardinality(Left)]_vars
<1>1. IInv /\ [Next]_vars => [Cardinality(Left') < Cardinality(Left)]_vars
    BY StepLessLeft
<1> QED BY <1>1, Invariance, PTL DEF Spec

\* As long as something of a call is left to do that nobody has given up on
\* (a marshalling error leaves the goroutines without a receiver), somebody
\* has a step to take: the caller does not wait for the closer, the closer for
\* the goroutines and these for the caller.
AllDone == pc = "returned" /\ closer = "closed" /\ \A i \in Users : worker[i] = "done"
NeverStuck == SomebodyCan \/ AllDone \/ (pc = "returned" /\ next <= N)
THEOREM NobodyWaitsForEver == Spec => []NeverStuck
<1>1. IInv /\ NothingOutlivesTheCall => NeverStuck
    <2> SUFFICES ASSUME IInv, NothingOutlivesTheCall, ~SomebodyCan, ~(pc = "returned" /\ next <= N)
                 PROVE  AllDone
        BY DEF NeverStuck
    <2> USE DEF IInv, TypeOK, SomebodyCan
    <2>1. pc = "returned"
        <3> SUFFICES ASSUME pc = "collecting" PROVE FALSE
            BY DEF CallerCan
        <3>1. closer = "waiting"
            BY DEF Phases, CallerCan
        <3>2. PICK i \in Users : i \in Running
            BY <3>1, ZeroMeansNobody DEF CloserCan, Running
        <3> QED BY <3>2 DEF Running, CallerCan, WorkersCan
    <2>2. next > N /\ closer = "closed"
        BY <2>1 DEF Phases
    <2> QED BY <2>1, <2>2 DEF NothingOutlivesTheCall, AllDone
<1> QED BY <1>1, Invariance, NoLeak, PTL

=============================================================================

---------------------------- MODULE StartupProofs ---------------------------
(***************************************************************************)
(* Theorems about Startup, for any number of processes, whatever settings  *)
(* they are started with and however many calls fail.                      *)
(***************************************************************************)
EXTENDS Startup, TLAPS

USE FaultsAssumption, NoEnvAssumption

\* What the invariant says of one process.
Fine(p) ==
    /\ pc[p] = "panicked" =>
           cause[p] \in {"service", "schema"} \/ (cause[p] = "settings" /\ ~Usable(env[p]))
    /\ \A g \in Groups :
          readers[p][g] > 0 =>
              schema = "registered" /\ (Topic(env[p], g) = UsersTopic => topic # 0)
    /\ pc[p] = "running" => \A g \in Groups : readers[p][g] = Num(env[p], g)
    /\ pc[p] \in {"decoder", "cache", "search", "running"} => topic # 0
    /\ pc[p] \in {"cache", "search", "running"} => schema = "registered"
    /\ pc[p] \notin {"off", "config", "panicked"} => Parses(env[p])
    /\ pc[p] \in {"controller", "create", "decoder", "cache", "search", "running"}
           => Brokers(env[p]) # <<>>
    /\ pc[p] \in {"search", "running"} => readers[p]["cache"] = Num(env[p], "cache")
    /\ pc[p] = "running" => readers[p]["search"] = Num(env[p], "search")

LEMMA IInvOfEach == IInv <=> TypeOK /\ \A p \in Procs : Fine(p)
BY DEF IInv, Fine, PanicsForAReason, ReadersCanWork, RunsAsConfigured, AtLeast

LEMMA IInvOfEachNext == IInv' <=> TypeOK' /\ \A p \in Procs : Fine(p)'
BY DEF IInv, Fine, PanicsForAReason, ReadersCanWork, RunsAsConfigured, AtLeast

LEMMA InitHolds == Init => IInv
<1> SUFFICES ASSUME Init PROVE IInv
    OBVIOUS
<1>1. TypeOK
    BY DEF Init, TypeOK, Locations
<1>2. ASSUME NEW p \in Procs PROVE Fine(p)
    BY DEF Init, Fine
<1> QED BY <1>1, <1>2, IInvOfEach

\* What a process has is not taken from it by what the others do.
LEMMA OthersStayFine ==
    ASSUME NEW q \in Procs, Fine(q),
           UNCHANGED <<pc[q], env[q], cause[q], readers[q]>>,
           topic # 0 => topic' # 0, schema = "registered" => schema' = "registered"
    PROVE  Fine(q)'
BY DEF Fine

LEMMA BootStepKeeps ==
    ASSUME IInv, NEW p \in Procs, BootStep(p)
    PROVE  IInv'
<1> USE DEF Goto, Panic, NumPartitions
<1>1. TypeOK /\ Fine(p) /\ \A q \in Procs : Fine(q)
    BY IInvOfEach
<1>2. UNCHANGED <<env, schema, faults>>
    BY DEF BootStep, ReadConfig, PingRedis, PingElastic, OpenStorage, DialBrokers,
           DialController, CreateTopic, GetDecoder, CreateReaders
<1>3. TypeOK' /\ Fine(p)'
    <2>1. CASE ReadConfig(p)
        <3>1. TypeOK'
            BY <1>1, <2>1 DEF ReadConfig, TypeOK, Locations
        <3>2. CASE Parses(env[p])
            <4>1. pc'[p] = "redis" /\ UNCHANGED <<readers, topic>>
                BY <1>1, <2>1, <3>2 DEF ReadConfig, TypeOK
            <4> QED BY <1>1, <1>2, <3>1, <3>2, <4>1 DEF Fine
        <3>3. CASE ~Parses(env[p])
            <4>1. ~Usable(env[p])
                BY <3>3 DEF Usable
            <4>2. pc'[p] = "panicked" /\ cause'[p] = "settings" /\ UNCHANGED <<readers, topic>>
                BY <1>1, <2>1, <3>3 DEF ReadConfig, TypeOK
            <4> QED BY <1>1, <1>2, <3>1, <4>1, <4>2 DEF Fine
        <3> QED BY <3>1, <3>2, <3>3
    <2>2. CASE PingRedis(p)
        BY <1>1, <2>2 DEF PingRedis, TypeOK, Fine, Locations
    <2>3. CASE PingElastic(p)
        BY <1>1, <2>3 DEF PingElastic, TypeOK, Fine, Locations
    <2>4. CASE OpenStorage(p)
        BY <1>1, <2>4 DEF OpenStorage, TypeOK, Fine, Locations
    <2>5. CASE DialBrokers(p)
        BY <1>1, <2>5 DEF DialBrokers, TypeOK, Fine, Locations, Usable
    <2>6. CASE DialController(p)
        BY <1>1, <2>6 DEF DialController, TypeOK, Fine, Locations
    <2>7. CASE CreateTopic(p)
        BY <1>1, <2>7 DEF CreateTopic, TypeOK, Fine, Locations
    <2>8. CASE GetDecoder(p)
        BY <1>1, <2>8 DEF GetDecoder, TypeOK, Fine, Locations
    <2>9. ASSUME NEW g \in Groups, CreateReaders(p, g) PROVE TypeOK' /\ Fine(p)'
        <3>1. CASE Num(env[p], g) > 0 /\ Refuses(env[p], g)
            <4>1. TypeOK'
                <5>1. /\ pc' = [pc EXCEPT ![p] = "panicked"]
                      /\ cause' = [cause EXCEPT ![p] = "settings"]
                      /\ UNCHANGED <<env, readers, topic, schema, faults>>
                    BY <2>9, <3>1 DEF CreateReaders
                <5>2. env[p] \in Envs
                    BY <1>1, <2>9 DEF CreateReaders, TypeOK, Groups
                <5>3. pc' \in [Procs -> Locations] /\ cause' \in [Procs -> {"none", "settings", "service", "schema"}]
                    BY <1>1, <5>1 DEF TypeOK, Locations
                <5>4. \A q \in Procs : pc'[q] # "off" => env'[q] \in Envs
                    BY <1>1, <5>1, <5>2 DEF TypeOK
                <5> QED BY <1>1, <5>1, <5>3, <5>4 DEF TypeOK
            <4>2. /\ ~Usable(env[p]) /\ UNCHANGED <<readers, topic>>
                  /\ pc'[p] = "panicked" /\ cause'[p] = "settings"
                BY <1>1, <2>9, <3>1 DEF CreateReaders, TypeOK, Usable
            <4> QED BY <1>1, <1>2, <4>1, <4>2 DEF Fine
        <3>2. CASE ~(Num(env[p], g) > 0 /\ Refuses(env[p], g))
            <4>1. TypeOK'
                <5>1. Num(env[p], g) \in Nat
                    <6>1. env[p] \in Envs /\ Parses(env[p])
                        BY <1>1, <2>9 DEF CreateReaders, TypeOK, Fine, Groups
                    <6> QED BY <6>1, EnvsAssumption
                            DEF Parses, Parsed, IntSettings, Num, GetEnv, Groups
                <5>2. pc' = [pc EXCEPT ![p] = IF g = "cache" THEN "search" ELSE "running"]
                    BY <2>9, <3>2 DEF CreateReaders
                <5>3. readers' = [readers EXCEPT ![p][g] = Num(env[p], g)]
                    BY <2>9, <3>2 DEF CreateReaders
                <5>4. UNCHANGED <<env, cause, topic, schema, faults>>
                    BY <2>9, <3>2 DEF CreateReaders
                <5>5. readers' \in [Procs -> [Groups -> Nat]]
                    BY <1>1, <5>1, <5>3 DEF TypeOK
                <5>6. pc' \in [Procs -> Locations] /\ pc[p] # "off"
                    BY <1>1, <2>9, <5>2 DEF CreateReaders, TypeOK, Locations, Groups
                <5>7. \A q \in Procs : pc'[q] # "off" => env'[q] \in Envs
                    BY <1>1, <5>2, <5>4, <5>6 DEF TypeOK
                <5> QED BY <1>1, <5>4, <5>5, <5>6, <5>7 DEF TypeOK
            <4>2. /\ readers'[p][g] = Num(env[p], g)
                  /\ \A h \in Groups : h # g => readers'[p][h] = readers[p][h]
                <5>1. readers' = [readers EXCEPT ![p][g] = Num(env[p], g)]
                    BY <2>9, <3>2 DEF CreateReaders
                <5> QED BY <1>1, <5>1 DEF TypeOK
            <4>3. /\ pc[p] = g /\ UNCHANGED <<topic, cause>>
                  /\ pc'[p] = IF g = "cache" THEN "search" ELSE "running"
                BY <1>1, <2>9, <3>2 DEF CreateReaders, TypeOK
            <4> QED BY <1>1, <1>2, <4>1, <4>2, <4>3 DEF Fine, Groups
        <3> QED BY <3>1, <3>2
    <2> QED BY <2>1, <2>2, <2>3, <2>4, <2>5, <2>6, <2>7, <2>8, <2>9 DEF BootStep
<1>4. ASSUME NEW q \in Procs, q # p PROVE Fine(q)'
    <2>1. UNCHANGED <<pc[q], cause[q], readers[q]>> /\ (topic # 0 => topic' # 0)
        BY <1>1, <1>4 DEF TypeOK, BootStep, ReadConfig, PingRedis, PingElastic, OpenStorage,
           DialBrokers, DialController, CreateTopic, GetDecoder, CreateReaders
    <2> QED BY <1>1, <1>2, <2>1, OthersStayFine
<1> QED BY <1>3, <1>4, IInvOfEachNext

LEMMA OtherStepKeeps ==
    ASSUME IInv, \/ \E p \in Procs : Launch(p) \/ Fail(p) \/ Stop(p)
                 \/ ConnectorCreatesTopic \/ RegisterSchema \/ UNCHANGED vars
    PROVE  IInv'
<1> USE DEF Goto, Panic, NumPartitions
<1>1. TypeOK /\ \A q \in Procs : Fine(q)
    BY IInvOfEach
<1>2. ASSUME NEW p \in Procs, Launch(p) \/ Fail(p) \/ Stop(p) PROVE IInv'
    <2>1. (topic # 0 => topic' = topic) /\ topic' \in {0, 1, NumPartitions}
        BY <1>1, <1>2 DEF TypeOK, Launch, Fail, Stop
    <2>2. TypeOK'
        <3>1. CASE Launch(p)
            BY <1>1, <3>1 DEF TypeOK, Launch, Locations
        <3>2. CASE Fail(p)
            BY <1>1, <2>1, <3>2 DEF TypeOK, Fail, Calls, Locations
        <3>3. CASE Stop(p)
            BY <1>1, <3>3 DEF TypeOK, Stop, Locations
        <3> QED BY <1>2, <3>1, <3>2, <3>3
    <2>3. Fine(p)'
        <3>1. CASE Launch(p) \/ Stop(p)
            BY <1>1, <3>1 DEF TypeOK, Fine, Launch, Stop
        <3>2. CASE Fail(p)
            <4>1. /\ pc'[p] = "panicked" /\ cause'[p] = "service"
                  /\ UNCHANGED <<env, readers, schema>>
                BY <1>1, <3>2 DEF TypeOK, Fail
            <4> QED BY <1>1, <2>1, <4>1 DEF Fine
        <3> QED BY <1>2, <3>1, <3>2
    <2>4. ASSUME NEW q \in Procs, q # p PROVE Fine(q)'
        <3>1. UNCHANGED <<pc[q], env[q], cause[q], readers[q], schema>>
            BY <1>1, <1>2, <2>4 DEF TypeOK, Launch, Fail, Stop
        <3> QED BY <1>1, <2>1, <3>1, OthersStayFine
    <2> QED BY <2>2, <2>3, <2>4, IInvOfEachNext
<1>3. CASE ConnectorCreatesTopic \/ RegisterSchema \/ UNCHANGED vars
    <2>1. UNCHANGED <<pc, env, cause, readers>> /\ (topic # 0 => topic' # 0)
          /\ (schema = "registered" => schema' = "registered")
        BY <1>3 DEF ConnectorCreatesTopic, RegisterSchema, vars
    <2>2. TypeOK'
        BY <1>1, <1>3 DEF TypeOK, ConnectorCreatesTopic, RegisterSchema, vars
    <2> QED BY <1>1, <2>1, <2>2, OthersStayFine, IInvOfEachNext
<1> QED BY <1>2, <1>3

\* What holds of every start.
THEOREM Invariance == Spec => []IInv
<1>1. IInv /\ [Next]_vars => IInv'
    BY BootStepKeeps, OtherStepKeeps DEF Next
<1> QED BY <1>1, InitHolds, PTL DEF Spec

\* The types.
THEOREM TypeCorrect == Spec => []TypeOK
<1>1. IInv => TypeOK
    BY DEF IInv
<1> QED BY <1>1, Invariance, PTL

\* What a failed start leaves behind makes no later one fail.
THEOREM Repeatable == Spec => []PanicsForAReason
<1>1. IInv => PanicsForAReason
    BY DEF IInv
<1> QED BY <1>1, Invariance, PTL

\* A reader that joins its group has a codec, and the topic that New creates.
THEOREM ReadersReady == Spec => []ReadersCanWork
<1>1. IInv => ReadersCanWork
    BY DEF IInv
<1> QED BY <1>1, Invariance, PTL

\* Each group has the readers of its own settings.
THEOREM Configured == Spec => []RunsAsConfigured
<1>1. IInv => RunsAsConfigured
    BY DEF IInv
<1> QED BY <1>1, Invariance, PTL

----------------------------------------------------------------------------
(* The safety half of Recovers.                                            *)

\* The steps of New in their order: what comes after each.
After == [config |-> "redis", redis |-> "elastic", elastic |-> "storage", storage |-> "topics",
          topics |-> "controller", controller |-> "create", create |-> "decoder",
          decoder |-> "cache", cache |-> "search", search |-> "running"]

\* Each step of a process that can start brings it to the one that comes after.
UsableStartsGetOn ==
    \A p \in Procs : BootStep(p) /\ Usable(env[p]) /\ schema = "registered" =>
        pc[p] \in DOMAIN After /\ pc'[p] = After[pc[p]]

LEMMA AfterEach ==
    /\ DOMAIN After = {"config", "redis", "elastic", "storage", "topics", "controller",
                       "create", "decoder", "cache", "search"}
    /\ After["config"] = "redis" /\ After["redis"] = "elastic"
    /\ After["elastic"] = "storage" /\ After["storage"] = "topics"
    /\ After["topics"] = "controller" /\ After["controller"] = "create"
    /\ After["create"] = "decoder" /\ After["decoder"] = "cache"
    /\ After["cache"] = "search" /\ After["search"] = "running"
BY DEF After

\* New never panics on its own account: with settings that can be used, and
\* with the schema registered, each of its steps that no call fails leads to the
\* next, and after ten of them the process runs, whatever earlier attempts
\* and other processes have left behind.
THEOREM UsableStartsArrive == Spec => [][UsableStartsGetOn]_vars
<1>1. ASSUME TypeOK, NEW p \in Procs, BootStep(p), Usable(env[p]), schema = "registered"
      PROVE  pc[p] \in DOMAIN After /\ pc'[p] = After[pc[p]]
    <2> USE DEF Goto, Panic, TypeOK, Usable
    <2>1. CASE ReadConfig(p)
        BY <1>1, <2>1, AfterEach DEF ReadConfig
    <2>2. CASE PingRedis(p)
        BY <1>1, <2>2, AfterEach DEF PingRedis
    <2>3. CASE PingElastic(p)
        BY <1>1, <2>3, AfterEach DEF PingElastic
    <2>4. CASE OpenStorage(p)
        BY <1>1, <2>4, AfterEach DEF OpenStorage
    <2>5. CASE DialBrokers(p)
        BY <1>1, <2>5, AfterEach DEF DialBrokers
    <2>6. CASE DialController(p)
        BY <1>1, <2>6, AfterEach DEF DialController
    <2>7. CASE CreateTopic(p)
        BY <1>1, <2>7, AfterEach DEF CreateTopic
    <2>8. CASE GetDecoder(p)
        BY <1>1, <2>8, AfterEach DEF GetDecoder
    <2>9. ASSUME NEW g \in Groups, CreateReaders(p, g)
          PROVE  pc[p] \in DOMAIN After /\ pc'[p] = After[pc[p]]
        <3>1. pc[p] = g /\ pc'[p] = IF g = "cache" THEN "search" ELSE "running"
            BY <1>1, <2>9 DEF CreateReaders
        <3> QED BY <3>1, AfterEach DEF Groups
    <2> QED BY <1>1, <2>1, <2>2, <2>3, <2>4, <2>5, <2>6, <2>7, <2>8, <2>9 DEF BootStep
<1>2. TypeOK /\ [Next]_vars => [UsableStartsGetOn]_vars
    BY <1>1 DEF UsableStartsGetOn
<1> QED BY <1>2, TypeCorrect, PTL DEF Spec

=============================================================================

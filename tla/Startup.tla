------------------------------- MODULE Startup ------------------------------
(***************************************************************************)
(* Processes of the API that start, against services that come and go:     *)
(* config.New and bootstrap.New, with the calls to Redis, Elasticsearch,   *)
(* MySQL, Kafka and the schema registry that they make on the way          *)
(* (internal/config, internal/bootstrap, internal/consume/topic.go,        *)
(* internal/schema).  A process that fails panics; somebody may start it   *)
(* again.  What a running process does is AppLifecycle.                    *)
(*                                                                         *)
(* The topic and the schema are what the processes share with each other,  *)
(* with the connector and with their own earlier attempts.                 *)
(***************************************************************************)
EXTENDS Naturals, Sequences

CONSTANTS
    Procs,          \* processes of the API
    Envs,           \* the environments one may be started in
    Unset,          \* a variable that the environment does not have
    Malformed,      \* a value that strconv or time does not parse
    Refused,        \* one that kafka-go does not take, a negative one say
    NoEnv,          \* a process that has not been started
    MaxFaults       \* calls that fail

Groups == {"cache", "search"}

\* The settings by the getter that reads them; those of them that are strings
\* and make no difference to the start are left out.
IntSettings == {"MYSQL_PORT", "CACHE_MAX_BYTES", "CACHE_NUM", "SEARCH_MAX_BYTES",
                "SEARCH_NUM", "HTTP_PORT", "GRPC_PORT", "REDIS_PORT"}
DurationSettings == {"STORAGE_QUERY_TIMEOUT", "TELEMETRY_METRICS_COLLECTION_INTERVAL",
                     "CACHE_MAX_WAIT", "CACHE_REBALANCE_TIMEOUT", "SEARCH_MAX_WAIT",
                     "SEARCH_REBALANCE_TIMEOUT", "SCHEMA_REGISTRY_CLIENT_TIMEOUT",
                     "HTTP_READ_HEADER_TIMEOUT"}
BoolSettings == {"TELEMETRY_ENABLED", "LOGGING_PRODUCTION", "CACHE_IS_ENABLED",
                 "SEARCH_IS_ENABLED"}
Parsed == IntSettings \cup DurationSettings \cup BoolSettings
Settings == Parsed \cup {"STORAGE_TYPE", "KAFKA_BROKERS", "CACHE_GROUP_ID", "CACHE_TOPIC",
                        "SEARCH_GROUP_ID", "SEARCH_TOPIC"}

ASSUME EnvsAssumption ==
    \A e \in Envs :
        /\ DOMAIN e = Settings
        /\ \A key \in {"CACHE_NUM", "SEARCH_NUM"} : e[key] \in Nat \cup {Unset, Malformed}
ASSUME NoEnvAssumption == NoEnv \notin Envs
ASSUME FaultsAssumption == MaxFaults \in Nat

VARIABLES
    pc,         \* the step of New that each process has come to
    env,        \* the environment it was started in
    cause,      \* why it has panicked
    readers,    \* how many readers of each group it has created
    topic,      \* the partitions of UsersTopic, 0 before there is one
    schema,     \* whether the registry has the schema of its values
    faults      \* calls that have failed

vars == <<pc, env, cause, readers, topic, schema, faults>>

----------------------------------------------------------------------------
(* config.New.                                                             *)

\* What a getter returns.
GetEnv(e, key, default) == IF e[key] = Unset THEN default ELSE e[key]

\* Every int, duration and bool that is set is parsed, and New panics if one
\* cannot be, whether or not its value will be used.
Parses(e) == \A key \in Parsed : e[key] # Malformed

StorageType(e) == GetEnv(e, "STORAGE_TYPE", "memory")

\* The two consumers have the same settings under different names.
Topic(e, g) == GetEnv(e, IF g = "cache" THEN "CACHE_TOPIC" ELSE "SEARCH_TOPIC", "")
GroupID(e, g) == GetEnv(e, IF g = "cache" THEN "CACHE_GROUP_ID" ELSE "SEARCH_GROUP_ID", "")
MaxBytes(e, g) == GetEnv(e, IF g = "cache" THEN "CACHE_MAX_BYTES" ELSE "SEARCH_MAX_BYTES", 200000)
RebalanceTimeout(e, g) ==
    GetEnv(e, IF g = "cache" THEN "CACHE_REBALANCE_TIMEOUT" ELSE "SEARCH_REBALANCE_TIMEOUT", 30)
Num(e, g) == IF g = "cache" THEN GetEnv(e, "CACHE_NUM", 1) ELSE GetEnv(e, "SEARCH_NUM", 2)

\* The topic New asks for: its name is fixed, whatever the readers are told to
\* read, its partitions are two.
UsersTopic == "mysql.go_api_demo.users"
Brokers(e) == GetEnv(e, "KAFKA_BROKERS", <<>>)
NumPartitions == 2

\* What kafka.NewReader panics over.  The timeout only matters to a reader
\* with a group.
Refuses(e, g) ==
    \/ Topic(e, g) = "" \/ MaxBytes(e, g) = Refused
    \/ GroupID(e, g) # "" /\ RebalanceTimeout(e, g) = Refused

----------------------------------------------------------------------------
(* The steps of one process.                                               *)

Init ==
    /\ pc = [p \in Procs |-> "off"]
    /\ env = [p \in Procs |-> NoEnv]
    /\ cause = [p \in Procs |-> "none"]
    /\ readers = [p \in Procs |-> [g \in Groups |-> 0]]
    /\ topic = 0
    /\ schema = "missing"
    /\ faults = 0

Goto(p, l) == pc' = [pc EXCEPT ![p] = l]

\* New panics, in a library, in a getter or through logger.Panic; main has not
\* deferred Close yet.
Panic(p, why) == Goto(p, "panicked") /\ cause' = [cause EXCEPT ![p] = why]

\* Somebody starts a process that is not running, perhaps with other settings.
Launch(p) ==
    /\ pc[p] \in {"off", "panicked"}
    /\ \E e \in Envs : env' = [env EXCEPT ![p] = e]
    /\ Goto(p, "config")
    /\ cause' = [cause EXCEPT ![p] = "none"]
    /\ readers' = [readers EXCEPT ![p] = [g \in Groups |-> 0]]
    /\ UNCHANGED <<topic, schema, faults>>

\* config.New; neither NewLogger nor NewTelemetry has anything that fails.
ReadConfig(p) ==
    /\ pc[p] = "config"
    /\ IF Parses(env[p]) THEN Goto(p, "redis") /\ UNCHANGED cause ELSE Panic(p, "settings")
    /\ UNCHANGED <<env, readers, topic, schema, faults>>

PingRedis(p) ==
    /\ pc[p] = "redis"
    /\ Goto(p, "elastic")
    /\ UNCHANGED <<env, cause, readers, topic, schema, faults>>

\* Elasticsearch answers, whatever it answers.
PingElastic(p) ==
    /\ pc[p] = "elastic"
    /\ Goto(p, "storage")
    /\ UNCHANGED <<env, cause, readers, topic, schema, faults>>

\* A slip: newUserStorage has no default.
OpenStorageStrictly(p) ==
    /\ pc[p] = "storage"
    /\ IF StorageType(env[p]) = "sql" THEN Goto(p, "topics") /\ UNCHANGED cause
       ELSE Panic(p, "storage")
    /\ UNCHANGED <<env, readers, topic, schema, faults>>

\* MySQL is pinged if it is asked for; anything else is the memory storage.
OpenStorage(p) ==
    /\ pc[p] = "storage"
    /\ Goto(p, "topics")
    /\ UNCHANGED <<env, cause, readers, topic, schema, faults>>

\* CreateTopics dials the brokers in turn until it is connected, and gives up
\* at the first that it cannot dial (Fail).  With no broker there is no
\* connection, and asking it for the controller is a nil dereference.
DialBrokers(p) ==
    /\ pc[p] = "topics"
    /\ IF Brokers(env[p]) = <<>> THEN Panic(p, "settings")
       ELSE Goto(p, "controller") /\ UNCHANGED cause
    /\ UNCHANGED <<env, readers, topic, schema, faults>>

\* The controller is asked for and dialled.
DialController(p) ==
    /\ pc[p] = "controller"
    /\ Goto(p, "create")
    /\ UNCHANGED <<env, cause, readers, topic, schema, faults>>

\* A slip: a topic that exists is an error.
CreateTopicStrictly(p) ==
    /\ pc[p] = "create"
    /\ topic' = IF topic = 0 THEN NumPartitions ELSE topic
    /\ IF topic = 0 THEN Goto(p, "decoder") /\ UNCHANGED cause ELSE Panic(p, "topic")
    /\ UNCHANGED <<env, readers, schema, faults>>

\* Kafka creates the topic; of one that exists it says so, which kafka-go does
\* not count as an error.
CreateTopic(p) ==
    /\ pc[p] = "create"
    /\ topic' = IF topic = 0 THEN NumPartitions ELSE topic
    /\ Goto(p, "decoder")
    /\ UNCHANGED <<env, cause, readers, schema, faults>>

\* A slip: the codec is made when the first message is decoded.
GetDecoderLazily(p) ==
    /\ pc[p] = "decoder"
    /\ Goto(p, "cache")
    /\ UNCHANGED <<env, cause, readers, topic, schema, faults>>

\* The registry is asked for the schema.  The status of its answer is not
\* looked at: one that has no schema makes a codec of "<nil>", which fails.
GetDecoder(p) ==
    /\ pc[p] = "decoder"
    /\ IF schema = "registered" THEN Goto(p, "cache") /\ UNCHANGED cause ELSE Panic(p, "schema")
    /\ UNCHANGED <<env, readers, topic, schema, faults>>

\* NewConsumers: kafka.NewReader panics over settings it refuses.  A reader
\* begins to join its group as soon as it is made.
CreateReaders(p, g) ==
    /\ pc[p] = g
    /\ IF Num(env[p], g) > 0 /\ Refuses(env[p], g)
       THEN Panic(p, "settings") /\ UNCHANGED readers
       ELSE /\ readers' = [readers EXCEPT ![p][g] = Num(env[p], g)]
            /\ Goto(p, IF g = "cache" THEN "search" ELSE "running")
            /\ UNCHANGED cause
    /\ UNCHANGED <<env, topic, schema, faults>>

\* The steps that call a service.
Calls(p) ==
    \/ pc[p] \in {"redis", "elastic", "topics", "controller", "create", "decoder"}
    \/ pc[p] = "storage" /\ StorageType(env[p]) = "sql"

\* A call fails, perhaps after it has created the topic.
Fail(p) ==
    /\ Calls(p) /\ faults < MaxFaults
    /\ faults' = faults + 1
    /\ topic' \in {topic, IF pc[p] = "create" /\ topic = 0 THEN NumPartitions ELSE topic}
    /\ Panic(p, "service")
    /\ UNCHANGED <<env, readers, schema>>

\* A process ends, as AppLifecycle says; its readers end with it.
Stop(p) ==
    /\ pc[p] = "running"
    /\ Goto(p, "off")
    /\ readers' = [readers EXCEPT ![p] = [g \in Groups |-> 0]]
    /\ UNCHANGED <<env, cause, topic, schema, faults>>

----------------------------------------------------------------------------
(* The services.                                                           *)

\* The connector has something to publish, and creates the topic as it is
\* told to: with one partition.
ConnectorCreatesTopic ==
    /\ topic = 0
    /\ topic' = 1
    /\ UNCHANGED <<pc, env, cause, readers, schema, faults>>

\* The registry's container registers the schema once the registry is up.
RegisterSchema ==
    /\ schema = "missing"
    /\ schema' = "registered"
    /\ UNCHANGED <<pc, env, cause, readers, topic, faults>>

----------------------------------------------------------------------------

BootStep(p) ==
    \/ ReadConfig(p) \/ PingRedis(p) \/ PingElastic(p) \/ OpenStorage(p)
    \/ DialBrokers(p) \/ DialController(p) \/ CreateTopic(p) \/ GetDecoder(p)
    \/ \E g \in Groups : CreateReaders(p, g)

Next ==
    \/ \E p \in Procs : Launch(p) \/ BootStep(p) \/ Fail(p) \/ Stop(p)
    \/ ConnectorCreatesTopic \/ RegisterSchema

\* A process goes on with its start, and every call ends.
Fairness == \A p \in Procs : WF_vars(BootStep(p))

Spec == Init /\ [][Next]_vars /\ Fairness

----------------------------------------------------------------------------
(* Properties.                                                             *)

Locations == {"off", "config", "redis", "elastic", "storage", "topics", "controller",
              "create", "decoder", "cache", "search", "running", "panicked"}

\* The type invariant.
TypeOK ==
    /\ pc \in [Procs -> Locations]
    /\ env \in [Procs -> Envs \cup {NoEnv}]
    /\ \A p \in Procs : pc[p] # "off" => env[p] \in Envs
    /\ cause \in [Procs -> {"none", "settings", "service", "schema"}]
    /\ readers \in [Procs -> [Groups -> Nat]]
    /\ topic \in {0, 1, NumPartitions}
    /\ schema \in {"missing", "registered"}
    /\ faults \in 0..MaxFaults

\* Settings a process can start with: they parse, there is a broker, and
\* kafka-go takes those of every reader asked for.
Usable(e) ==
    /\ Parses(e)
    /\ Brokers(e) # <<>>
    /\ \A g \in Groups : Num(e, g) > 0 => ~Refuses(e, g)

\* New panics only if a call has failed, the schema is missing or the settings
\* cannot be used: never because of what an earlier attempt, another process
\* or the connector has left behind (topic.go: CreateTopics is repeatable).
PanicsForAReason ==
    \A p \in Procs : pc[p] = "panicked" =>
        cause[p] \in {"service", "schema"} \/ (cause[p] = "settings" /\ ~Usable(env[p]))

\* A reader is created, and joins its group, only when there is a codec to
\* decode what it reads and, if it is told to read the topic that New asks
\* for, that topic (consumer.go: the order of the calls in newConsumers).
ReadersCanWork ==
    \A p \in Procs : \A g \in Groups :
        readers[p][g] > 0 =>
            schema = "registered" /\ (Topic(env[p], g) = UsersTopic => topic # 0)

\* Each group of a running process has the readers that its own settings ask
\* for (consumer.go: NewConsumers is called once per group).
RunsAsConfigured ==
    \A p \in Procs : pc[p] = "running" => \A g \in Groups : readers[p][g] = Num(env[p], g)

\* A start during which no call fails ends with a running process, however
\* many have failed before it, and wherever (README: the infrastructure comes
\* up late, and the API is started again).
Recovers ==
    \A p \in Procs :
        pc[p] = "config" /\ Usable(env[p]) /\ schema = "registered" /\ faults = MaxFaults
            ~> pc[p] = "running"

----------------------------------------------------------------------------
(* The inductive invariant behind the safety properties.                   *)

\* What a process has got hold of by the time it comes to a step.
AtLeast ==
    \A p \in Procs :
        /\ pc[p] \in {"decoder", "cache", "search", "running"} => topic # 0
        /\ pc[p] \in {"cache", "search", "running"} => schema = "registered"
        /\ pc[p] \notin {"off", "config", "panicked"} => Parses(env[p])
        /\ pc[p] \in {"controller", "create", "decoder", "cache", "search", "running"}
               => Brokers(env[p]) # <<>>
        /\ pc[p] \in {"search", "running"} => readers[p]["cache"] = Num(env[p], "cache")
        /\ pc[p] = "running" => readers[p]["search"] = Num(env[p], "search")

IInv == TypeOK /\ PanicsForAReason /\ ReadersCanWork /\ RunsAsConfigured /\ AtLeast

=============================================================================

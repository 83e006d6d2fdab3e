----------------------------- MODULE MCStartup ------------------------------
(* Values for the constants of Startup, for TLC. *)
EXTENDS Startup, TLC

CONSTANTS b1

\* .env.dist, as far as Startup looks at it.
Dist == [s \in Settings |->
           CASE s = "STORAGE_TYPE" -> "sql"
             [] s = "KAFKA_BROKERS" -> <<b1>>
             [] s = "CACHE_GROUP_ID" -> "user-consumer-cache-group-id"
             [] s = "SEARCH_GROUP_ID" -> "user-consumer-search-group-id"
             [] s \in {"CACHE_TOPIC", "SEARCH_TOPIC"} -> UsersTopic
             [] s \in {"CACHE_IS_ENABLED", "SEARCH_IS_ENABLED", "TELEMETRY_ENABLED"} -> TRUE
             [] OTHER -> Unset]

With(s, v) == [Dist EXCEPT ![s] = v]

\* No setting at all, the documented ones, and one departure from these.
EnvsOfMC == {[s \in Settings |-> Unset], Dist, With("STORAGE_TYPE", Unset),
             With("KAFKA_BROKERS", Unset), With("SEARCH_TOPIC", Unset),
             With("SEARCH_TOPIC", "users"), With("CACHE_MAX_BYTES", Refused),
             With("SEARCH_REBALANCE_TIMEOUT", Refused),
             With("CACHE_IS_ENABLED", Unset), With("CACHE_NUM", 3),
             With("SEARCH_NUM", 0), With("HTTP_PORT", Malformed),
             With("CACHE_MAX_WAIT", Malformed)}
=============================================================================

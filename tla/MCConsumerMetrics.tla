------------------------- MODULE MCConsumerMetrics --------------------------
(* Values for the constants of ConsumerMetrics, for TLC. *)
EXTENDS ConsumerMetrics

\* The defaults of config.go are one reader, and two; no group has an id.
NumOfMC == [d \in Destinations |-> IF d = "cache" THEN 1 ELSE 2]
GroupIDOfMC == [d \in Destinations |-> ""]
=============================================================================

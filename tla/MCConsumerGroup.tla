-------------------------- MODULE MCConsumerGroup --------------------------
(* Values for the constants of ConsumerGroup, for TLC. *)
EXTENDS ConsumerGroup, TLC

CONSTANTS p1, i1, i2

\* Two ids that are published to the same partition.
Together == (i1 :> p1) @@ (i2 :> p1)
=============================================================================

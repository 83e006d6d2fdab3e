-------------------------- MODULE MCAppLifecycle ---------------------------
(* Values for the constants of AppLifecycle, for TLC. *)
EXTENDS AppLifecycle, TLC

\* Sound for safety only: nothing tells two HTTP requests apart.
Symmetry == Permutations(HTTPRequests)
=============================================================================

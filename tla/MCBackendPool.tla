--------------------------- MODULE MCBackendPool ---------------------------
(* Instances of BackendPool for TLC. *)
EXTENDS BackendPool, FiniteSetsExt, TLC

\* Workers, clients and descriptors are interchangeable.
Symmetry == Permutations(Workers) \cup Permutations(Clients) \cup Permutations(Socks)

TotalActive == MapThenSumSet(LAMBDA b : active_connections[b], Backends)
Attempting  == {w \in Workers : pc[w] \in {"connect", "mark", "release", "setup"}}
Erasing     == {w \in Workers : pc[w] = "erase"}

(***************************************************************************)
(* The two counters the dashboard shows side by side agree: the sum of the *)
(* backends' active_connections (GET_TOPOLOGY) and the gauge               *)
(* g_metrics.active_connections (GET_METRICS) differ only by the attempts  *)
(* and removals in progress, so they are equal whenever the workers idle.  *)
(* That is within one router generation: the pool a reload brings in       *)
(* starts its counters afresh while old connections stay in the gauge.     *)
(***************************************************************************)
CountersAgree == TotalActive = gauge + Cardinality(Attempting) - Cardinality(Erasing)

=============================================================================

--------------------------- MODULE MCPipelineLive ---------------------------
(* The instance of Pipeline for its liveness properties. *)
EXTENDS Pipeline

CONSTANTS i1, i2

\* Next to an integration that never works, with and without lost answers and
\* expired entries.
Quiet == [broken |-> {i2}, muting |-> FALSE, lostAcks |-> FALSE, expiry |-> FALSE, stopping |-> FALSE]
Lossy == [Quiet EXCEPT !.lostAcks = TRUE, !.expiry = TRUE]

LiveScenes == {Quiet, Lossy}
=============================================================================

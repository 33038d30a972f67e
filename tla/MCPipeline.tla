----------------------------- MODULE MCPipeline -----------------------------
(***************************************************************************)
(* Pipeline and HAPipeline for TLC: the pipeline of one peer, and the peers  *)
(* of a cluster in time.  The variable part says which of them a behaviour   *)
(* is of.                                                                    *)
(***************************************************************************)
EXTENDS Pipeline, HAPipeline, TLC

CONSTANTS i1, i2

VARIABLE part

AlertSymmetry == Permutations(Alert)

\* An undisturbed environment, in which flushes may be cancelled.
Cancelled == [broken |-> {}, muting |-> FALSE, lostAcks |-> FALSE, expiry |-> FALSE, stopping |-> TRUE]

\* Everything that may go wrong does; the other integration never works.
Disturbed == [broken |-> {i2}, muting |-> TRUE, lostAcks |-> TRUE, expiry |-> TRUE, stopping |-> TRUE]

SafetyScenes == {Cancelled, Disturbed}

ASSUME Setting /\ Survivor

\* A part that is not considered stays in one of its initial states.
MCInit ==
    /\ part \in {"pipeline", "peers"} /\ Init /\ HAInit
    /\ part = "pipeline" => stable /\ next = [p \in Peer |-> 0]
    /\ part = "peers" => scene = Cancelled

MCNext ==
    \/ part = "pipeline" /\ Next /\ UNCHANGED <<part, haVars>>
    \/ part = "peers" /\ HANext /\ UNCHANGED <<part, vars>>

MCSpec == MCInit /\ [][MCNext]_<<part, vars, haVars>>
=============================================================================

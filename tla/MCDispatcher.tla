---------------------------- MODULE MCDispatcher ----------------------------
(***************************************************************************)
(* An instance of Dispatcher: all alerts are of one group.                 *)
(***************************************************************************)
EXTENDS Dispatcher, TLC

CONSTANTS a1, a2, f1

OneGroup == [a \in Alert |-> f1]

\* The workers are interchangeable.
WorkerSymmetry == Permutations(Worker)
=============================================================================

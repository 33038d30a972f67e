----------------------------- MODULE MCServices -----------------------------
(***************************************************************************)
(* Lifecycle and an instance of Dispatcher for TLC: the goroutines that      *)
(* start and stop the process, and those of a small dispatcher, for its      *)
(* liveness.  A behaviour is one of the one or of the other; the variable    *)
(* part says of which.                                                       *)
(***************************************************************************)
EXTENDS Lifecycle

CONSTANTS r1, w1, w2, a1, f1, None

VARIABLES part,
    state, ctxDone, of, ended, taken, groups, num, wk, alerts, destroyed, run, cancelled, batch, timer,
    mt, mtGroup, reached

dispVars == <<state, ctxDone, of, ended, taken, groups, num, wk, alerts, destroyed, run, cancelled, batch,
              timer, mt, mtGroup, reached>>
vars == <<part, lifeVars, dispVars>>

-----------------------------------------------------------------------------

\* Setup fails at any step; and files that do not load, do not build, have a bad tracing
\* or a bad output configuration.
Process(fails, badLoad, badBuild, badTrace, badOutput, n, apps) ==
    [fails |-> fails, badLoad |-> badLoad, badBuild |-> badBuild, badTrace |-> badTrace, badOutput |-> badOutput,
     maxFile |-> n, maxApps |-> apps]
Processes == {Process(f, {}, {}, {}, {}, 1, 0) : f \in 1 .. 14} \cup
             {Process(0, {}, {}, {1}, {}, 1, 0), Process(0, {2}, {3}, {}, {}, 3, 0),
              Process(0, {}, {}, {2}, {}, 2, 1), Process(0, {}, {}, {}, {2}, 2, 0)}

ASSUME OwnNames

\* Two workers of the dispatcher and the updates of one alert.
D == INSTANCE Dispatcher WITH
        Worker <- {w1, w2}, Alert <- {a1}, Fp <- {f1}, FpOf <- [a \in {a1} |-> f1], Limit <- 0,
        MaxRetries <- 1, MaxUpdates <- 2, held <- reached

-----------------------------------------------------------------------------

\* A part that is not considered stays in one of its initial states.
Init ==
    /\ part \in {"lifecycle", "dispatcher"}
    /\ LifeInit /\ D!Init
    /\ part = "dispatcher" => lscene = Process(1, {}, {}, {}, {}, 1, 0)

Next ==
    \/ part = "lifecycle" /\ LifeNext /\ UNCHANGED <<part, dispVars>>
    \/ part = "dispatcher" /\ D!Next /\ UNCHANGED <<part, lifeVars>>

\* The router's select takes a ready case again and again; the others go on when they can.
InLife == part = "lifecycle"
LifeFairness ==
    /\ WF_lifeVars(InLife /\ (SetupStep \/ SetupFails \/ Start)) /\ WF_lifeVars(InLife /\ Forward)
    /\ WF_lifeVars(InLife /\ (LoadFile \/ Build \/ ApplyOutputs \/ StopOld \/ StartInhibitor
                          \/ StartDispatcher \/ Publish))
    /\ WF_lifeVars(InLife /\ (StopServer \/ StopRouter \/ Cleanup \/ StopReturns))
    /\ WF_lifeVars(InLife /\ RouterQuits) /\ SF_lifeVars(InLife /\ RouterTriggered)
    /\ SF_lifeVars(InLife /\ RouterTakes(r1))

\* The fairness of Dispatcher.
InDispatcher == part = "dispatcher"
DispatcherFairness ==
    /\ \A w \in {w1, w2} : WF_dispVars(InDispatcher /\ D!WorkerNext(w))
    /\ \A g \in D!Gid : WF_dispVars(InDispatcher /\ D!GroupNext(g))
    /\ WF_dispVars(InDispatcher /\ D!TimerNext) /\ WF_dispVars(InDispatcher /\ D!MaintenanceNext)
    /\ WF_dispVars(InDispatcher /\ D!StopCancel)

Spec == Init /\ [][Next]_vars /\ LifeFairness /\ DispatcherFairness

-----------------------------------------------------------------------------
(* Properties *)

\* Reloads are honoured: a request whose client stays is answered, also while Stop drains
\* the server; after a SIGHUP the file is read as it was then, or later, although signals
\* are merged; and "a failed reload leaves the previously active configuration fully
\* intact".
ReloadsHonoured ==
    /\ part = "lifecycle" => ReloadAnswered /\ HangupHonoured
    /\ FailedReloadKeeps

\* App.Stop and Dispatcher.Stop return: no reload, worker, timer or maintenance step
\* blocks them forever, not even maintenance waiting for a destroyed group's goroutine.
StopsEnd ==
    /\ part = "lifecycle" => StopEnds
    /\ part = "dispatcher" => D!StopReturns

\* groupAlert, runAG, flush: an alert that reached a group is notified, unless it
\* ends, is replaced by a later update or the dispatcher is stopped.
EventuallyNotified == part = "dispatcher" => D!EventuallyNotified
=============================================================================

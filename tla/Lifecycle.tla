----------------------------- MODULE Lifecycle -----------------------------
(***************************************************************************)
(* One Alertmanager process (app/app.go, lifecycle.go, reloader.go,          *)
(* config/coordinator.go, httpserver, the signals of cmd/alertmanager): the  *)
(* setup with its stack of teardown steps, reloads that come from SIGHUP,    *)
(* from /-/reload and from App.Reload, and Stop.                             *)
(*                                                                         *)
(* A configuration is the version of the file it was read from.  A reload    *)
(* runs under the coordinator's mutex, so there is one at a time; what other *)
(* goroutines can see of it is a step of its own.                            *)
(***************************************************************************)
EXTENDS Integers, Sequences, FiniteSets

CONSTANTS
    Request,        \* requests to /-/reload
    LifeScenes      \* the environments considered, see LifeScene

\* A request is told apart from the others that ask for a reload.
OwnNames == Request \cap {"setup", "hup", "app"} = {}

\* The step of the setup that fails, or none; the versions of the file that cannot be
\* loaded, built, traced or whose event outputs cannot be created; and bounds.
LifeScene ==
    [fails : Nat, badLoad : SUBSET Nat, badBuild : SUBSET Nat, badTrace : SUBSET Nat,
     badOutput : SUBSET Nat,
     maxFile : Nat, maxApps : Nat]

VARIABLES
    lscene,
    setup,      \* the next step of the setup; the last one plus one when New is done
    held,       \* what runs or is open, by name
    cleanups,   \* App.cleanups
    started, stopped,
    mtx,        \* App.mtx: who holds it
    stopper,    \* Stop: where it is, and whether it gave up a wait
    router,     \* reloadRouter: "off", "idle", "busy" or "done"
    quit,       \* routerQuit is closed
    serve,      \* the goroutine that serves: "off", "on" or "closed"
    rl,         \* the reload that runs: where it is, who asked, its version, its number
    config,     \* Coordinator.config and its metrics
    live,       \* what is installed: inhibitor, dispatcher, API, tracing, event outputs
    file, read, \* the version of the file, and the last one a reload has read
    req,        \* req[r]: the handler of /-/reload
    hup, reloadc, asked  \* the two channels of main, and what the last SIGHUP asked for

lifeVars == <<lscene, setup, held, cleanups, started, stopped, mtx, stopper, router, quit,
              serve, rl, config, live, file, read, req, hup, reloadc, asked>>

-----------------------------------------------------------------------------
(* Setup *)

\* What each step of setup starts, and the teardown step it registers.
SetupPeer == [name |-> "peer", starts |-> {"peer"}, onStop |-> "peer", frees |-> {"peer"}]
SetupLoad == [name |-> "load", starts |-> {}, onStop |-> "none", frees |-> {}]
SetupRecorder == [name |-> "recorder", starts |-> {"recorder"}, onStop |-> "recorder", frees |-> {"recorder"}]
SetupEvent == [name |-> "event", starts |-> {}, onStop |-> "event", frees |-> {}]
SetupNflog == [name |-> "nflog", starts |-> {"nflog"}, onStop |-> "maintenance", frees |-> {"nflog", "silences"}]
SetupSilences == [name |-> "silences", starts |-> {"silences"}, onStop |-> "none", frees |-> {}]
SetupAlerts == [name |-> "alerts", starts |-> {"alerts"}, onStop |-> "alerts", frees |-> {"alerts"}]
SetupApi == [name |-> "api", starts |-> {}, onStop |-> "none", frees |-> {}]
SetupListeners == [name |-> "listeners", starts |-> {"listeners"}, onStop |-> "listeners", frees |-> {"listeners"}]
SetupUrl == [name |-> "url", starts |-> {}, onStop |-> "none", frees |-> {}]
SetupTracing == [name |-> "tracing", starts |-> {"tracing"}, onStop |-> "tracing", frees |-> {"tracing"}]
SetupReloader == [name |-> "reloader", starts |-> {}, onStop |-> "reloader", frees |-> {}]
SetupApply == [name |-> "apply", starts |-> {}, onStop |-> "none", frees |-> {}]
SetupServer == [name |-> "server", starts |-> {}, onStop |-> "none", frees |-> {}]
SetupSteps ==
    <<SetupPeer, SetupLoad, SetupRecorder, SetupEvent, SetupNflog, SetupSilences, SetupAlerts,
      SetupApi, SetupListeners, SetupUrl, SetupTracing, SetupReloader, SetupApply, SetupServer>>

Done == Len(SetupSteps) + 1
StepOf(cleanup) == CHOOSE i \in DOMAIN SetupSteps : SetupSteps[i].onStop = cleanup

\* What a part that runs needs of others: to send events, to read alerts, to listen.
Needs(x) ==
    CASE x[1] = "dispatcher" -> {"alerts", "recorder"}
      [] x[1] = "inhibitor" -> {"alerts", "recorder"}
      [] x[1] \in {"alerts", "silences", "event"} -> {"recorder"}
      [] OTHER -> {}

NoReload == [pc |-> "none", by |-> "nobody", v |-> 0, n |-> 0, apps |-> 0]
Nothing == <<"nothing", 0>>

LifeInit ==
    /\ lscene \in LifeScenes
    /\ setup = 1 /\ held = {} /\ cleanups = << >>
    /\ started = FALSE /\ stopped = FALSE /\ mtx = "free" /\ stopper = [pc |-> "none", late |-> FALSE]
    /\ router = "off" /\ quit = FALSE /\ serve = "off"
    /\ rl = NoReload
    /\ config = [cur |-> 0, ok |-> FALSE, hash |-> 0]
    /\ live = [inhibitor |-> Nothing, dispatcher |-> Nothing, api |-> 0, tracing |-> 0, outputs |-> 0]
    /\ file = 1 /\ read = 0
    /\ req = [r \in Request |-> "none"]
    /\ hup = FALSE /\ reloadc = FALSE /\ asked = 0

\* Mutant: the maintenance is registered when all of it runs.
RegisteredLate(s) ==
    CASE s.name = "nflog" -> cleanups
      [] s.name = "silences" -> Append(cleanups, "maintenance")
      [] s.onStop = "none" -> cleanups
      [] OTHER -> Append(cleanups, s.onStop)

\* onStop: the teardown step is registered as soon as what it stops runs.
Registered(s) == IF s.onStop = "none" THEN cleanups ELSE Append(cleanups, s.onStop)

\* One step of setup; "apply" is the first reload, whose end is EndReload.
SetupStep ==
    /\ setup < Done /\ setup # lscene.fails /\ stopper.pc = "none" /\ rl.pc = "none"
    /\ LET s == SetupSteps[setup] IN
       /\ held' = held \cup {<<x, 0>> : x \in s.starts}
       /\ cleanups' = Registered(s)
       /\ config' = IF s.name = "load" THEN [config EXCEPT !.cur = file] ELSE config
       /\ read' = IF s.name = "load" THEN file ELSE read
       /\ live' = IF s.name = "recorder" THEN [live EXCEPT !.outputs = config.cur] ELSE live
       /\ IF s.name = "apply"
          THEN rl' = [NoReload EXCEPT !.pc = "build", !.by = "setup", !.v = config.cur, !.n = 1] /\ setup' = setup
          ELSE rl' = rl /\ setup' = setup + 1
    /\ UNCHANGED <<lscene, started, stopped, mtx, stopper, router, quit, serve, file, req, hup, reloadc, asked>>

\* A step fails, or the file cannot be loaded: New rolls back with Stop.
SetupFails ==
    /\ setup < Done /\ stopper.pc = "none" /\ rl.pc = "none"
    /\ setup = lscene.fails
    /\ stopped' = TRUE /\ mtx' = "stop" /\ stopper' = [stopper EXCEPT !.pc = "cleanup"]
    /\ UNCHANGED <<lscene, setup, held, cleanups, started, router, quit, serve, rl, config, live,
                   file, read, req, hup, reloadc, asked>>

\* Start: the router and the server run.
Start ==
    /\ setup = Done /\ mtx = "free" /\ ~started /\ ~stopped
    /\ started' = TRUE /\ router' = "idle" /\ serve' = "on"
    /\ UNCHANGED <<lscene, setup, held, cleanups, stopped, mtx, stopper, quit, rl, config, live,
                   file, read, req, hup, reloadc, asked>>

-----------------------------------------------------------------------------
(* Reloads *)

\* The file changes; versions are counted up.
EditFile ==
    /\ file < lscene.maxFile /\ file' = file + 1
    /\ UNCHANGED <<lscene, setup, held, cleanups, started, stopped, mtx, stopper, router, quit,
                   serve, rl, config, live, read, req, hup, reloadc, asked>>

\* SIGHUP; a signal that is already pending is not counted again.
Hangup ==
    /\ setup = Done /\ ~stopped /\ asked < file /\ hup' = TRUE /\ asked' = file
    /\ UNCHANGED <<lscene, setup, held, cleanups, started, stopped, mtx, stopper, router, quit,
                   serve, rl, config, live, file, read, req, reloadc>>

\* Mutant: a signal is dropped while a reload runs.
ForwardWhenFree ==
    /\ hup /\ ~stopped /\ hup' = FALSE /\ reloadc' = (reloadc \/ rl.pc = "none")
    /\ UNCHANGED <<lscene, setup, held, cleanups, started, stopped, mtx, stopper, router, quit,
                   serve, rl, config, live, file, read, req, asked>>

\* main forwards it, unless a reload is pending already.
Forward ==
    /\ hup /\ ~stopped /\ hup' = FALSE /\ reloadc' = TRUE
    /\ UNCHANGED <<lscene, setup, held, cleanups, started, stopped, mtx, stopper, router, quit,
                   serve, rl, config, live, file, read, req, asked>>

\* The handler of /-/reload waits to hand over its channel; its client may go away.
Ask(r) ==
    /\ serve = "on" /\ stopper.pc = "none" /\ req[r] = "none" /\ req' = [req EXCEPT ![r] = "send"]
    /\ UNCHANGED <<lscene, setup, held, cleanups, started, stopped, mtx, stopper, router, quit,
                   serve, rl, config, live, file, read, hup, reloadc, asked>>

GoAway(r) ==
    /\ req[r] \in {"send", "wait"} /\ req' = [req EXCEPT ![r] = "gone"]
    /\ UNCHANGED <<lscene, setup, held, cleanups, started, stopped, mtx, stopper, router, quit,
                   serve, rl, config, live, file, read, hup, reloadc, asked>>

Begin(by) ==
    rl' = [pc |-> "load", by |-> by, v |-> 0, n |-> rl.n + 1,
           apps |-> IF by = "app" THEN rl.apps + 1 ELSE rl.apps]

\* reloadRouter: it takes a request or a trigger, and quits when it is told to.
RouterTakes(r) ==
    /\ router = "idle" /\ rl.pc = "none"
    /\ req[r] = "send" /\ req' = [req EXCEPT ![r] = "wait"]
    /\ router' = "busy" /\ Begin(r)
    /\ UNCHANGED <<lscene, setup, held, cleanups, started, stopped, mtx, stopper, quit, serve,
                   config, live, file, read, hup, reloadc, asked>>

RouterTriggered ==
    /\ router = "idle" /\ rl.pc = "none"
    /\ reloadc /\ reloadc' = FALSE
    /\ router' = "busy" /\ Begin("hup")
    /\ UNCHANGED <<lscene, setup, held, cleanups, started, stopped, mtx, stopper, quit, serve,
                   config, live, file, read, req, hup, asked>>

RouterQuits ==
    /\ router = "idle" /\ quit /\ router' = "done"
    /\ UNCHANGED <<lscene, setup, held, cleanups, started, stopped, mtx, stopper, quit, serve,
                   rl, config, live, file, read, req, hup, reloadc, asked>>

\* App.Reload holds App.mtx for the whole reload.
AppReload ==
    /\ setup = Done /\ mtx = "free" /\ ~stopped /\ rl.pc = "none" /\ rl.apps < lscene.maxApps
    /\ mtx' = "reload" /\ Begin("app")
    /\ UNCHANGED <<lscene, setup, held, cleanups, started, stopped, stopper, router, quit, serve,
                   config, live, file, read, req, hup, reloadc, asked>>

\* The end of a reload: the metric, the answer, and who goes on.
EndReload(ok, cur, hash) ==
    /\ config' = [cur |-> cur, ok |-> ok, hash |-> hash]
    /\ rl' = [NoReload EXCEPT !.n = rl.n, !.apps = rl.apps]
    /\ req' = [r \in Request |-> IF r = rl.by /\ req[r] = "wait" THEN "answered" ELSE req[r]]
    /\ router' = IF rl.by \in Request \cup {"hup"} THEN "idle" ELSE router
    /\ IF rl.by = "setup" /\ ~ok
       THEN mtx' = "stop" /\ stopped' = TRUE /\ stopper' = [stopper EXCEPT !.pc = "cleanup"] /\ setup' = setup
       ELSE /\ mtx' = (IF rl.by = "app" THEN "free" ELSE mtx) /\ stopped' = stopped /\ stopper' = stopper
            /\ setup' = IF rl.by = "setup" THEN setup + 1 ELSE setup

\* Coordinator.loadFromFile
LoadFile ==
    /\ rl.pc = "load" /\ read' = file
    /\ IF file \in lscene.badLoad
       THEN EndReload(FALSE, config.cur, config.hash)
       ELSE /\ rl' = [rl EXCEPT !.pc = "build", !.v = file]
            /\ config' = [config EXCEPT !.cur = file]
            /\ UNCHANGED <<req, router, mtx, stopped, stopper, setup>>
    /\ UNCHANGED <<lscene, held, cleanups, started, quit, serve, live, file, hup, reloadc, asked>>

\* reload: templates, routes and receivers are built, and tracing is switched over.
\* (tracing.Manager.ApplyConfig builds the new provider first.)
Build ==
    /\ rl.pc = "build"
    /\ IF rl.v \in lscene.badBuild \cup lscene.badTrace
       THEN EndReload(FALSE, config.cur, config.hash) /\ live' = live
       ELSE /\ rl' = [rl EXCEPT !.pc = "outputs"] /\ live' = [live EXCEPT !.tracing = rl.v]
            /\ UNCHANGED <<config, req, router, mtx, stopped, stopper, setup>>
    /\ UNCHANGED <<lscene, held, cleanups, started, quit, serve, file, read, hup, reloadc, asked>>

\* The event recorder switches its outputs, unless one cannot be created or it is closed.
ApplyOutputs ==
    /\ rl.pc = "outputs" /\ rl' = [rl EXCEPT !.pc = "stop"]
    /\ live' = IF rl.v \in lscene.badOutput \/ <<"recorder", 0>> \notin held THEN live
               ELSE [live EXCEPT !.outputs = rl.v]
    /\ UNCHANGED <<lscene, setup, held, cleanups, started, stopped, mtx, stopper, router, quit,
                   serve, config, file, read, req, hup, reloadc, asked>>

\* Mutant: the dispatcher that runs is forgotten, not stopped.
StopOldInhibitor ==
    /\ rl.pc = "stop" /\ rl' = [rl EXCEPT !.pc = "start"]
    /\ held' = held \ {live.inhibitor}
    /\ live' = [live EXCEPT !.api = rl.v]
    /\ UNCHANGED <<lscene, setup, cleanups, started, stopped, mtx, stopper, router, quit,
                   serve, config, file, read, req, hup, reloadc, asked>>

\* The old inhibitor and dispatcher stop, and the API gets the new configuration.
StopOld ==
    /\ rl.pc = "stop" /\ rl' = [rl EXCEPT !.pc = "start"]
    /\ held' = held \ {live.inhibitor, live.dispatcher}
    /\ live' = [live EXCEPT !.api = rl.v]
    /\ UNCHANGED <<lscene, setup, cleanups, started, stopped, mtx, stopper, router, quit,
                   serve, config, file, read, req, hup, reloadc, asked>>

\* The new inhibitor runs and is published once it is loaded, then the dispatcher.
StartInhibitor ==
    /\ rl.pc = "start" /\ rl' = [rl EXCEPT !.pc = "loading"]
    /\ held' = held \cup {<<"inhibitor", rl.n>>}
    /\ UNCHANGED <<lscene, setup, cleanups, started, stopped, mtx, stopper, router, quit,
                   serve, config, live, file, read, req, hup, reloadc, asked>>

StartDispatcher ==
    /\ rl.pc = "loading" /\ rl' = [rl EXCEPT !.pc = "publish"]
    /\ live' = [live EXCEPT !.inhibitor = <<"inhibitor", rl.n>>]
    /\ held' = held \cup {<<"dispatcher", rl.n>>}
    /\ UNCHANGED <<lscene, setup, cleanups, started, stopped, mtx, stopper, router, quit,
                   serve, config, file, read, req, hup, reloadc, asked>>

Publish ==
    /\ rl.pc = "publish" /\ live' = [live EXCEPT !.dispatcher = <<"dispatcher", rl.n>>]
    /\ EndReload(TRUE, config.cur, config.cur)
    /\ UNCHANGED <<lscene, held, cleanups, started, quit, serve, file, read, hup, reloadc, asked>>

-----------------------------------------------------------------------------
(* Stop *)

\* Stop is called: by Run at its end, or by who embeds the App.
Stop ==
    /\ setup = Done /\ mtx = "free" /\ ~stopped
    /\ stopped' = TRUE /\ mtx' = "stop" /\ stopper' = [stopper EXCEPT !.pc = "shutdown"]
    /\ UNCHANGED <<lscene, setup, held, cleanups, started, router, quit, serve, rl, config, live,
                   file, read, req, hup, reloadc, asked>>

\* Server.Shutdown waits for the handlers.
StopServer ==
    /\ stopper.pc = "shutdown"
    /\ \A r \in Request : req[r] \notin {"send", "wait"}
    /\ stopper' = [stopper EXCEPT !.pc = IF started THEN "router" ELSE "cleanup"]
    /\ serve' = IF serve = "on" THEN "closed" ELSE serve
    /\ quit' = started
    /\ UNCHANGED <<lscene, setup, held, cleanups, started, stopped, mtx, router, rl, config, live,
                   file, read, req, hup, reloadc, asked>>

\* The router has ended, and the serving goroutine with it.
StopRouter ==
    /\ stopper.pc = "router" /\ router = "done" /\ serve = "closed"
    /\ stopper' = [stopper EXCEPT !.pc = "cleanup"]
    /\ UNCHANGED <<lscene, setup, held, cleanups, started, stopped, mtx, router, quit, serve, rl,
                   config, live, file, read, req, hup, reloadc, asked>>

\* shutdownTimeout: Stop goes on without waiting any longer.
StopTimeout ==
    /\ stopper.pc \in {"shutdown", "router"}
    /\ stopper' = [pc |-> "cleanup", late |-> TRUE] /\ quit' = started
    /\ serve' = IF serve = "on" THEN "closed" ELSE serve
    /\ UNCHANGED <<lscene, setup, held, cleanups, started, stopped, mtx, router, rl, config, live,
                   file, read, req, hup, reloadc, asked>>

\* What a teardown step frees; the reloader's stops what is published.
Frees(c) ==
    IF c = "reloader" THEN {live.inhibitor, live.dispatcher}
    ELSE {<<x, 0>> : x \in SetupSteps[StepOf(c)].frees}

\* The teardown steps run, the last that was registered first.
Cleanup ==
    /\ stopper.pc = "cleanup" /\ cleanups # << >>
    /\ held' = held \ Frees(cleanups[Len(cleanups)])
    /\ cleanups' = SubSeq(cleanups, 1, Len(cleanups) - 1)
    /\ UNCHANGED <<lscene, setup, started, stopped, mtx, stopper, router, quit, serve, rl,
                   config, live, file, read, req, hup, reloadc, asked>>

StopReturns ==
    /\ stopper.pc = "cleanup" /\ cleanups = << >>
    /\ stopper' = [stopper EXCEPT !.pc = "returned"] /\ mtx' = "free"
    /\ UNCHANGED <<lscene, setup, held, cleanups, started, stopped, router, quit, serve, rl,
                   config, live, file, read, req, hup, reloadc, asked>>

LifeNext ==
    \/ SetupStep \/ SetupFails \/ Start
    \/ EditFile \/ Hangup \/ Forward \/ (\E r \in Request : Ask(r) \/ GoAway(r) \/ RouterTakes(r))
    \/ RouterTriggered \/ RouterQuits \/ AppReload
    \/ LoadFile \/ Build \/ ApplyOutputs \/ StopOld \/ StartInhibitor \/ StartDispatcher \/ Publish
    \/ Stop \/ StopServer \/ StopRouter \/ StopTimeout \/ Cleanup \/ StopReturns

LifeSpec == LifeInit /\ [][LifeNext]_lifeVars

-----------------------------------------------------------------------------
(* Properties *)

Running(kind) == {x \in held : x[1] = kind}

\* The state has its types, and App.mtx is held by whoever reloads or stops.
LifeTypeOK ==
    /\ setup \in 1 .. Done /\ mtx \in {"free", "reload", "stop"}
    /\ mtx = "stop" <=> stopper.pc \in {"shutdown", "router", "cleanup"}
    /\ mtx = "reload" <=> rl.pc # "none" /\ rl.by = "app"
    /\ router \in {"off", "idle", "busy", "done"} /\ serve \in {"off", "on", "closed"}
    /\ stopper.pc \in {"none", "shutdown", "router", "cleanup", "returned"}
    /\ rl.pc \in {"none", "load", "build", "outputs", "stop", "start", "loading", "publish"}
    /\ \A r \in Request : req[r] \in {"none", "send", "wait", "answered", "gone"}

\* reload, Reload, Stop: there is never more than one dispatcher and one inhibitor, and
\* between reloads those that run are those that are published.
OneDispatcher ==
    /\ Cardinality(Running("dispatcher")) <= 1 /\ Cardinality(Running("inhibitor")) <= 1
    /\ rl.pc = "none" /\ ~stopped =>
          Running("dispatcher") \cup Running("inhibitor") \subseteq {live.dispatcher, live.inhibitor}

\* Stop, onStop: when Stop has returned, after a failed setup too, nothing is left
\* running or open, unless it gave up waiting for a reload.
NothingLeft == stopper.pc = "returned" /\ ~stopper.late => held = {}

\* The stack of teardown steps: nothing that runs needs a part that is closed already,
\* unless Stop gave up waiting for a reload.
NeedsAreOpen ==
    ~stopper.late =>
        /\ \A x \in held : \A n \in Needs(x) : <<n, 0>> \in held
        /\ (\E i \in DOMAIN cleanups : cleanups[i] = "event") => <<"recorder", 0>> \in held

\* Stop, onStop: the teardown is complete and in order.  When Stop has returned, after a
\* failed setup too, nothing is left running or open, and before that nothing that runs
\* needs a part that is closed already; unless Stop gave up waiting for a reload.
StopIsOrderly == NothingLeft /\ NeedsAreOpen

\* reload: "a failed reload leaves the previously active configuration fully intact".
\* A reload that ends in failure changes nothing that is installed.
FailedReloadKeeps ==
    [][rl.pc # "none" /\ rl'.pc = "none" /\ ~config'.ok => live' = live]_lifeVars

\* The router: a request to reload whose client stays is answered, also while Stop drains
\* the server, unless Stop gives up the wait.
ReloadAnswered == \A r \in Request : req[r] = "send" ~> (req[r] \notin {"send", "wait"} \/ stopper.late)

\* main, reloadRouter: after a SIGHUP the file is read as it was then, or later, although
\* signals are merged; unless the process stops.
HangupHonoured == \A v \in 1 .. 3 : asked = v ~> (read >= v \/ stopped)

\* Stop: it returns.
StopEnds == stopper.pc # "none" ~> stopper.pc = "returned"
=============================================================================

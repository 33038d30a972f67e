-------------------------- MODULE Lifecycle_proofs --------------------------
(***************************************************************************)
(* Theorems about Lifecycle, for any versions of the file, any step of the   *)
(* setup that fails and any number of reloads: one dispatcher at a time, an   *)
(* orderly Stop, and failed reloads that change nothing.                     *)
(***************************************************************************)
EXTENDS Lifecycle, FiniteSetTheorems, SequenceTheorems, TLAPS

\* The teardown steps in the order in which the setup registers them, and how many are
\* registered before each step of the setup.
Teardown == {"peer", "recorder", "event", "maintenance", "alerts", "listeners", "tracing", "reloader"}
Order == <<"peer", "recorder", "event", "maintenance", "alerts", "listeners", "tracing", "reloader">>
Depth == <<0, 1, 1, 2, 3, 4, 4, 5, 5, 6, 6, 7, 8, 8, 8>>

\* The stack holds the first teardown steps, all that are registered unless Stop unwinds it.
Stacked ==
    /\ setup \in 1 .. 15 /\ cleanups \in Seq(Teardown) /\ Len(cleanups) <= 8
    /\ \A i \in 1 .. Len(cleanups) : cleanups[i] = Order[i]
    /\ stopper.pc \in {"none", "shutdown", "router"} => Len(cleanups) = Depth[setup]
    /\ stopper.pc = "returned" => Len(cleanups) = 0

\* Who reloads, and what stops.
Phases ==
    /\ DOMAIN stopper = {"pc", "late"} /\ DOMAIN rl = {"pc", "by", "v", "n", "apps"}
    /\ stopper.pc \in {"none", "shutdown", "router", "cleanup", "returned"}
    /\ (stopped <=> stopper.pc # "none")
    /\ started => setup = 15
    /\ (router = "off" <=> ~started)
    /\ mtx = "stop" <=> stopper.pc \in {"shutdown", "router", "cleanup"}
    /\ mtx = "reload" <=> rl.pc # "none" /\ rl.by = "app"
    /\ stopper.pc \in {"shutdown", "router"} => setup = 15
    /\ rl.pc # "none" =>
         \/ rl.by \in Request \cup {"hup"} /\ router = "busy"
         \/ rl.by = "app" /\ setup = 15
         \/ rl.by = "setup" /\ setup = 13 /\ stopper.pc = "none"
    /\ stopper.pc \in {"cleanup", "returned"} /\ ~stopper.late => rl.pc = "none" /\ router \in {"off", "done"}

\* The parts the setup has started run until their teardown step.
Base ==
    /\ \A x \in held : \/ x \in {<<"peer", 0>>, <<"recorder", 0>>, <<"nflog", 0>>, <<"silences", 0>>, <<"alerts", 0>>,
                                 <<"listeners", 0>>, <<"tracing", 0>>}
                       \/ x[1] \in {"dispatcher", "inhibitor"}
    /\ <<"peer", 0>> \in held => Len(cleanups) >= 1
    /\ <<"recorder", 0>> \in held <=> Len(cleanups) >= 2
    /\ <<"nflog", 0>> \in held => Len(cleanups) >= 4
    /\ <<"silences", 0>> \in held => Len(cleanups) >= 4
    /\ <<"alerts", 0>> \in held <=> Len(cleanups) >= 5
    /\ <<"listeners", 0>> \in held => Len(cleanups) >= 6
    /\ <<"tracing", 0>> \in held => Len(cleanups) >= 7

\* The dispatcher and the inhibitor that run, at each step of a reload.
Swapped ==
    /\ DOMAIN live = {"inhibitor", "dispatcher", "api", "tracing", "outputs"}
    /\ live.dispatcher[1] \in {"nothing", "dispatcher"} /\ live.inhibitor[1] \in {"nothing", "inhibitor"}
    /\ rl.pc \in {"start", "loading"} => Running("dispatcher") = {}
    /\ rl.pc = "start" => Running("inhibitor") = {}
    /\ rl.pc = "publish" => Running("dispatcher") \subseteq {<<"dispatcher", rl.n>>}
    /\ rl.pc \in {"loading", "publish"} => Running("inhibitor") \subseteq {<<"inhibitor", rl.n>>}
    /\ rl.pc \notin {"start", "loading", "publish"} => Running("dispatcher") \subseteq {live.dispatcher}
    /\ rl.pc \notin {"start", "loading", "publish"} => Running("inhibitor") \subseteq {live.inhibitor}
    /\ rl.pc = "publish" => live.inhibitor = <<"inhibitor", rl.n>>
    /\ ~stopper.late /\ Running("dispatcher") \cup Running("inhibitor") # {} => Len(cleanups) = 8

\* The inductive invariant.
LifeInv == Stacked /\ Phases /\ Base /\ Swapped

-----------------------------------------------------------------------------

\* The setup has fourteen steps.
LEMMA StepCount == Done = 15 /\ DOMAIN SetupSteps = 1 .. 14
BY DEF Done, SetupSteps

\* The steps, by number.
LEMMA StepTable ==
    /\ SetupSteps[1] = SetupPeer /\ SetupSteps[2] = SetupLoad /\ SetupSteps[3] = SetupRecorder
    /\ SetupSteps[4] = SetupEvent /\ SetupSteps[5] = SetupNflog /\ SetupSteps[6] = SetupSilences
    /\ SetupSteps[7] = SetupAlerts /\ SetupSteps[8] = SetupApi /\ SetupSteps[9] = SetupListeners
    /\ SetupSteps[10] = SetupUrl /\ SetupSteps[11] = SetupTracing /\ SetupSteps[12] = SetupReloader
    /\ SetupSteps[13] = SetupApply /\ SetupSteps[14] = SetupServer
BY Zenon DEF SetupSteps

\* What a step of the setup starts and registers.
Is(i, name, starts, onStop) == SetupSteps[i].name = name /\ SetupSteps[i].starts = starts /\ SetupSteps[i].onStop = onStop

\* What each step starts and registers.
LEMMA Steps ==
    /\ Is(1, "peer", {"peer"}, "peer") /\ Is(2, "load", {}, "none")
    /\ Is(3, "recorder", {"recorder"}, "recorder") /\ Is(4, "event", {}, "event")
    /\ Is(5, "nflog", {"nflog"}, "maintenance") /\ Is(6, "silences", {"silences"}, "none")
    /\ Is(7, "alerts", {"alerts"}, "alerts") /\ Is(8, "api", {}, "none")
    /\ Is(9, "listeners", {"listeners"}, "listeners") /\ Is(10, "url", {}, "none")
    /\ Is(11, "tracing", {"tracing"}, "tracing") /\ Is(12, "reloader", {}, "reloader")
    /\ Is(13, "apply", {}, "none") /\ Is(14, "server", {}, "none")
<1>1. Is(1, "peer", {"peer"}, "peer")
  BY StepTable DEF Is, SetupPeer
<1>2. Is(2, "load", {}, "none")
  BY StepTable DEF Is, SetupLoad
<1>3. Is(3, "recorder", {"recorder"}, "recorder")
  BY StepTable DEF Is, SetupRecorder
<1>4. Is(4, "event", {}, "event")
  BY StepTable DEF Is, SetupEvent
<1>5. Is(5, "nflog", {"nflog"}, "maintenance")
  BY StepTable DEF Is, SetupNflog
<1>6. Is(6, "silences", {"silences"}, "none")
  BY StepTable DEF Is, SetupSilences
<1>7. Is(7, "alerts", {"alerts"}, "alerts")
  BY StepTable DEF Is, SetupAlerts
<1>8. Is(8, "api", {}, "none")
  BY StepTable DEF Is, SetupApi
<1>9. Is(9, "listeners", {"listeners"}, "listeners")
  BY StepTable DEF Is, SetupListeners
<1>10. Is(10, "url", {}, "none")
  BY StepTable DEF Is, SetupUrl
<1>11. Is(11, "tracing", {"tracing"}, "tracing")
  BY StepTable DEF Is, SetupTracing
<1>12. Is(12, "reloader", {}, "reloader")
  BY StepTable DEF Is, SetupReloader
<1>13. Is(13, "apply", {}, "none")
  BY StepTable DEF Is, SetupApply
<1>14. Is(14, "server", {}, "none")
  BY StepTable DEF Is, SetupServer
<1> QED BY Zenon, <1>1, <1>2, <1>3, <1>4, <1>5, <1>6, <1>7, <1>8, <1>9, <1>10, <1>11, <1>12, <1>13, <1>14

\* What the teardown step of each step frees.
LEMMA FreesTable ==
    /\ SetupSteps[1].frees = {"peer"} /\ SetupSteps[3].frees = {"recorder"} /\ SetupSteps[4].frees = {}
    /\ SetupSteps[5].frees = {"nflog", "silences"} /\ SetupSteps[7].frees = {"alerts"}
    /\ SetupSteps[9].frees = {"listeners"} /\ SetupSteps[11].frees = {"tracing"}
BY StepTable DEF SetupPeer, SetupRecorder, SetupEvent, SetupNflog, SetupAlerts, SetupListeners, SetupTracing

\* The stack, by depth.
LEMMA OrderTable ==
    /\ Order[1] = "peer" /\ Order[2] = "recorder" /\ Order[3] = "event" /\ Order[4] = "maintenance"
    /\ Order[5] = "alerts" /\ Order[6] = "listeners" /\ Order[7] = "tracing" /\ Order[8] = "reloader"
BY Zenon DEF Order

\* The number of teardown steps before each step of the setup.
LEMMA DepthTable ==
    /\ Depth[1] = 0 /\ Depth[2] = 1 /\ Depth[3] = 1 /\ Depth[4] = 2 /\ Depth[5] = 3 /\ Depth[6] = 4
    /\ Depth[7] = 4 /\ Depth[8] = 5 /\ Depth[9] = 5 /\ Depth[10] = 6 /\ Depth[11] = 6 /\ Depth[12] = 7
    /\ Depth[13] = 8 /\ Depth[14] = 8 /\ Depth[15] = 8
BY Zenon DEF Depth

\* The step that registers a teardown step.
LEMMA StepOfIs ==
    ASSUME NEW c, NEW i \in 1 .. 14, SetupSteps[i].onStop = c, \A j \in 1 .. 14 : SetupSteps[j].onStop = c => j = i
    PROVE  StepOf(c) = i
BY Zenon, StepCount DEF StepOf

\* A number of a step is one of fourteen.
LEMMA Fourteen == ASSUME NEW i \in 1 .. 14 PROVE i \in {1, 2, 3, 4, 5, 6, 7, 8, 9, 10, 11, 12, 13, 14}
OBVIOUS

\* The step that registers each teardown step.
LEMMA StepOfTable ==
    /\ StepOf("peer") = 1 /\ StepOf("recorder") = 3 /\ StepOf("event") = 4 /\ StepOf("maintenance") = 5
    /\ StepOf("alerts") = 7 /\ StepOf("listeners") = 9 /\ StepOf("tracing") = 11
<1> DEFINE Only(c, i) == SetupSteps[i].onStop = c /\ \A j \in 1 .. 14 : SetupSteps[j].onStop = c => j = i
<1>1. Only("peer", 1) BY Zenon, Steps, Fourteen DEF Is
<1>2. Only("recorder", 3) BY Zenon, Steps, Fourteen DEF Is
<1>3. Only("event", 4) BY Zenon, Steps, Fourteen DEF Is
<1>4. Only("maintenance", 5) BY Zenon, Steps, Fourteen DEF Is
<1>5. Only("alerts", 7) BY Zenon, Steps, Fourteen DEF Is
<1>6. Only("listeners", 9) BY Steps, Fourteen DEF Is
<1>7. Only("tracing", 11) BY Zenon, Steps, Fourteen DEF Is
<1>8. \A c, i : i \in 1 .. 14 /\ Only(c, i) => StepOf(c) = i
  BY Zenon, StepOfIs
<1> HIDE DEF Only
<1> QED BY <1>1, <1>2, <1>3, <1>4, <1>5, <1>6, <1>7, <1>8

\* What each teardown step frees.
LEMMA FreesAre ==
    /\ Frees("peer") = {<<"peer", 0>>} /\ Frees("recorder") = {<<"recorder", 0>>} /\ Frees("event") = {}
    /\ Frees("maintenance") = {<<"nflog", 0>>, <<"silences", 0>>} /\ Frees("alerts") = {<<"alerts", 0>>}
    /\ Frees("listeners") = {<<"listeners", 0>>} /\ Frees("tracing") = {<<"tracing", 0>>}
    /\ Frees("reloader") = {live.inhibitor, live.dispatcher}
BY StepOfTable, FreesTable DEF Frees

\* What a step of the setup registers, in the order of the stack.
LEMMA StepDepth ==
    ASSUME NEW i \in 1 .. 14
    PROVE  /\ SetupSteps[i].onStop = "none" => Depth[i + 1] = Depth[i]
           /\ SetupSteps[i].onStop # "none" => /\ Depth[i] \in 0 .. 7 /\ Depth[i + 1] = Depth[i] + 1
                                               /\ Order[Depth[i] + 1] = SetupSteps[i].onStop
           /\ SetupSteps[i].onStop # "none" => SetupSteps[i].onStop \in Teardown
           /\ SetupSteps[i].name = "apply" <=> i = 13
<1> DEFINE P(k) == /\ SetupSteps[k].onStop = "none" => Depth[k + 1] = Depth[k]
                   /\ SetupSteps[k].onStop # "none" => /\ Depth[k] \in 0 .. 7 /\ Depth[k + 1] = Depth[k] + 1
                                                       /\ Order[Depth[k] + 1] = SetupSteps[k].onStop
                   /\ SetupSteps[k].onStop # "none" => SetupSteps[k].onStop \in Teardown
                   /\ SetupSteps[k].name = "apply" <=> k = 13
<1>1. P(1) BY Steps, DepthTable, OrderTable DEF Is, Teardown
<1>2. P(2) BY Steps, DepthTable, OrderTable DEF Is, Teardown
<1>3. P(3) BY Steps, DepthTable, OrderTable DEF Is, Teardown
<1>4. P(4) BY Steps, DepthTable, OrderTable DEF Is, Teardown
<1>5. P(5) BY Steps, DepthTable, OrderTable DEF Is, Teardown
<1>6. P(6) BY Steps, DepthTable, OrderTable DEF Is, Teardown
<1>7. P(7) BY Steps, DepthTable, OrderTable DEF Is, Teardown
<1>8. P(8) BY Steps, DepthTable, OrderTable DEF Is, Teardown
<1>9. P(9) BY Steps, DepthTable, OrderTable DEF Is, Teardown
<1>10. P(10) BY Steps, DepthTable, OrderTable DEF Is, Teardown
<1>11. P(11) BY Steps, DepthTable, OrderTable DEF Is, Teardown
<1>12. P(12) BY Steps, DepthTable, OrderTable DEF Is, Teardown
<1>13. P(13) BY Steps, DepthTable, OrderTable DEF Is, Teardown
<1>14. P(14) BY Steps, DepthTable, OrderTable DEF Is, Teardown
<1> HIDE DEF P
<1>15. P(i)
  BY Zenon, Fourteen, <1>1, <1>2, <1>3, <1>4, <1>5, <1>6, <1>7, <1>8, <1>9, <1>10, <1>11, <1>12, <1>13, <1>14
<1> QED BY Zenon, <1>15 DEF P

-----------------------------------------------------------------------------

\* The stack without its last element.
LEMMA ButLast ==
    ASSUME NEW c \in Seq(Teardown), c # << >>
    PROVE  /\ SubSeq(c, 1, Len(c) - 1) \in Seq(Teardown) /\ Len(SubSeq(c, 1, Len(c) - 1)) = Len(c) - 1
           /\ \A i \in 1 .. (Len(c) - 1) : SubSeq(c, 1, Len(c) - 1)[i] = c[i]
           /\ Len(c) \in Nat \ {0}
<1>1. Len(c) \in Nat \ {0} /\ \A i \in 1 .. Len(c) : c[i] \in Teardown
  OBVIOUS
<1> DEFINE n == Len(c) - 1
<1>2. n \in Nat /\ \A i \in 1 .. n : c[i] \in Teardown
  BY <1>1
<1>3. /\ SubSeq(c, 1, n) \in Seq(Teardown) /\ Len(SubSeq(c, 1, n)) = (IF 1 <= n THEN n - 1 + 1 ELSE 0)
      /\ \A i \in 1 .. (n - 1 + 1) : SubSeq(c, 1, n)[i] = c[1 + i - 1]
  <2> HIDE DEF n
  <2> QED BY <1>2, SubSeqProperties
<1>4. SubSeq(c, 1, n) \in Seq(Teardown) /\ Len(SubSeq(c, 1, n)) = n
  <2>1. Len(SubSeq(c, 1, n)) = n
    <3> HIDE DEF n
    <3> DEFINE l == Len(SubSeq(c, 1, n))
    <3>1. n \in Nat /\ l = (IF 1 <= n THEN n - 1 + 1 ELSE 0)
      BY Zenon, <1>2, <1>3
    <3> HIDE DEF l
    <3>2. l = n
      BY <3>1
    <3> QED BY Zenon, <3>2 DEF l
  <2> QED BY Zenon, <1>3, <2>1
<1>5. \A i \in 1 .. n : SubSeq(c, 1, n)[i] = c[i]
  BY <1>2, <1>3
<1> QED BY Zenon, <1>1, <1>4, <1>5

\* Stacked is preserved.
LEMMA StackedStep ==
    ASSUME OwnNames, Stacked, Phases, LifeNext
    PROVE  Stacked'
<1> DEFINE Same == UNCHANGED <<setup, cleanups, stopper>>
<1>0. CASE Same
  BY Zenon, <1>0 DEF Stacked
<1>1. CASE SetupStep
  <2> DEFINE s == SetupSteps[setup]
  <2>1. setup \in 1 .. 14 /\ stopper.pc = "none" /\ stopper' = stopper
    BY <1>1, StepCount DEF SetupStep, Stacked
  <2>2. /\ cleanups' = IF s.onStop = "none" THEN cleanups ELSE Append(cleanups, s.onStop)
        /\ setup' = IF s.name = "apply" THEN setup ELSE setup + 1
    BY Zenon, <1>1 DEF SetupStep, Registered
  <2>3. Len(cleanups) = Depth[setup]
    BY Zenon, <2>1 DEF Stacked
  <2>4. CASE s.onStop = "none"
    <3>1. cleanups' = cleanups /\ Depth[setup + 1] = Depth[setup]
      BY Zenon, <2>1, <2>2, <2>4, StepDepth
    <3>2. setup' \in {setup, setup + 1}
      BY Zenon, <2>2
    <3> QED BY <2>1, <2>3, <3>1, <3>2 DEF Stacked
  <2>5. CASE s.onStop # "none"
    <3>1. setup # 13
      BY Zenon, <2>5, Steps DEF Is
    <3>2. setup' = setup + 1 /\ cleanups' = Append(cleanups, s.onStop)
      BY Zenon, <2>1, <2>2, <2>5, <3>1, StepDepth
    <3>3. /\ Depth[setup] \in 0 .. 7 /\ Depth[setup + 1] = Depth[setup] + 1
          /\ Order[Depth[setup] + 1] = s.onStop /\ s.onStop \in Teardown
      BY Zenon, <2>1, <2>5, StepDepth
    <3> HIDE DEF s
    <3>4. /\ cleanups' \in Seq(Teardown) /\ Len(cleanups') = Len(cleanups) + 1
          /\ \A i \in 1 .. Len(cleanups) : cleanups'[i] = cleanups[i]
          /\ cleanups'[Len(cleanups) + 1] = s.onStop
      BY <3>2, <3>3 DEF Stacked
    <3>5. \A i \in 1 .. Len(cleanups') : cleanups'[i] = Order[i]
      BY <2>3, <3>3, <3>4 DEF Stacked
    <3> QED BY <2>1, <2>3, <3>2, <3>3, <3>4, <3>5 DEF Stacked
  <2> QED BY Zenon, <2>4, <2>5
<1>2. ASSUME cleanups' = cleanups, setup' = setup, stopper'.pc = "cleanup" PROVE Stacked'
  BY Zenon, <1>2 DEF Stacked
<1>3. ASSUME NEW ok, NEW cur, NEW hash, EndReload(ok, cur, hash), cleanups' = cleanups, rl.pc # "none" PROVE Stacked'
  <2>1. CASE rl.by = "setup" /\ ~ok
    BY Zenon, <1>2, <1>3, <2>1 DEF EndReload, Phases
  <2>2. CASE rl.by = "setup" /\ ok
    <3>1. setup = 13 /\ setup' = 14 /\ stopper' = stopper
      BY <1>3, <2>2 DEF EndReload, Phases, OwnNames
    <3> QED BY <1>3, <3>1, DepthTable DEF Stacked
  <2>3. CASE rl.by # "setup"
    <3>1. Same
      BY Zenon, <1>3, <2>3 DEF EndReload
    <3> QED BY Zenon, <1>0, <3>1
  <2> QED BY Zenon, <2>1, <2>2, <2>3
<1>4. CASE LoadFile \/ Build \/ Publish
  BY Zenon, <1>0, <1>3, <1>4 DEF LoadFile, Build, Publish
<1>5. CASE SetupFails \/ StopRouter \/ StopTimeout
  BY <1>2, <1>5 DEF SetupFails, StopRouter, StopTimeout, Phases
<1>8. CASE StopReturns
  <2>1. cleanups = << >> /\ cleanups' = cleanups /\ setup' = setup /\ stopper'.pc = "returned"
    BY Zenon, <1>8 DEF StopReturns, Phases
  <2> QED BY Zenon, <2>1 DEF Stacked
<1>6. CASE Stop \/ StopServer
  BY Zenon, <1>6, StepCount DEF Stop, StopServer, Stacked, Phases
<1>7. CASE Cleanup
  <2>1. cleanups' = SubSeq(cleanups, 1, Len(cleanups) - 1) /\ cleanups # << >> /\ stopper.pc = "cleanup"
        /\ stopper' = stopper /\ setup' = setup
    BY Zenon, <1>7 DEF Cleanup
  <2>2. cleanups \in Seq(Teardown) /\ Len(cleanups) \in Nat /\ Len(cleanups) # 0
    BY Zenon, <2>1, ButLast DEF Stacked
  <2>3. /\ cleanups' \in Seq(Teardown) /\ Len(cleanups') = Len(cleanups) - 1
        /\ \A i \in 1 .. Len(cleanups') : cleanups'[i] = cleanups[i]
    BY Zenon, <2>1, <2>2, ButLast
  <2> QED BY <2>1, <2>2, <2>3 DEF Stacked
<1> QED BY Zenon, <1>0, <1>1, <1>4, <1>5, <1>6, <1>7, <1>8
       DEF LifeNext, Start, EditFile, Hangup, Forward, Ask, GoAway, RouterTakes, RouterTriggered, RouterQuits,
           AppReload, ApplyOutputs, StopOld, StartInhibitor, StartDispatcher
\* A reload ends.
LEMMA EndPhases ==
    ASSUME OwnNames, Phases, NEW ok, NEW cur, NEW hash, EndReload(ok, cur, hash), started' = started, rl.pc # "none"
    PROVE  Phases'
<1>1. rl' = [NoReload EXCEPT !.n = rl.n, !.apps = rl.apps]
  BY Zenon DEF EndReload
<1>2. rl'.pc = "none" /\ DOMAIN rl' = {"pc", "by", "v", "n", "apps"}
  BY Zenon, <1>1 DEF NoReload
<1>3. CASE rl.by = "setup"
  <2>1. setup = 13 /\ stopper.pc = "none" /\ ~started /\ router = "off" /\ router' = router /\ mtx # "reload"
    BY <1>3 DEF EndReload, Phases, OwnNames
  <2>2. CASE ~ok
    BY Zenon, <1>2, <1>3, <2>1, <2>2 DEF EndReload, Phases
  <2>3. CASE ok
    BY Zenon, <1>2, <1>3, <2>1, <2>3 DEF EndReload, Phases
  <2> QED BY Zenon, <2>2, <2>3
<1>4. CASE rl.by # "setup"
  <2>1. stopped' = stopped /\ stopper' = stopper /\ setup' = setup /\ mtx' = IF rl.by = "app" THEN "free" ELSE mtx
    BY Zenon, <1>4 DEF EndReload
  <2>2. CASE rl.by = "app"
    <3>1. router' = router
      BY Zenon, <2>2 DEF EndReload, OwnNames
    <3> QED BY Zenon, <1>2, <2>1, <2>2, <3>1 DEF Phases
  <2>3. CASE rl.by # "app"
    <3>1. router = "busy" /\ router' = "idle" /\ mtx # "reload"
      BY <1>4, <2>3 DEF EndReload, Phases
    <3> QED BY Zenon, <1>2, <2>1, <2>3, <3>1 DEF Phases
  <2> QED BY Zenon, <2>2, <2>3
<1> QED BY Zenon, <1>3, <1>4

\* Phases is preserved.
LEMMA PhasesStep ==
    ASSUME OwnNames, Stacked, Phases, LifeNext
    PROVE  Phases'
<1> DEFINE Same == UNCHANGED <<setup, started, stopped, mtx, stopper, router, rl>>
<1>0. CASE Same
  BY Zenon, <1>0 DEF Phases
<1>1. CASE SetupStep
  <2>1. /\ setup \in 1 .. 14 /\ stopper.pc = "none" /\ rl.pc = "none"
        /\ UNCHANGED <<started, stopped, mtx, stopper, router>>
    BY <1>1, StepCount DEF SetupStep, Stacked
  <2>2. ~started /\ router = "off"
    BY <2>1 DEF Phases
  <2>3. CASE setup = 13
    <3>1. rl' = [NoReload EXCEPT !.pc = "build", !.by = "setup", !.v = config.cur, !.n = 1] /\ setup' = setup
      BY Zenon, <1>1, <2>1, <2>3, StepDepth DEF SetupStep
    <3>2. rl'.pc = "build" /\ rl'.by = "setup" /\ DOMAIN rl' = {"pc", "by", "v", "n", "apps"}
      BY Zenon, <3>1 DEF NoReload
    <3> QED BY Zenon, <2>1, <2>2, <2>3, <3>1, <3>2 DEF Phases
  <2>4. CASE setup # 13
    <3>1. rl' = rl /\ setup' = setup + 1
      BY Zenon, <1>1, <2>1, <2>4, StepDepth DEF SetupStep
    <3> QED BY Zenon, <2>1, <2>2, <3>1 DEF Phases
  <2> QED BY Zenon, <2>3, <2>4
<1>2. CASE SetupFails
  <2>1. /\ setup \in 1 .. 14 /\ stopper.pc = "none" /\ rl.pc = "none"
        /\ stopped' = TRUE /\ mtx' = "stop" /\ stopper' = [stopper EXCEPT !.pc = "cleanup"]
        /\ UNCHANGED <<setup, started, router, rl>>
    BY <1>2, StepCount DEF SetupFails, Stacked
  <2> QED BY <2>1 DEF Phases
<1>3. CASE Start
  BY Zenon, <1>3, StepCount DEF Start, Phases
<1>4. ASSUME NEW by \in Request \cup {"hup"}, router = "idle", router' = "busy", rl.pc = "none", Begin(by),
             UNCHANGED <<setup, started, stopped, mtx, stopper>>
      PROVE  Phases'
  <2>1. rl'.pc = "load" /\ rl'.by = by /\ DOMAIN rl' = {"pc", "by", "v", "n", "apps"} /\ by # "app"
    BY Zenon, <1>4 DEF Begin, OwnNames
  <2> QED BY Zenon, <1>4, <2>1 DEF Phases
<1>5. CASE RouterTriggered \/ \E r \in Request : RouterTakes(r)
  BY Zenon, <1>4, <1>5 DEF RouterTriggered, RouterTakes
<1>6. CASE RouterQuits
  BY Zenon, <1>6 DEF RouterQuits, Phases
<1>7. CASE AppReload
  <2>1. rl'.pc = "load" /\ rl'.by = "app" /\ DOMAIN rl' = {"pc", "by", "v", "n", "apps"}
    BY Zenon, <1>7 DEF AppReload, Begin
  <2>2. /\ setup = 15 /\ ~stopped /\ mtx' = "reload" /\ UNCHANGED <<setup, started, stopped, stopper, router>>
    BY Zenon, <1>7, StepCount DEF AppReload
  <2> QED BY Zenon, <2>1, <2>2 DEF Phases
<1>8. ASSUME rl.pc # "none", rl'.pc # "none", rl'.by = rl.by, DOMAIN rl' = DOMAIN rl,
             UNCHANGED <<setup, started, stopped, mtx, stopper, router>>
      PROVE  Phases'
  BY Zenon, <1>8 DEF Phases
<1>9. CASE LoadFile
  <2>1. CASE file \in lscene.badLoad
    BY Zenon, <1>9, <2>1, EndPhases DEF LoadFile
  <2>2. CASE file \notin lscene.badLoad
    <3>1. rl' = [rl EXCEPT !.pc = "build", !.v = file] /\ rl.pc = "load"
          /\ UNCHANGED <<setup, started, stopped, mtx, stopper, router>>
      BY Zenon, <1>9, <2>2 DEF LoadFile
    <3> QED BY Zenon, <1>8, <3>1 DEF Phases
  <2> QED BY Zenon, <2>1, <2>2
<1>10. CASE Build
  <2>1. CASE rl.v \in lscene.badBuild \cup lscene.badTrace
    BY Zenon, <1>10, <2>1, EndPhases DEF Build
  <2>2. CASE rl.v \notin lscene.badBuild \cup lscene.badTrace
    <3>1. rl' = [rl EXCEPT !.pc = "outputs"] /\ rl.pc = "build" /\ UNCHANGED <<setup, started, stopped, mtx, stopper, router>>
      BY Zenon, <1>10, <2>2 DEF Build
    <3> QED BY Zenon, <1>8, <3>1 DEF Phases
  <2> QED BY Zenon, <2>1, <2>2
<1>11. ASSUME NEW to, rl' = [rl EXCEPT !.pc = to], to # "none", rl.pc # "none",
              UNCHANGED <<setup, started, stopped, mtx, stopper, router>>
       PROVE  Phases'
  BY Zenon, <1>8, <1>11 DEF Phases
<1>12. CASE ApplyOutputs \/ StopOld \/ StartInhibitor \/ StartDispatcher
  BY Zenon, <1>11, <1>12 DEF ApplyOutputs, StopOld, StartInhibitor, StartDispatcher
<1>13. CASE Publish
  BY Zenon, <1>13, EndPhases DEF Publish
<1>14. CASE Stop
  <2>1. /\ setup = 15 /\ mtx = "free" /\ ~stopped /\ stopped' = TRUE /\ mtx' = "stop"
        /\ stopper' = [stopper EXCEPT !.pc = "shutdown"] /\ UNCHANGED <<setup, started, router, rl>>
    BY Zenon, <1>14, StepCount DEF Stop
  <2> QED BY <2>1 DEF Phases
<1>15. CASE StopServer
  <2>1. /\ stopper.pc = "shutdown" /\ stopper' = [stopper EXCEPT !.pc = IF started THEN "router" ELSE "cleanup"]
        /\ UNCHANGED <<setup, started, stopped, mtx, router, rl>>
    BY Zenon, <1>15 DEF StopServer
  <2>2. mtx = "stop" /\ setup = 15 /\ (~started => router = "off")
    BY Zenon, <2>1 DEF Phases
  <2>3. ~started => rl.pc = "none"
    BY Zenon, <2>1, <2>2 DEF Phases
  <2>4. /\ DOMAIN stopper' = {"pc", "late"} /\ stopper'.pc = IF started THEN "router" ELSE "cleanup"
    BY Zenon, <2>1 DEF Phases
  <2> QED BY Zenon, <2>1, <2>2, <2>3, <2>4 DEF Phases
<1>16. CASE StopRouter
  <2>1. /\ stopper.pc = "router" /\ stopper' = [stopper EXCEPT !.pc = "cleanup"] /\ router = "done"
        /\ UNCHANGED <<setup, started, stopped, mtx, router, rl>>
    BY Zenon, <1>16 DEF StopRouter
  <2>2. mtx = "stop"
    BY Zenon, <2>1 DEF Phases
  <2>3. rl.pc = "none"
    BY Zenon, <2>1, <2>2 DEF Phases
  <2> QED BY Zenon, <2>1, <2>2, <2>3 DEF Phases
<1>17. CASE StopTimeout
  <2>1. /\ stopper.pc \in {"shutdown", "router"} /\ stopper' = [pc |-> "cleanup", late |-> TRUE]
        /\ UNCHANGED <<setup, started, stopped, mtx, router, rl>>
    BY Zenon, <1>17 DEF StopTimeout
  <2> QED BY Zenon, <2>1 DEF Phases
<1>18. CASE StopReturns
  <2>1. /\ stopper.pc = "cleanup" /\ stopper' = [stopper EXCEPT !.pc = "returned"] /\ mtx' = "free"
        /\ UNCHANGED <<setup, started, stopped, router, rl>>
    BY Zenon, <1>18 DEF StopReturns
  <2>2. mtx = "stop"
    BY <2>1 DEF Phases
  <2> QED BY Zenon, <2>1, <2>2 DEF Phases
<1> QED BY Zenon, <1>0, <1>1, <1>2, <1>3, <1>5, <1>6, <1>7, <1>9, <1>10, <1>12, <1>13, <1>14, <1>15, <1>16, <1>17, <1>18
       DEF LifeNext, EditFile, Hangup, Forward, Ask, GoAway, Cleanup
\* What a step of the setup starts is stopped by a step that is registered by then.
Backed(k) ==
    LET S == SetupSteps[k].starts IN
    /\ S \subseteq {"peer", "recorder", "nflog", "silences", "alerts", "listeners", "tracing"}
    /\ Depth[k] \in Nat /\ Depth[k + 1] \in Nat /\ Depth[k] <= Depth[k + 1]
    /\ "peer" \in S => Depth[k + 1] >= 1
    /\ "recorder" \in S => Depth[k + 1] >= 2
    /\ "nflog" \in S => Depth[k + 1] >= 4
    /\ "silences" \in S => Depth[k + 1] >= 4
    /\ "alerts" \in S => Depth[k + 1] >= 5
    /\ "listeners" \in S => Depth[k + 1] >= 6
    /\ "tracing" \in S => Depth[k + 1] >= 7
    /\ Depth[k + 1] >= 2 => Depth[k] >= 2 \/ "recorder" \in S
    /\ Depth[k + 1] >= 5 => Depth[k] >= 5 \/ "alerts" \in S

\* Every step of the setup is backed.
LEMMA AllBacked ==
    ASSUME NEW i \in 1 .. 14
    PROVE  Backed(i)
<1>1. Backed(1) BY Steps, DepthTable DEF Is, Backed
<1>2. Backed(2) BY Steps, DepthTable DEF Is, Backed
<1>3. Backed(3) BY Steps, DepthTable DEF Is, Backed
<1>4. Backed(4) BY Steps, DepthTable DEF Is, Backed
<1>5. Backed(5) BY Steps, DepthTable DEF Is, Backed
<1>6. Backed(6) BY Steps, DepthTable DEF Is, Backed
<1>7. Backed(7) BY Steps, DepthTable DEF Is, Backed
<1>8. Backed(8) BY Steps, DepthTable DEF Is, Backed
<1>9. Backed(9) BY Steps, DepthTable DEF Is, Backed
<1>10. Backed(10) BY Steps, DepthTable DEF Is, Backed
<1>11. Backed(11) BY Steps, DepthTable DEF Is, Backed
<1>12. Backed(12) BY Steps, DepthTable DEF Is, Backed
<1>13. Backed(13) BY Steps, DepthTable DEF Is, Backed
<1>14. Backed(14) BY Steps, DepthTable DEF Is, Backed
<1> QED BY Fourteen, <1>1, <1>2, <1>3, <1>4, <1>5, <1>6, <1>7, <1>8, <1>9, <1>10, <1>11, <1>12, <1>13, <1>14

\* A step of the setup: what runs, and how many teardown steps there are.
LEMMA SetupHeld ==
    ASSUME Stacked, Stacked', SetupStep
    PROVE  /\ setup \in 1 .. 14 /\ Backed(setup) /\ stopper' = stopper
           /\ Len(cleanups) = Depth[setup] /\ Len(cleanups') = Depth[setup + 1]
           /\ held' = held \cup {<<x, 0>> : x \in SetupSteps[setup].starts}
<1>1. setup \in 1 .. 14 /\ stopper.pc = "none" /\ stopper' = stopper
  BY StepCount DEF SetupStep, Stacked
<1>2. setup' = IF setup = 13 THEN setup ELSE setup + 1
  BY Zenon, <1>1, StepDepth DEF SetupStep
<1>3. Len(cleanups) = Depth[setup] /\ Len(cleanups') = Depth[setup']
  BY Zenon, <1>1 DEF Stacked
<1>4. Depth[setup'] = Depth[setup + 1]
  BY <1>1, <1>2, DepthTable
<1> QED BY Zenon, <1>1, <1>3, <1>4, AllBacked DEF SetupStep

\* A teardown step: what it frees is that of the last step registered.
LEMMA CleanupHeld ==
    ASSUME Stacked, Cleanup
    PROVE  /\ Len(cleanups) \in 1 .. 8 /\ Len(cleanups') = Len(cleanups) - 1
           /\ held' = held \ Frees(Order[Len(cleanups)])
<1>1. Len(cleanups) \in Nat \ {0} /\ Len(cleanups') = Len(cleanups) - 1
  BY Zenon, ButLast DEF Stacked, Cleanup
<1>2. Len(cleanups) \in 1 .. 8
  <2> DEFINE n == Len(cleanups)
  <2>1. n \in Nat \ {0} /\ n <= 8
    BY Zenon, <1>1 DEF Stacked
  <2> HIDE DEF n
  <2>2. n \in 1 .. 8
    BY <2>1
  <2> QED BY Zenon, <2>2 DEF n
<1>3. cleanups[Len(cleanups)] = Order[Len(cleanups)]
  <2> DEFINE n == Len(cleanups)
  <2>1. \A i \in 1 .. n : cleanups[i] = Order[i]
    BY Zenon DEF Stacked
  <2>2. n \in 1 .. n
    <3>1. n \in 1 .. 8
      BY Zenon, <1>2
    <3> HIDE DEF n
    <3> QED BY <3>1
  <2> QED BY Zenon, <2>1, <2>2
<1> QED BY Zenon, <1>1, <1>2, <1>3 DEF Cleanup

\* Base is preserved.
LEMMA BaseStep ==
    ASSUME Stacked, Stacked', Base, Swapped, LifeNext
    PROVE  Base'
<1> DEFINE D == {"dispatcher", "inhibitor"}
<1>0. CASE held' = held /\ cleanups' = cleanups
  BY Zenon, <1>0 DEF Base
<1>1. CASE SetupStep
  <2> DEFINE S == SetupSteps[setup].starts
  <2>1. /\ S \subseteq {"peer", "recorder", "nflog", "silences", "alerts", "listeners", "tracing"}
        /\ held' = held \cup {<<x, 0>> : x \in S}
    BY Zenon, <1>1, SetupHeld DEF Backed
  <2>2. \A y : <<y, 0>> \in held' <=> <<y, 0>> \in held \/ y \in S
    BY Zenon, <2>1
  <2>3. \A x \in held' : x \in held \/ \E y \in S : x = <<y, 0>>
    BY Zenon, <2>1
  <2>4. Backed(setup) /\ Len(cleanups) = Depth[setup] /\ Len(cleanups') = Depth[setup + 1]
    BY Zenon, <1>1, SetupHeld
  <2>5. \A x \in held' :
            \/ x \in {<<"peer", 0>>, <<"recorder", 0>>, <<"nflog", 0>>, <<"silences", 0>>, <<"alerts", 0>>, <<"listeners", 0>>, <<"tracing", 0>>}
            \/ x[1] \in D
    BY Zenon, <2>1, <2>3 DEF Base
  <2> QED BY <2>2, <2>4, <2>5 DEF Base, Backed
<1>2. ASSUME NEW X, held' = held \ X, X \subseteq {live.inhibitor, live.dispatcher}, cleanups' = cleanups PROVE Base'
  <2>1. \A y : y \notin {"nothing", "inhibitor", "dispatcher"} => (<<y, 0>> \in held' <=> <<y, 0>> \in held)
    BY <1>2 DEF Swapped
  <2> QED BY Zenon, <1>2, <2>1 DEF Base
<1>3. CASE StopOld
  BY Zenon, <1>2, <1>3 DEF StopOld
<1>4. ASSUME NEW x, x[1] \in D, held' = held \cup {x}, cleanups' = cleanups PROVE Base'
  BY <1>4 DEF Base
<1>5. CASE StartInhibitor \/ StartDispatcher
  <2> DEFINE x == <<"inhibitor", rl.n>>
             y == <<"dispatcher", rl.n>>
  <2>1. x[1] \in D /\ y[1] \in D
    OBVIOUS
  <2>2. cleanups' = cleanups /\ (held' = held \cup {x} \/ held' = held \cup {y})
    BY Zenon, <1>5 DEF StartInhibitor, StartDispatcher
  <2> HIDE DEF x, y
  <2>3. CASE held' = held \cup {x}
    BY <1>4, <2>1, <2>2, <2>3
  <2>4. CASE held' = held \cup {y}
    BY <1>4, <2>1, <2>2, <2>4
  <2> QED BY Zenon, <2>2, <2>3, <2>4
<1>6. CASE Cleanup
  <2> DEFINE n == Len(cleanups)
  <2>1. n \in {1, 2, 3, 4, 5, 6, 7, 8} /\ Len(cleanups') = n - 1 /\ held' = held \ Frees(Order[n])
    <3>1. n \in 1 .. 8 /\ Len(cleanups') = n - 1 /\ held' = held \ Frees(Order[n])
      BY Zenon, <1>6, CleanupHeld
    <3> HIDE DEF n
    <3> QED BY <3>1
  <2> HIDE DEF n
  <2>2. CASE n = 8
    <3>1. held' = held \ {live.inhibitor, live.dispatcher}
      BY Zenon, <2>1, <2>2, OrderTable, FreesAre
    <3>2. \A y : y \notin {"nothing", "inhibitor", "dispatcher"} => (<<y, 0>> \in held' <=> <<y, 0>> \in held)
      BY <3>1 DEF Swapped
    <3> QED BY <2>1, <2>2, <3>1, <3>2 DEF Base, n
  <2>3. CASE n = 7
    BY <2>1, <2>3, OrderTable, FreesAre DEF Base, n
  <2>4. CASE n = 6
    BY <2>1, <2>4, OrderTable, FreesAre DEF Base, n
  <2>5. CASE n = 5
    BY <2>1, <2>5, OrderTable, FreesAre DEF Base, n
  <2>6. CASE n = 4
    BY <2>1, <2>6, OrderTable, FreesAre DEF Base, n
  <2>7. CASE n = 3
    BY <2>1, <2>7, OrderTable, FreesAre DEF Base, n
  <2>8. CASE n = 2
    BY <2>1, <2>8, OrderTable, FreesAre DEF Base, n
  <2>9. CASE n = 1
    BY <2>1, <2>9, OrderTable, FreesAre DEF Base, n
  <2> QED BY <2>1, <2>2, <2>3, <2>4, <2>5, <2>6, <2>7, <2>8, <2>9
<1> QED BY Zenon, <1>0, <1>1, <1>3, <1>5, <1>6
       DEF LifeNext, SetupFails, Start, EditFile, Hangup, Forward, Ask, GoAway, RouterTakes, RouterTriggered, RouterQuits,
           AppReload, LoadFile, Build, ApplyOutputs, Publish, Stop, StopServer, StopRouter, StopTimeout, StopReturns
\* A part other than the dispatcher and the inhibitor comes or goes.
LEMMA RunningFrame ==
    ASSUME NEW kind \in {"dispatcher", "inhibitor"},
           \A x : x[1] = kind => (x \in held' <=> x \in held)
    PROVE  Running(kind)' = Running(kind)
BY Zenon DEF Running

\* All teardown steps are registered while a reload runs, unless Stop gave up waiting.
LEMMA ReloadDepth ==
    ASSUME Stacked, Phases, rl.pc # "none", ~stopper.late
    PROVE  Len(cleanups) = 8
<1>1. stopper.pc \in {"none", "shutdown", "router"}
  BY Zenon DEF Phases
<1>2. setup \in {13, 15}
  BY Zenon DEF Phases
<1> QED BY Zenon, <1>1, <1>2, DepthTable DEF Stacked

\* Swapped is preserved.
LEMMA SwappedStep ==
    ASSUME Stacked, Stacked', Phases, Base, Swapped, LifeNext
    PROVE  Swapped'
<1> DEFINE RD == Running("dispatcher")
           RI == Running("inhibitor")
           Plain == rl.pc \notin {"start", "loading", "publish"}
<1>1. ASSUME held' = held, cleanups' = cleanups, live'.dispatcher = live.dispatcher, live'.inhibitor = live.inhibitor,
             DOMAIN live' = DOMAIN live, Plain, Plain', stopper.late => stopper'.late
      PROVE  Swapped'
  BY Zenon, <1>1 DEF Swapped, Running
<1>2. ASSUME UNCHANGED <<held, cleanups, live, rl>>, stopper.late => stopper'.late
      PROVE  Swapped'
  BY Zenon, <1>2 DEF Swapped, Running
<1>3. CASE SetupStep
  <2>1. RD' = RD /\ RI' = RI
    <3>1. SetupSteps[setup].starts \subseteq {"peer", "recorder", "nflog", "silences", "alerts", "listeners", "tracing"}
          /\ held' = held \cup {<<x, 0>> : x \in SetupSteps[setup].starts}
      BY Zenon, <1>3, SetupHeld DEF Backed
    <3> QED BY <3>1, RunningFrame
  <2>2. /\ DOMAIN live' = DOMAIN live /\ live'.dispatcher = live.dispatcher /\ live'.inhibitor = live.inhibitor
        /\ rl.pc = "none" /\ rl'.pc \in {"none", "build"} /\ stopper' = stopper
    BY Zenon, <1>3 DEF SetupStep, NoReload, Swapped
  <2>3. Len(cleanups) = 8 => Len(cleanups') = 8
    <3>1. setup \in 1 .. 14 /\ Len(cleanups) = Depth[setup] /\ Len(cleanups') = Depth[setup + 1]
      BY Zenon, <1>3, SetupHeld
    <3>2. Depth[setup] = 8 => Depth[setup + 1] = 8
      BY <3>1, DepthTable, Fourteen
    <3> QED BY Zenon, <3>1, <3>2
  <2> HIDE DEF RD, RI
  <2>4. Running("dispatcher")' = Running("dispatcher") /\ Running("inhibitor")' = Running("inhibitor")
    BY Zenon, <2>1 DEF RD, RI
  <2> QED BY Zenon, <2>2, <2>3, <2>4 DEF Swapped
<1>4. CASE AppReload \/ RouterTriggered \/ \E r \in Request : RouterTakes(r)
  <2>1. rl.pc = "none" /\ rl'.pc = "load" /\ UNCHANGED <<held, cleanups, live, stopper>>
    BY <1>4 DEF AppReload, RouterTriggered, RouterTakes, Begin
  <2> QED BY Zenon, <1>1, <2>1
<1>5. ASSUME NEW ok, NEW cur, NEW hash, EndReload(ok, cur, hash)
      PROVE  rl'.pc = "none" /\ (stopper.late => stopper'.late)
  BY Zenon, <1>5 DEF EndReload, NoReload, Phases
<1>6. CASE LoadFile
  <2>1. rl.pc = "load" /\ UNCHANGED <<held, cleanups, live>>
    BY Zenon, <1>6 DEF LoadFile
  <2>2. rl'.pc \in {"none", "build"} /\ (stopper.late => stopper'.late)
    BY Zenon, <1>5, <1>6 DEF LoadFile, Phases
  <2> QED BY Zenon, <1>1, <2>1, <2>2
<1>7. CASE Build
  <2>1. rl.pc = "build" /\ UNCHANGED <<held, cleanups>>
        /\ (live' = live \/ live' = [live EXCEPT !.tracing = rl.v])
    BY Zenon, <1>7 DEF Build
  <2>2. rl'.pc \in {"none", "outputs"} /\ (stopper.late => stopper'.late)
    BY Zenon, <1>5, <1>7 DEF Build, Phases
  <2>3. live'.dispatcher = live.dispatcher /\ live'.inhibitor = live.inhibitor /\ DOMAIN live' = DOMAIN live
    BY Zenon, <2>1 DEF Swapped
  <2> QED BY Zenon, <1>1, <2>1, <2>2, <2>3
<1>8. CASE ApplyOutputs
  <2>1. rl.pc = "outputs" /\ UNCHANGED <<held, cleanups, stopper>> /\ rl' = [rl EXCEPT !.pc = "stop"]
        /\ (live' = live \/ live' = [live EXCEPT !.outputs = rl.v])
    BY Zenon, <1>8 DEF ApplyOutputs
  <2>2. rl'.pc = "stop"
    BY Zenon, <2>1 DEF Phases
  <2>3. live'.dispatcher = live.dispatcher /\ live'.inhibitor = live.inhibitor /\ DOMAIN live' = DOMAIN live
    BY Zenon, <2>1 DEF Swapped
  <2> QED BY Zenon, <1>1, <2>1, <2>2, <2>3
<1>9. CASE StopOld
  <2>1. /\ rl.pc = "stop" /\ UNCHANGED <<cleanups, stopper>> /\ rl' = [rl EXCEPT !.pc = "start"]
        /\ held' = held \ {live.inhibitor, live.dispatcher} /\ live' = [live EXCEPT !.api = rl.v]
    BY Zenon, <1>9 DEF StopOld
  <2>2. rl'.pc = "start" /\ live'.dispatcher = live.dispatcher /\ live'.inhibitor = live.inhibitor /\ DOMAIN live' = DOMAIN live
    BY Zenon, <2>1 DEF Swapped, Phases
  <2>3. RD' = {} /\ RI' = {}
    BY Zenon, <2>1 DEF Swapped, Running
  <2> HIDE DEF RD, RI
  <2>4. Running("dispatcher")' = {} /\ Running("inhibitor")' = {}
    BY Zenon, <2>3 DEF RD, RI
  <2> QED BY Zenon, <2>2, <2>4 DEF Swapped
<1>10. CASE StartInhibitor
  <2>1. /\ rl.pc = "start" /\ UNCHANGED <<cleanups, stopper, live>> /\ rl' = [rl EXCEPT !.pc = "loading"]
        /\ held' = held \cup {<<"inhibitor", rl.n>>}
    BY Zenon, <1>10 DEF StartInhibitor
  <2>2. rl'.pc = "loading" /\ rl'.n = rl.n
    BY Zenon, <2>1 DEF Phases
  <2>3. Running("dispatcher")' = {} /\ Running("inhibitor")' \subseteq {<<"inhibitor", rl.n>>}
    BY <2>1 DEF Swapped, Running
  <2>4. ~stopper.late => Len(cleanups) = 8
    BY Zenon, <2>1, ReloadDepth
  <2> QED BY Zenon, <2>1, <2>2, <2>3, <2>4 DEF Swapped
<1>11. CASE StartDispatcher
  <2>1. /\ rl.pc = "loading" /\ UNCHANGED <<cleanups, stopper>> /\ rl' = [rl EXCEPT !.pc = "publish"]
        /\ held' = held \cup {<<"dispatcher", rl.n>>} /\ live' = [live EXCEPT !.inhibitor = <<"inhibitor", rl.n>>]
    BY Zenon, <1>11 DEF StartDispatcher
  <2>2. rl'.pc = "publish" /\ rl'.n = rl.n
    BY Zenon, <2>1 DEF Phases
  <2>3. live'.dispatcher = live.dispatcher /\ live'.inhibitor = <<"inhibitor", rl.n>> /\ DOMAIN live' = DOMAIN live
    BY Zenon, <2>1 DEF Swapped
  <2>4. Running("dispatcher")' \subseteq {<<"dispatcher", rl.n>>} /\ Running("inhibitor")' \subseteq {<<"inhibitor", rl.n>>}
    BY <2>1 DEF Swapped, Running
  <2>5. ~stopper.late => Len(cleanups) = 8
    BY Zenon, <2>1, ReloadDepth
  <2> QED BY Zenon, <2>1, <2>2, <2>3, <2>4, <2>5 DEF Swapped
<1>12. CASE Publish
  <2>1. /\ rl.pc = "publish" /\ UNCHANGED <<held, cleanups>> /\ live' = [live EXCEPT !.dispatcher = <<"dispatcher", rl.n>>]
    BY Zenon, <1>12 DEF Publish
  <2>2. rl'.pc = "none" /\ (stopper.late => stopper'.late)
    BY Zenon, <1>5, <1>12 DEF Publish
  <2>3. live'.dispatcher = <<"dispatcher", rl.n>> /\ live'.inhibitor = <<"inhibitor", rl.n>> /\ DOMAIN live' = DOMAIN live
    BY Zenon, <2>1 DEF Swapped
  <2>4. Running("dispatcher")' = Running("dispatcher") /\ Running("inhibitor")' = Running("inhibitor")
    BY Zenon, <2>1 DEF Running
  <2> QED BY Zenon, <2>1, <2>2, <2>3, <2>4 DEF Swapped
<1>13. CASE Cleanup
  <2>1. /\ Len(cleanups) \in 1 .. 8 /\ Len(cleanups') = Len(cleanups) - 1
        /\ held' = held \ Frees(Order[Len(cleanups)])
    BY Zenon, <1>13, CleanupHeld
  <2>2. UNCHANGED <<rl, live, stopper>> /\ stopper.pc = "cleanup"
    BY Zenon, <1>13 DEF Cleanup
  <2>3. Running("dispatcher")' \subseteq Running("dispatcher") /\ Running("inhibitor")' \subseteq Running("inhibitor")
    BY Zenon, <2>1 DEF Running
  <2>4. ~stopper.late => Running("dispatcher")' = {} /\ Running("inhibitor")' = {}
    <3> SUFFICES ASSUME ~stopper.late PROVE Running("dispatcher")' = {} /\ Running("inhibitor")' = {}
      OBVIOUS
    <3>1. rl.pc = "none"
      BY Zenon, <2>2 DEF Phases
    <3>2. CASE Len(cleanups) = 8
      <4>1. held' = held \ {live.inhibitor, live.dispatcher}
        BY Zenon, <2>1, <3>2, OrderTable, FreesAre
      <4> QED BY Zenon, <3>1, <4>1 DEF Swapped, Running
    <3>3. CASE Len(cleanups) # 8
      BY Zenon, <2>3, <3>3 DEF Swapped
    <3> QED BY Zenon, <3>2, <3>3
  <2> QED BY Zenon, <2>2, <2>3, <2>4 DEF Swapped
<1>14. CASE StopTimeout
  BY Zenon, <1>2, <1>14 DEF StopTimeout
<1>15. CASE SetupFails \/ Stop \/ StopServer \/ StopRouter \/ StopReturns
  <2>1. UNCHANGED <<held, cleanups, live, rl>> /\ \E to : stopper' = [stopper EXCEPT !.pc = to]
    BY Zenon, <1>15 DEF SetupFails, Stop, StopServer, StopRouter, StopReturns
  <2>2. stopper'.late = stopper.late
    BY Zenon, <2>1 DEF Phases
  <2> QED BY Zenon, <1>2, <2>1, <2>2
<1> QED BY Zenon, <1>2, <1>3, <1>4, <1>6, <1>7, <1>8, <1>9, <1>10, <1>11, <1>12, <1>13, <1>14, <1>15
       DEF LifeNext, Start, EditFile, Hangup, Forward, Ask, GoAway, RouterQuits

-----------------------------------------------------------------------------

\* LifeInv holds at the start.
LEMMA LifeStart ==
    ASSUME LifeInit
    PROVE  LifeInv
<1>1. Stacked
  BY DepthTable DEF LifeInit, Stacked
<1>2. Phases
  BY Zenon DEF LifeInit, Phases, NoReload
<1>3. Base
  BY DEF LifeInit, Base
<1>4. Swapped
  BY Zenon DEF LifeInit, Swapped, Running, Nothing, NoReload
<1> QED BY Zenon, <1>1, <1>2, <1>3, <1>4 DEF LifeInv

\* LifeInv is inductive.
LEMMA LifeStep ==
    ASSUME OwnNames, LifeInv, [LifeNext]_lifeVars
    PROVE  LifeInv'
<1>1. CASE LifeNext
  BY <1>1, StackedStep, PhasesStep, BaseStep, SwappedStep DEF LifeInv
<1>2. CASE UNCHANGED lifeVars
  <2>1. UNCHANGED <<setup, held, cleanups, started, stopped, mtx, stopper, router, rl, live>>
    BY Zenon, <1>2 DEF lifeVars
  <2>2. Stacked' /\ Phases'
    BY Zenon, <2>1 DEF LifeInv, Stacked, Phases
  <2>3. Base' /\ Swapped'
    BY <2>1 DEF LifeInv, Base, Swapped, Running
  <2> QED BY Zenon, <2>2, <2>3 DEF LifeInv
<1> QED BY Zenon, <1>1, <1>2

\* LifeInv is an invariant.
LEMMA LifeInvariant == ASSUME OwnNames PROVE LifeSpec => []LifeInv
<1> QED BY LifeStart, LifeStep, PTL DEF LifeSpec

\* A set inside a singleton has at most one element.
LEMMA AtMostOne ==
    ASSUME NEW S, NEW x, S \subseteq {x}
    PROVE  Cardinality(S) <= 1
<1>1. S = {} \/ S = {x}
  OBVIOUS
<1>2. Cardinality({}) = 0 /\ Cardinality({x}) = 1
  BY Zenon, FS_Singleton, FS_EmptySet
<1> QED BY <1>1, <1>2

\* reload, Reload, Stop: there is never more than one dispatcher and one inhibitor, and
\* between reloads those that run are those that are published; for any files, any step of
\* the setup that fails, any number of requests, signals and calls of Reload.
THEOREM OneDispatcherThm == ASSUME OwnNames PROVE LifeSpec => []OneDispatcher
<1>1. ASSUME LifeInv PROVE OneDispatcher
  <2>1. \E x : Running("dispatcher") \subseteq {x}
    BY Zenon, <1>1 DEF LifeInv, Swapped
  <2>2. \E x : Running("inhibitor") \subseteq {x}
    BY Zenon, <1>1 DEF LifeInv, Swapped
  <2>3. rl.pc = "none" => Running("dispatcher") \subseteq {live.dispatcher} /\ Running("inhibitor") \subseteq {live.inhibitor}
    BY Zenon, <1>1 DEF LifeInv, Swapped
  <2> QED BY Zenon, <2>1, <2>2, <2>3, AtMostOne DEF OneDispatcher
<1> QED BY <1>1, LifeInvariant, PTL

\* Stop, onStop: when Stop has returned nothing is left running or open, and before that
\* nothing that runs needs a part that is closed already, unless Stop gave up waiting; wherever
\* the setup fails, and whatever reloads run when Stop is called.
THEOREM StopIsOrderlyThm == ASSUME OwnNames PROVE LifeSpec => []StopIsOrderly
<1>1. ASSUME LifeInv PROVE StopIsOrderly
  <2>1. ASSUME ~stopper.late, NEW x \in held, x[1] \in {"dispatcher", "inhibitor"} PROVE Len(cleanups) = 8
    BY Zenon, <1>1, <2>1 DEF LifeInv, Swapped, Running
  <2>2. NothingLeft
    <3> SUFFICES ASSUME stopper.pc = "returned", ~stopper.late, NEW x \in held PROVE FALSE
      BY Zenon DEF NothingLeft
    <3>1. Len(cleanups) = 0
      BY Zenon, <1>1 DEF LifeInv, Stacked
    <3> QED BY <1>1, <2>1, <3>1 DEF LifeInv, Base
  <2>3. NeedsAreOpen
    <3> SUFFICES ASSUME ~stopper.late
                 PROVE  /\ \A x \in held : \A n \in Needs(x) : <<n, 0>> \in held
                        /\ (\E i \in DOMAIN cleanups : cleanups[i] = "event") => <<"recorder", 0>> \in held
      BY Zenon DEF NeedsAreOpen
    <3>1. ASSUME NEW x \in held, NEW n \in Needs(x) PROVE <<n, 0>> \in held
      <4>1. CASE x[1] \in {"dispatcher", "inhibitor"}
        <5>1. n \in {"alerts", "recorder"}
          BY Zenon, <3>1, <4>1 DEF Needs
        <5>2. Len(cleanups) = 8
          BY Zenon, <2>1, <3>1, <4>1
        <5>3. <<"alerts", 0>> \in held /\ <<"recorder", 0>> \in held
          BY <1>1, <5>2 DEF LifeInv, Base
        <5> QED BY Zenon, <5>1, <5>3
      <4>2. CASE x[1] \in {"alerts", "silences"}
        <5>1. n = "recorder"
          BY Zenon, <3>1, <4>2 DEF Needs
        <5>2. x \in {<<"alerts", 0>>, <<"silences", 0>>}
          BY <1>1, <3>1, <4>2 DEF LifeInv, Base
        <5>3. <<"recorder", 0>> \in held
          BY <1>1, <3>1, <5>2 DEF LifeInv, Base, Stacked
        <5> QED BY Zenon, <5>1, <5>3
      <4>3. CASE x[1] \notin {"dispatcher", "inhibitor", "alerts", "silences"}
        <5>1. x[1] # "event"
          BY <1>1, <3>1, <4>3 DEF LifeInv, Base
        <5> QED BY Zenon, <3>1, <4>3, <5>1 DEF Needs
      <4> QED BY Zenon, <4>1, <4>2, <4>3
    <3>2. ASSUME NEW i \in DOMAIN cleanups, cleanups[i] = "event" PROVE <<"recorder", 0>> \in held
      <4>1. i \in 1 .. Len(cleanups) /\ Len(cleanups) \in Nat /\ Len(cleanups) <= 8
        BY <1>1, <3>2 DEF LifeInv, Stacked
      <4>2. Order[i] = "event"
        BY Zenon, <1>1, <3>2, <4>1 DEF LifeInv, Stacked
      <4>3. i # 1
        BY Zenon, <4>2, OrderTable
      <4>4. Len(cleanups) >= 2
        BY <4>1, <4>3
      <4> QED BY Zenon, <1>1, <4>4 DEF LifeInv, Base
    <3> QED BY Zenon, <3>1, <3>2
  <2> QED BY Zenon, <2>2, <2>3 DEF StopIsOrderly
<1> QED BY <1>1, LifeInvariant, PTL

\* reload: a failed reload changes nothing that is installed.
THEOREM FailedReloadKeepsThm == ASSUME OwnNames PROVE LifeSpec => FailedReloadKeeps
<1>1. ASSUME LifeInv, LifeNext, rl.pc # "none", rl'.pc = "none", ~config'.ok PROVE live' = live
  <2>1. \A to : rl' = [rl EXCEPT !.pc = to] => to = "none"
    BY Zenon, <1>1 DEF LifeInv, Phases
  <2>2. CASE Build
    BY Zenon, <2>1, <2>2 DEF Build
  <2>3. CASE Publish
    <3>1. config' = [cur |-> config.cur, ok |-> TRUE, hash |-> config.cur]
      BY Zenon, <2>3 DEF Publish, EndReload
    <3> QED BY Zenon, <1>1, <3>1
  <2>4. CASE ApplyOutputs \/ StopOld \/ StartInhibitor \/ StartDispatcher
    BY Zenon, <2>1, <2>4 DEF ApplyOutputs, StopOld, StartInhibitor, StartDispatcher
  <2>5. CASE SetupStep
    BY Zenon, <1>1, <2>5 DEF SetupStep
  <2> QED BY Zenon, <1>1, <2>2, <2>3, <2>4, <2>5
         DEF LifeNext, SetupFails, Start, EditFile, Hangup, Forward, Ask, GoAway, RouterTakes, RouterTriggered, RouterQuits,
             AppReload, LoadFile, Stop, StopServer, StopRouter, StopTimeout, Cleanup, StopReturns
<1>2. LifeInv /\ [LifeNext]_lifeVars => [rl.pc # "none" /\ rl'.pc = "none" /\ ~config'.ok => live' = live]_lifeVars
  BY Zenon, <1>1
<1> QED BY <1>2, LifeInvariant, PTL DEF LifeSpec, FailedReloadKeeps
=============================================================================

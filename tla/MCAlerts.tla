------------------------------ MODULE MCAlerts ------------------------------
(***************************************************************************)
(* Instances of MemAlerts and Inhibitor for TLC.  A behaviour is one of the  *)
(* one component or of the other; the variable part says of which.           *)
(***************************************************************************)
EXTENDS MemAlerts, Inhibitor

CONSTANTS f1, f2, f3, f4, c1, c2, l1, l2, s1, s2, t

ASSUME MemSetting /\ InhibitSetting

AllEnds == {"none", "now", "later"}

\* Two requests for one alert race, with a subscriber.
Racing == [limit |-> 0, fps |-> {f1}, callers |-> {c1, c2}, listeners |-> {l1},
           starts |-> {NoTime, 1}, ends |-> AllEnds, slow |-> TRUE, maxTime |-> 2, maxPosts |-> 2]

\* Requests with two alerts, and two subscribers with small channels.
Feeding == [limit |-> 0, fps |-> {f1, f2}, callers |-> {c1}, listeners |-> {l1, l2},
            starts |-> {1}, ends |-> {"none", "now"}, slow |-> FALSE, maxTime |-> 1, maxPosts |-> 2]

\* Three alerts of which two may fire.
Limiting == [limit |-> 2, fps |-> {f1, f2, f3}, callers |-> {c1}, listeners |-> {},
             starts |-> {1}, ends |-> {"none", "later"}, slow |-> FALSE, maxTime |-> 3, maxPosts |-> 3]

\* Four alerts of which three may fire.
Larger == [Limiting EXCEPT !.limit = 3, !.fps = {f1, f2, f3, f4}, !.maxPosts = 4]

PassScenes == {Racing, Feeding, Limiting}
LimitScenes == {Larger}

-----------------------------------------------------------------------------

VARIABLE part

\* Two rules: s1 and s2 inhibit t with the same equal labels; s2 inhibits t and,
\* matching both sides, not itself, with other equal labels for t.
TwoRules == << [src |-> {s2}, tgt |-> {s2, t}, eq |-> [l \in {s1, s2, t} |-> IF l = t THEN 1 ELSE 2]],
               [src |-> {s1, s2}, tgt |-> {t}, eq |-> [l \in {s1, s2, t} |-> 1]] >>
BothThere == {{s1, s2}}

Init ==
    /\ part \in {"provider", "inhibitor"} /\ MemInit /\ InhibitInit
    /\ part = "inhibitor" => mscene = Racing

Next ==
    \/ part = "provider" /\ MemNext /\ UNCHANGED <<part, inhibitVars>>
    \/ part = "inhibitor" /\ InhibitNext /\ UNCHANGED <<part, memVars>>

vars == <<part, memVars, inhibitVars>>

\* The goroutines of the inhibitor run, the provider's clients send steady alerts
\* again, time passes.
On == part = "inhibitor"
InhibitFairness ==
    /\ WF_inhibitVars(On /\ ((\E l \in Lset : Slurped(l)) \/ LoadingFinished \/ Process))
    /\ WF_inhibitVars(On /\ InhibitTick)
    /\ \A r \in RuleNo : WF_inhibitVars(On /\ (CacheGC(r) \/ gcCallback(r)))
    /\ SF_inhibitVars(On /\ Received(s1))

Spec == Init /\ [][Next]_vars /\ MemFairness /\ InhibitFairness

\* The provider with a limit of three.
LimitSpec == part = "provider" /\ MemInit /\ InhibitInit /\ [][Next]_vars

\* Nobody waits for ever.  Alerts.Put returns, whatever the subscribers do; and a source
\* alert that is sent again and again inhibits in the end, whatever rivals with the same
\* equal labels did to Inhibitor's index before.
AlertsGetThrough == PutReturns /\ (On => ResentSourceInhibits)
=============================================================================

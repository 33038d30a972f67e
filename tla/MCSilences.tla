----------------------------- MODULE MCSilences -----------------------------
(***************************************************************************)
(* Silences for TLC: one silence of two peers, and, as an instance, two      *)
(* silences of one peer.  The variable part says which of them a behaviour   *)
(* is of; the other stays in one of its initial states.                      *)
(***************************************************************************)
EXTENDS Silences, TLC

CONSTANTS p1, p2, s1, s2, l1

VARIABLES part, lscene, lnow, lst, lver, lvi, lmi, lmsgs, lsnap, lcache, lcall, lseen, lhigh

First == [peer |-> p1, lset |-> l1, no |-> 1]
Second == [First EXCEPT !.no = 2]
Callers == {First, Second}
IdSymmetry == Permutations({s1, s2})

Calm == [callers |-> {First}, late |-> FALSE, slow |-> FALSE, foreign |-> FALSE, restarts |-> FALSE,
         stop |-> 4]
Concurrent == [Calm EXCEPT !.callers = Callers]
Slow == [Calm EXCEPT !.slow = TRUE, !.foreign = TRUE]
Crashing == [Calm EXCEPT !.restarts = TRUE, !.stop = 3]
Late == [Calm EXCEPT !.late = TRUE]
LocalScenes == {Concurrent, Slow, Crashing}
GossipScenes == {Calm, Late}

\* Two goroutines ask about the same alert; time passes during a call and silences
\* that do not compile arrive; crashes at any moment.
L == INSTANCE Silences WITH
        Peer <- {p1}, Id <- {s1, s2}, Lset <- {l1}, Caller <- Callers, Retention <- 1, MaxSilences <- 2,
        MaxTime <- 4, MaxVersion <- 3, Delay <- 0, Scenes <- LocalScenes, scene <- lscene, now <- lnow,
        st <- lst, ver <- lver, vi <- lvi, mi <- lmi, msgs <- lmsgs, snap <- lsnap, cache <- lcache,
        call <- lcall, seen <- lseen, high <- lhigh

ASSUME L!Setting /\ Setting /\ Circulation

localVars == <<lscene, lnow, lst, lver, lvi, lmi, lmsgs, lsnap, lcache, lcall, lseen, lhigh>>

MCInit ==
    /\ part \in {"local", "gossip"} /\ L!Init /\ Init /\ scene = Calm
    /\ part = "gossip" => lscene = Crashing

LateInit == part = "gossip" /\ L!Init /\ lscene = Crashing /\ Init /\ scene = Late

MCNext ==
    \/ part = "local" /\ L!Next /\ UNCHANGED <<part, vars>>
    \/ part = "gossip" /\ Next /\ UNCHANGED <<part, localVars>>

MCSpec == MCInit /\ [][MCNext]_<<part, vars, localVars>>

\* Updates may reach a peer when the silence has ended there.
LateSpec == LateInit /\ [][MCNext]_<<part, vars, localVars>>

-----------------------------------------------------------------------------
(* Properties *)

\* Silencer.Mutes: an active silence mutes, without the conditions of MutesIsRight.
ActiveSilenceMutes == [][ActiveMutes]_vars

\* One peer.  canUpdate, Set, expire: no operation of a user changes when a silence was
\* active before now.  Silencer.Mutes: it answers rightly while other goroutines ask about
\* the same alert, while time passes and after a crash.
OnePeerIsRight == [][L!HistoryKept /\ L!RightAnswer]_localVars
=============================================================================

----------------------------- MODULE AlertFeed -----------------------------
(***************************************************************************)
(* What the alert provider promises its subscribers (provider/provider.go): *)
(* a current version of every alert, and to each reader the versions it had *)
(* when the reader came and then every later one, in order.                 *)
(***************************************************************************)
EXTENDS Integers, Sequences

CONSTANTS Fp, Reader

VARIABLES
    cur,    \* a function from some fingerprints to alerts
    feed,   \* feed[r]: whether r is there, the updates before it, what it knows
    clock

feedVars == <<cur, feed, clock>>

Upd(f, x, y) == [z \in DOMAIN f \cup {x} |-> IF z = x THEN y ELSE f[z]]

Off == [on |-> FALSE, queue |-> << >>, known |-> [x \in {} |-> 0]]

FeedInit == cur = [x \in {} |-> 0] /\ feed = [r \in Reader |-> Off] /\ clock = 1

\* A new version reaches every reader.
Publish ==
    /\ \E fp \in Fp :
          /\ fp \in DOMAIN cur' /\ cur' = Upd(cur, fp, cur'[fp])
          /\ feed' = [r \in Reader |->
                        IF feed[r].on
                        THEN [on |-> TRUE, queue |-> Append(feed[r].queue, <<fp, cur'[fp]>>),
                              known |-> feed[r].known]
                        ELSE feed[r]]
    /\ clock' = clock

\* A reader comes: it gets the current versions, at once or through its queue.
Join(r) ==
    /\ ~feed[r].on /\ feed' = [feed EXCEPT ![r] = feed'[r]]
    /\ feed'[r].on
    /\ \/ feed'[r].queue = << >> /\ feed'[r].known = cur
       \/ /\ feed'[r].known = Off.known /\ feed'[r].queue \in Seq(Fp \X {cur[x] : x \in DOMAIN cur})
          /\ {feed'[r].queue[i] : i \in DOMAIN feed'[r].queue} = {<<x, cur[x]>> : x \in DOMAIN cur}
    /\ UNCHANGED <<cur, clock>>

Read(r) ==
    /\ feed[r].on /\ feed[r].queue # << >>
    /\ LET u == Head(feed[r].queue) IN
       feed' = [feed EXCEPT ![r] = [on |-> TRUE, queue |-> Tail(feed[r].queue),
                                    known |-> Upd(feed[r].known, u[1], u[2])]]
    /\ UNCHANGED <<cur, clock>>

Leave(r) ==
    /\ feed[r].on /\ feed' = [feed EXCEPT ![r] = Off]
    /\ UNCHANGED <<cur, clock>>

\* Alerts that have ended are forgotten, whether or not they were read.
Forget ==
    /\ DOMAIN cur' \subseteq DOMAIN cur /\ cur' = [x \in DOMAIN cur' |-> cur[x]]
    /\ \A x \in DOMAIN cur \ DOMAIN cur' : cur[x].ends <= clock
    /\ UNCHANGED <<feed, clock>>

Pass == clock' > clock /\ UNCHANGED <<cur, feed>>

FeedNext ==
    \/ Publish \/ Forget \/ Pass
    \/ \E r \in Reader : Join(r) \/ Read(r) \/ Leave(r)

FeedSpec == FeedInit /\ [][FeedNext]_feedVars

-----------------------------------------------------------------------------

\* What the reader of the feed f knows of fp when it has read its queue.
Told(f) == DOMAIN f.known \cup {f.queue[i][1] : i \in DOMAIN f.queue}
View(f, fp) ==
    LET at == {i \in DOMAIN f.queue : f.queue[i][1] = fp}
    IN  IF at # {} THEN f.queue[CHOOSE i \in at : \A j \in at : j <= i][2]
        ELSE f.known[fp]

\* It knows every alert in its current version; of one that was forgotten it knows at
\* most a version that has ended.
Synced(f, versions, now) ==
    /\ \A fp \in DOMAIN versions : fp \in Told(f) /\ View(f, fp) = versions[fp]
    /\ \A fp \in Told(f) \ DOMAIN versions : View(f, fp).ends <= now

\* A reader that has read its queue knows what there is.
InSync == \A r \in Reader : feed[r].on => Synced(feed[r], cur, clock)
=============================================================================

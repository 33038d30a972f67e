----------------------------- MODULE Inhibitor -----------------------------
(***************************************************************************)
(* The inhibitor (inhibit/inhibit.go, inhibit/index.go): per rule a cache of *)
(* source alerts and an index with one source alert for every combination of *)
(* equal labels.  Three goroutines share them, and each access is a step:    *)
(* the one that receives alerts, the garbage collector of the source cache,  *)
(* and a caller of Mutes.  An alert is its label set and the time it ends.   *)
(***************************************************************************)
EXTENDS Integers, Sequences, FiniteSets

CONSTANTS
    Lset,           \* label sets, of source and of target alerts
    Rules,          \* the sequence of rules: [src, tgt, eq], the label sets that match
                    \* either side and the equal labels of a label set
    Steady,         \* source alerts that keep firing and are sent again and again
    EndTime,        \* the clock stops there
    MaxChanges,     \* bound: updates of the alerts that are not Steady
    InhibitScenes   \* the alerts the provider may already have: subsets of Lset

VARIABLES
    inow,
    initial,    \* alerts of SlurpAndSubscribe that are still to be processed
    loaded,     \* loadingFinished
    scache,     \* scache[r]: a function from some label sets to times
    sindex,     \* sindex[r]: a function from some equal labels to label sets
    proc,       \* processAlert under way
    gcd,        \* gcd[r]: equal labels whose entries the GC callback still deletes
    ask,        \* a call of Mutes under way
    marks,      \* marks[l]: the inhibiting alert the marker has for l
    changes,
    spoiled     \* not in the code, see Spoiled

\* The rules are a sequence, times are numbers.
InhibitSetting == Len(Rules) \in Nat /\ DOMAIN Rules = 1 .. Len(Rules) /\ EndTime \in Nat

Nobody == [x \in {} |-> 0]
NoProc == [pc |-> "idle", l |-> {}, ends |-> 0, r |-> 0, indexed |-> {}]
NoAsk == [pc |-> "idle", l |-> {}, at |-> 0, r |-> 0, found |-> {}, firing |-> {}]
Forever == EndTime + 1
RuleNo == DOMAIN Rules

InhibitInit ==
    /\ inow = 1 /\ initial \in InhibitScenes /\ loaded = FALSE
    /\ scache = [r \in RuleNo |-> Nobody] /\ sindex = [r \in RuleNo |-> Nobody]
    /\ proc = NoProc /\ gcd = [r \in RuleNo |-> {}]
    /\ ask = NoAsk /\ marks = [l \in Lset |-> {}]
    /\ changes = 0 /\ spoiled = {}

Put(f, x, y) == [z \in DOMAIN f \cup {x} |-> IF z = x THEN y ELSE f[z]]

ResolvedAt(ends, t) == ends <= t

-----------------------------------------------------------------------------
(* Alerts arrive *)

\* The first rule from r on whose source side matches, if there is one.
NextSource(l, r) ==
    LET rs == {s \in RuleNo : s >= r /\ l \in Rules[s].src}
    IN  IF rs = {} THEN 0 ELSE CHOOSE s \in rs : \A q \in rs : s <= q

Begin(l, ends) ==
    proc' = IF NextSource(l, 1) = 0 THEN NoProc
            ELSE [pc |-> "set", l |-> l, ends |-> ends, r |-> NextSource(l, 1), indexed |-> {}]

\* run: the alerts that the provider already had come first.
Slurped(l) ==
    /\ proc.pc = "idle" /\ l \in initial /\ initial' = initial \ {l}
    /\ Begin(l, Forever)
    /\ UNCHANGED <<inow, loaded, scache, sindex, gcd, ask, marks, changes, spoiled>>

LoadingFinished ==
    /\ ~loaded /\ initial = {} /\ proc.pc = "idle" /\ loaded' = TRUE
    /\ UNCHANGED <<inow, initial, scache, sindex, proc, gcd, ask, marks, changes, spoiled>>

\* run: then those it sends.  A steady alert is sent again as it is.
Received(l) ==
    /\ proc.pc = "idle" /\ loaded
    /\ IF l \in Steady THEN Begin(l, Forever) /\ changes' = changes
       ELSE /\ changes < MaxChanges /\ changes' = changes + 1
            /\ \E e \in {inow, inow + 1, Forever} : Begin(l, e)
    /\ UNCHANGED <<inow, initial, loaded, scache, sindex, gcd, ask, marks, spoiled>>

\* The other source alerts with the equal labels of l.
Rivals(r, l) == {m \in Rules[r].src \ {l} : Rules[r].eq[m] = Rules[r].eq[l]}

\* Not in the code: the alerts in gone come back into the index only when they are
\* updated again; a call of Mutes under way may miss them, and those in less.
Spoils(gone, back, less) ==
    /\ spoiled' = (spoiled \ back) \cup gone
    /\ ask' = [ask EXCEPT !.firing = @ \ (gone \cup less)]

\* processAlert: the alert enters the source cache.
CacheSet ==
    LET r == proc.r
        l == proc.l
        sooner == l \in DOMAIN scache[r] /\ proc.ends < scache[r][l]
    IN  /\ proc.pc = "set"
        /\ scache' = [scache EXCEPT ![r] = Put(@, l, proc.ends)]
        /\ IF sooner THEN Spoils({r} \X Rivals(r, l), {<<r, l>>}, {<<r, l>>})
                     ELSE Spoils({}, {<<r, l>>}, {})
        /\ proc' = [proc EXCEPT !.pc = "index"]
        /\ UNCHANGED <<inow, initial, loaded, sindex, gcd, marks, changes>>

Done == LET s == NextSource(proc.l, proc.r + 1)
        IN  proc' = IF s = 0 THEN NoProc
                    ELSE [proc EXCEPT !.pc = "set", !.r = s, !.indexed = {}]

Index(r, k, l) == sindex' = [sindex EXCEPT ![r] = Put(@, k, l)]

\* updateIndex, up to the access to the source cache.
IndexGet ==
    LET r == proc.r
        k == Rules[r].eq[proc.l]
    IN  /\ proc.pc = "index"
        /\ \/ k \notin DOMAIN sindex[r] /\ Index(r, k, proc.l) /\ Done
           \/ k \in DOMAIN sindex[r] /\ sindex[r][k] = proc.l /\ Done /\ sindex' = sindex
           \/ /\ k \in DOMAIN sindex[r] /\ sindex[r][k] # proc.l
              /\ proc' = [proc EXCEPT !.pc = "compare", !.indexed = {sindex[r][k]}]
              /\ sindex' = sindex
        /\ UNCHANGED <<inow, initial, loaded, scache, gcd, ask, marks, changes, spoiled>>

\* Mutant: an alert that is in the cache keeps its place in the index.
ReplacesNever(r, m) == m \notin DOMAIN scache[r]

\* updateIndex: whether the indexed alert m gives way to the new one.
Replaces(r, m) == m \in DOMAIN scache[r] => ResolvedAt(scache[r][m], proc.ends)

\* updateIndex: the alert that was indexed is compared with the new one.
IndexCompare ==
    LET r == proc.r
        k == Rules[r].eq[proc.l]
    IN  /\ proc.pc = "compare"
        /\ \E m \in proc.indexed :
              \/ Replaces(r, m) /\ Index(r, k, proc.l)
              \/ ~Replaces(r, m) /\ sindex' = sindex
        /\ Done
        /\ UNCHANGED <<inow, initial, loaded, scache, gcd, ask, marks, changes, spoiled>>

-----------------------------------------------------------------------------
(* Garbage collection of a rule's source cache *)

\* Mutant: alerts that fire are collected, too.
CollectedAll(r) == DOMAIN scache[r]

\* The alerts that GC deletes; the callback runs after the cache is unlocked.  Until then
\* the index leads to an alert that is no longer there.
Collected(r) == {l \in DOMAIN scache[r] : ResolvedAt(scache[r][l], inow)}

CacheGC(r) ==
    LET keys == {Rules[r].eq[l] : l \in Collected(r)} IN
    /\ gcd[r] = {} /\ Collected(r) # {}
    /\ scache' = [scache EXCEPT ![r] = [l \in DOMAIN @ \ Collected(r) |-> @[l]]]
    /\ gcd' = [gcd EXCEPT ![r] = keys]
    /\ Spoils({}, {}, {r} \X {l \in Rules[r].src : Rules[r].eq[l] \in keys})
    /\ UNCHANGED <<inow, initial, loaded, sindex, proc, marks, changes>>

\* gcCallback, one deletion from the index.
gcCallback(r) ==
    \E k \in gcd[r] :
        /\ gcd' = [gcd EXCEPT ![r] = @ \ {k}]
        /\ sindex' = [sindex EXCEPT ![r] = [j \in DOMAIN @ \ {k} |-> @[j]]]
        /\ Spoils({r} \X {l \in Rules[r].src : Rules[r].eq[l] = k}, {}, {})
        /\ UNCHANGED <<inow, initial, loaded, scache, proc, marks, changes>>

-----------------------------------------------------------------------------
(* Mutes *)

NextTarget(l, r) ==
    LET rs == {s \in RuleNo : s >= r /\ l \in Rules[s].tgt}
    IN  IF rs = {} THEN 0 ELSE CHOOSE s \in rs : \A q \in rs : s <= q

\* The source alerts, in rule r, that are known and fire.
Firing(r) == {<<r, m>> : m \in {n \in DOMAIN scache[r] : ~ResolvedAt(scache[r][n], inow)}}

\* Mutes is called; the callers wait until the initial alerts are loaded.
Ask(l) ==
    /\ ask.pc = "idle" /\ loaded /\ NextTarget(l, 1) # 0
    /\ ask' = [pc |-> "index", l |-> l, at |-> inow, r |-> NextTarget(l, 1), found |-> {},
               firing |-> (UNION {Firing(r) : r \in RuleNo}) \ (spoiled \cup {<<proc.r, proc.l>>})]
    /\ UNCHANGED <<inow, initial, loaded, scache, sindex, proc, gcd, marks, changes, spoiled>>

\* The answer of one rule: the next one is tried, or the call is over, and the
\* deferred function tells the marker.
Answer(causes) ==
    LET s == NextTarget(ask.l, ask.r + 1) IN
    IF causes = {} /\ s # 0
    THEN ask' = [ask EXCEPT !.pc = "index", !.r = s, !.found = {}] /\ marks' = marks
    ELSE /\ ask' = [ask EXCEPT !.pc = "answered", !.found = causes]
         /\ marks' = [marks EXCEPT ![ask.l] = causes]

\* findEqualSourceAlert: the index.
MutesIndex ==
    LET k == Rules[ask.r].eq[ask.l] IN
    /\ ask.pc = "index"
    /\ IF k \in DOMAIN sindex[ask.r]
       THEN /\ ask' = [ask EXCEPT !.pc = "cache", !.found = {sindex[ask.r][k]}]
            /\ marks' = marks
       ELSE Answer({})
    /\ UNCHANGED <<inow, initial, loaded, scache, sindex, proc, gcd, changes, spoiled>>

\* hasEqual: whether the indexed alert m is there, fires, and may inhibit ask.l.
hasEqual(r, m) ==
    /\ m \in DOMAIN scache[r]
    /\ ~ResolvedAt(scache[r][m], ask.at)
    /\ ~(ask.l \in Rules[r].src /\ m \in Rules[r].tgt)

\* findEqualSourceAlert, hasEqual: the source cache.
MutesCache ==
    /\ ask.pc = "cache"
    /\ Answer({m \in ask.found : hasEqual(ask.r, m)})
    /\ UNCHANGED <<inow, initial, loaded, scache, sindex, proc, gcd, changes, spoiled>>

\* The caller has its answer.
MutesReturn ==
    /\ ask.pc = "answered" /\ ask' = NoAsk
    /\ UNCHANGED <<inow, initial, loaded, scache, sindex, proc, gcd, marks, changes, spoiled>>

InhibitTick ==
    /\ inow < EndTime /\ inow' = inow + 1
    /\ UNCHANGED <<initial, loaded, scache, sindex, proc, gcd, ask, marks, changes, spoiled>>

\* What run does with the alert it has.
Process == CacheSet \/ IndexGet \/ IndexCompare

InhibitNext ==
    \/ \E l \in Lset : Slurped(l) \/ Received(l) \/ Ask(l)
    \/ LoadingFinished \/ Process
    \/ \E r \in RuleNo : CacheGC(r) \/ gcCallback(r)
    \/ MutesIndex \/ MutesCache \/ MutesReturn \/ InhibitTick

inhibitVars == <<inow, initial, loaded, scache, sindex, proc, gcd, ask, marks, changes, spoiled>>

InhibitSpec == InhibitInit /\ [][InhibitNext]_inhibitVars

-----------------------------------------------------------------------------
(* Properties *)

\* The caches hold source alerts and the index points from their equal labels.
InhibitTypeOK ==
    \A r \in RuleNo :
        /\ DOMAIN scache[r] \subseteq Rules[r].src
        /\ \A k \in DOMAIN sindex[r] :
              sindex[r][k] \in Rules[r].src /\ Rules[r].eq[sindex[r][k]] = k

\* The source alert m of rule r has the labels to inhibit l, and l is not itself a
\* source alert of r.
Applies(r, m, l) == l \in Rules[r].tgt \ Rules[r].src /\ Rules[r].eq[m] = Rules[r].eq[l]

\* updateIndex, hasEqual: Mutes finds a source alert that fired all the time of the
\* call, unless, since that alert was last sent, another one with the same equal
\* labels got an earlier end or was collected.
FreshSourceInhibits ==
    ask.pc = "answered" /\ ask.found = {} =>
        \A x \in ask.firing : ~Applies(x[1], x[2], ask.l)

\* A source alert that fires and is sent again and again inhibits in the end: the
\* index leads to an alert that fires, for good once the others no longer change.
ResentSourceInhibits ==
    \A l \in Steady, r \in RuleNo :
        l \in Rules[r].src =>
            <>[](LET k == Rules[r].eq[l] IN
                 /\ k \in DOMAIN sindex[r] /\ sindex[r][k] \in DOMAIN scache[r]
                 /\ ~ResolvedAt(scache[r][sindex[r][k]], inow))
=============================================================================

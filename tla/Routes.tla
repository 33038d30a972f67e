------------------------------- MODULE Routes -------------------------------
(***************************************************************************)
(* The routing tree: the checks that Config.UnmarshalYAML and Load make of *)
(* it, the tree newRoute builds from it (options inherited, indices        *)
(* given) and the routes Match finds for an alert.                         *)
(*                                                                         *)
(* The nodes are numbered so that a parent comes before its children and   *)
(* siblings are in order.  A node's matchers are the alerts they match.    *)
(***************************************************************************)
EXTENDS Integers, SequencesExt, TLC

CONSTANTS
  RouteFiles,       \* the routing parts of configuration files
  RouteAlert,       \* label sets of alerts
  DefaultOpts       \* DefaultRouteOpts

VARIABLES
  rfile,            \* the file being read
  rstage,           \* "check", "rejected", "checked" or "built"
  tree              \* the options and the index of every route

routeVars == <<rfile, rstage, tree>>

Nodes == DOMAIN rfile.route
Node(n) == rfile.route[n]
ChildrenOf(n) == SelectSeq([i \in Nodes |-> i], LAMBDA c : Node(c).parent = n)

Distinct(names) == \A i, j \in DOMAIN names : names[i] = names[j] => i = j

-----------------------------------------------------------------------------
\* Receivers have a name, and each its own.
ReceiversNamed == Distinct(rfile.receivers) /\ \A r \in Range(rfile.receivers) : r # ""

\* The root route takes every alert at every time, and names a receiver.
RootTakesAll ==
  LET root == Node(1)
  IN  /\ root.receiver # "" /\ root.bare
      /\ root.mute = {} /\ root.active = {} /\ ~root.continue

\* checkReceiver visits every route below r.
RECURSIVE checkReceiver(_)
checkReceiver(r) ==
  /\ \A c \in Range(ChildrenOf(r)) : checkReceiver(c)
  /\ Node(r).receiver # "" => Node(r).receiver \in Range(rfile.receivers)

IntervalNames == rfile.mutes \o rfile.times

RECURSIVE checkTimeInterval(_)
checkTimeInterval(r) ==
  /\ \A c \in Range(ChildrenOf(r)) : checkTimeInterval(c)
  /\ Node(r).active \cup Node(r).mute \subseteq Range(IntervalNames)

\* Route.UnmarshalYAML: intervals of zero, and "..." beside labels, are refused.
RouteDecodes(r) ==
  /\ Node(r).group.all => Node(r).group.labels = {}
  /\ Node(r).interval # 0

CheckRoutes ==
  /\ rstage = "check"
  /\ rstage' = IF /\ \A n \in Nodes : RouteDecodes(n)
                  /\ ReceiversNamed /\ RootTakesAll /\ checkReceiver(1)
                  /\ Distinct(IntervalNames) /\ checkTimeInterval(1)
                 THEN "checked" ELSE "rejected"
  /\ UNCHANGED <<rfile, tree>>

-----------------------------------------------------------------------------

\* A route's options: its parent's, overwritten by those it sets itself.  The
\* time intervals are its own only.  group_by is given when it is a list of
\* labels, which may be empty; "..." alone leaves the list nil.
RouteOpts(node, opts) ==
  [receiver |-> IF node.receiver # "" THEN node.receiver ELSE opts.receiver,
   groupBy  |-> IF node.group.given THEN node.group.labels ELSE opts.groupBy,
   groupByAll |-> IF node.group.given THEN FALSE ELSE opts.groupByAll \/ node.group.all,
   interval |-> IF node.interval # -1 THEN node.interval ELSE opts.interval,
   labels   |-> opts.labels \cup node.labels,
   mute     |-> node.mute,
   active   |-> node.active]

\* Mutant: a route takes its index before its children.
RECURSIVE newRouteFirst(_, _, _)
newRouteFirst(n, opts, made) ==
  LET mine == RouteOpts(Node(n), opts)
      below == FoldLeft(LAMBDA m, c : newRouteFirst(c, mine, m),
                        [made EXCEPT !.counter = @ + 1], ChildrenOf(n))
  IN  [opts |-> (n :> mine) @@ below.opts,
       idx |-> (n :> made.counter) @@ below.idx,
       counter |-> below.counter]

\* Children are built, and counted, before their parent gets its index.
RECURSIVE newRoute(_, _, _)
newRoute(n, opts, made) ==
  LET mine == RouteOpts(Node(n), opts)
      below == FoldLeft(LAMBDA m, c : newRoute(c, mine, m), made, ChildrenOf(n))
  IN  [opts |-> (n :> mine) @@ below.opts,
       idx |-> (n :> below.counter) @@ below.idx,
       counter |-> below.counter + 1]

NewRoute ==
  /\ rstage = "checked"
  /\ tree' = newRoute(1, DefaultOpts, [opts |-> <<>>, idx |-> <<>>, counter |-> 0])
  /\ rstage' = "built"
  /\ UNCHANGED rfile

Matches(n, l) == Node(n).bare \/ l \in Node(n).match

\* Mutant: a match always ends the search.
StopsAlways(c, m) == m # <<>>

\* Whether the matches m of child c end the search among its siblings.
Stops(c, m) == m # <<>> /\ ~Node(c).continue

\* Depth first, left to right; a child that matches ends the search among its
\* siblings unless it continues; a route none of whose children match is the
\* match itself.
RECURSIVE Match(_, _)
Match(r, l) ==
  LET next(found, c) ==
        IF found.stop THEN found
        ELSE LET m == Match(c, l)
             IN  [all |-> found.all \o m, stop |-> Stops(c, m)]
      all == FoldLeft(next, [all |-> <<>>, stop |-> FALSE], ChildrenOf(r)).all
  IN  IF ~Matches(r, l) THEN <<>> ELSE IF all = <<>> THEN <<r>> ELSE all

RouteInit ==
  /\ rfile \in RouteFiles
  /\ rstage = "check"
  /\ tree = [opts |-> <<>>, idx |-> <<>>, counter |-> 0]

RouteNext == CheckRoutes \/ NewRoute

-----------------------------------------------------------------------------
\* The routes from the root to n.
PathTo(n) ==
  LET up[k \in Nodes] == IF k = 1 THEN {1} ELSE {k} \cup up[Node(k).parent] IN up[n]

RoutesBuilt == rstage = "built"

\* Every alert is handled by some route, and each route that handles it names a
\* receiver and time intervals that exist: the dispatcher looks both up without
\* a test.
EveryAlertRouted ==
  RoutesBuilt => \A l \in RouteAlert :
    /\ Match(1, l) # <<>>
    /\ \A r \in Range(Match(1, l)) :
         /\ tree.opts[r].receiver \in Range(rfile.receivers)
         /\ tree.opts[r].mute \cup tree.opts[r].active \subseteq Range(IntervalNames)

\* An alert goes to the routes it should: those it matches together with all
\* routes above them, below no route where an earlier sibling took it without
\* continuing, and none of whose children it matches.  No route gets it twice.
MatchedAsConfigured ==
  RoutesBuilt => \A l \in RouteAlert :
    LET taken(k) == \E s \in Nodes : /\ s < k /\ s # 1 /\ Node(s).parent = Node(k).parent
                                     /\ Matches(s, l) /\ ~Node(s).continue
        reached(n) == \A k \in PathTo(n) : Matches(k, l) /\ (k # 1 => ~taken(k))
        last(n) == \A c \in Nodes : Node(c).parent = n => ~Matches(c, l)
    IN  /\ Range(Match(1, l)) = {n \in Nodes : reached(n) /\ last(n)}
        /\ Distinct(Match(1, l))

\* The indices of the routes are 0 to the root's, each given once: the
\* dispatcher keeps the groups of a route in a slice of that length.
IndicesFillSlice ==
  RoutesBuilt => /\ {tree.idx[n] : n \in Nodes} = 0..tree.idx[1]
                 /\ \A n, m \in Nodes : tree.idx[n] = tree.idx[m] => n = m

\* How a route groups its alerts is decided by the nearest route, on the way up,
\* that says so: by all labels if that one says "...", else by the labels it
\* lists, and no setting further up shines through.
NearestGroupingWins ==
  RoutesBuilt => \A n \in Nodes :
    LET says == {k \in PathTo(n) : Node(k).group.given \/ Node(k).group.all}
        nearest == CHOOSE k \in says : \A j \in says : j <= k
    IN  IF says = {} THEN tree.opts[n].groupBy = DefaultOpts.groupBy /\ ~tree.opts[n].groupByAll
        ELSE IF Node(nearest).group.all THEN tree.opts[n].groupByAll
        ELSE ~tree.opts[n].groupByAll /\ tree.opts[n].groupBy = Node(nearest).group.labels
=============================================================================

-------------------------------- MODULE Api --------------------------------
(***************************************************************************)
(* The HTTP API: api/api.go (limit of concurrent GETs, timeout, reloads)    *)
(* and the handlers of api/v2/api.go, on top of the generated code of       *)
(* RestApi.  A request is served by a goroutine that outlives its timeout:  *)
(* http.TimeoutHandler answers 503 and lets the handler run on.             *)
(*                                                                          *)
(* Handlers are cut where they release a lock.  Alerts are names; a silence *)
(* has a matcher, a start and an end.                                       *)
(***************************************************************************)
EXTENDS ApiCompat

CONSTANTS Requests,      \* requests that are served at the same time
          Limit,         \* capacity of inFlightSem
          Gens,          \* configurations, 1 is the first
          Ends,          \* the last moment of the model
          MaxSilences,   \* limit of the silences that are stored
          Choices(_)     \* the requests of an operation, as they are on the wire

ASSUME ApiAssumption == IsFiniteSet(Requests) /\ Limit \in Nat /\ Gens \subseteq Nat

VARIABLES api,     \* api.alertmanagerConfig, api.route and api.setAlertStatus
          alerts,  \* the alerts in the provider
          sils,    \* the silences, by id
          now,
          sem,     \* tokens in inFlightSem
          req,     \* the goroutine that serves a request
          told,    \* auxiliary: ids in answers that reached a client
          ended    \* auxiliary: ids of silences that were expired at some time

\* A request: its operation, what is on the wire and what was bound; auxiliary: the
\* configurations at its start and those it saw, the ids its client knew, what it changed.
Idle == [op |-> Nil, q |-> Nil, p |-> Nil, pc |-> "idle", slot |-> FALSE, late |-> FALSE, code |-> 0,
         payload |-> Nil, changed |-> FALSE, since |-> 0, seen |-> {}, known |-> {}]

apiVars == <<api, alerts, sils, now, sem, req, told, ended>>

-----------------------------------------------------------------------------
(* Silences: silence.Set and silence.Expire, see module Silences. *)

getState(s) == IF now < s.startsAt THEN "pending" ELSE IF now > s.endsAt THEN "expired" ELSE "active"

canUpdate(a, b) ==
  /\ a.matcherSets = b.matcherSets
  /\ \/ getState(a) = "active" /\ a.startsAt = b.startsAt /\ b.endsAt >= now
     \/ getState(a) = "pending" /\ b.startsAt >= now

Expired(s) == [s EXCEPT !.startsAt = IF @ > now THEN now ELSE @, !.endsAt = IF @ > now THEN now ELSE @]

Content(b) == Restricted(PostableSilenceToProto(b), {"matcherSets", "startsAt", "endsAt"})

\* The id of a silence that its client has not posted before.
NoId == ""

\* The stored silences after Set, and the id it returns; a new id is random.
\* Nil stands for an error.
Set(b) ==
  LET s == Content(b)
      known == b.id \in DOMAIN sils
      new == CHOOSE u \in UUIDs : u \notin DOMAIN sils \cup told \cup ended
      started == [s EXCEPT !.startsAt = IF @ < now THEN now ELSE @]
      old == IF known THEN [sils EXCEPT ![b.id] = Expired(@)] ELSE sils IN
  CASE b.id # NoId /\ ~known -> [code |-> 404, id |-> Nil, sils |-> sils]
    [] known /\ canUpdate(sils[b.id], s) ->
         [code |-> 200, id |-> b.id, sils |-> [sils EXCEPT ![b.id] = s]]
    [] ~(known /\ canUpdate(sils[b.id], s)) /\ (b.id = NoId \/ known) /\ Cardinality(DOMAIN sils) + 1 > MaxSilences ->
         [code |-> 400, id |-> Nil, sils |-> sils]
    [] OTHER ->
         [code |-> 200, id |-> new,
          sils |-> [u \in DOMAIN sils \cup {new} |-> IF u = new THEN started ELSE old[u]]]

\* A bound of the model: there is an id left for every request under way.
IdsLeft == Cardinality(UUIDs \ (DOMAIN sils \cup told \cup ended))
             > Cardinality({r \in Requests : req[r].op = "postSilences"})

-----------------------------------------------------------------------------
(* Requests. *)

ApiInit ==
  /\ api = [config |-> 1, route |-> 1, status |-> 1]
  /\ alerts = {} /\ sils = <<>> /\ now = 0
  /\ sem = 0
  /\ req = [r \in Requests |-> Idle]
  /\ told = {} /\ ended = {}

stores == <<alerts, sils>>
world == <<api, now>>
aux == <<told, ended>>

\* A client sends a request; the mux gives it to limitHandler.
Arrive(r, ops) ==
  /\ req[r].pc = "idle"
  /\ \E op \in ops : \E q \in Choices(op) :
       /\ op = "postSilences" => IdsLeft
       /\ req' = [req EXCEPT ![r] =
            [Idle EXCEPT !.op = HandlerFor(Client(op).method, Client(op).path), !.q = q, !.pc = "limit",
                         !.since = api.config, !.known = IF op = "postSilences" THEN {} ELSE told]]
  /\ UNCHANGED <<sem>> /\ UNCHANGED stores /\ UNCHANGED world /\ UNCHANGED aux

At(r, pc) == req[r].pc = pc
Handles(r, op, pc) == At(r, pc) /\ req[r].op = op

\* The goroutine goes on, or has its answer.
Go(r, pc) == req' = [req EXCEPT ![r].pc = pc]
Answer(r, code, payload) ==
  req' = [req EXCEPT ![r].pc = "answer", ![r].code = code, ![r].payload = payload]

\* Only GETs are limited.
concurrencyLimitHandler(r) ==
  /\ At(r, "limit")
  /\ IF Client(req[r].op).method = "GET"
       THEN IF sem < Limit
              THEN sem' = sem + 1 /\ req' = [req EXCEPT ![r].pc = "bind", ![r].slot = TRUE]
              ELSE UNCHANGED sem /\ Answer(r, 503, Nil)
       ELSE UNCHANGED sem /\ Go(r, "bind")
  /\ UNCHANGED stores /\ UNCHANGED world /\ UNCHANGED aux

\* ServeHTTP of an operation: parameters that cannot be bound are answered 422.
ServeHTTP(r) ==
  /\ At(r, "bind")
  /\ LET p == BindRequest(req[r].op, req[r].q) IN
     req' = IF Bound(p) THEN [req EXCEPT ![r].pc = "handle", ![r].p = p, ![r].q = Nil]
            ELSE [req EXCEPT ![r].pc = "answer", ![r].code = 422]
  /\ UNCHANGED <<sem>> /\ UNCHANGED stores /\ UNCHANGED world /\ UNCHANGED aux

\* TimeoutHandler answers in place of the handler.
TimeoutHandler(r) ==
  /\ req[r].pc # "idle" /\ ~req[r].late
  /\ req' = [req EXCEPT ![r].late = TRUE, ![r].known = {}]
  /\ UNCHANGED <<sem>> /\ UNCHANGED stores /\ UNCHANGED world /\ UNCHANGED aux

\* The handler returns: its answer is written, unless the timeout came first,
\* and the slot is free.  The client learns the id of the silence it posted.
\* Mutant: after a timeout nobody takes the token back.
ReturnLate(r) ==
  /\ At(r, "answer")
  /\ sem' = IF req[r].slot /\ ~req[r].late THEN sem - 1 ELSE sem
  /\ told' = told \cup
       (IF ~req[r].late /\ req[r].op = "postSilences" /\ req[r].code = 200 THEN {req[r].payload} ELSE {})
  /\ req' = [req EXCEPT ![r] = Idle]
  /\ UNCHANGED ended /\ UNCHANGED stores /\ UNCHANGED world

Return(r) ==
  /\ At(r, "answer")
  /\ sem' = IF req[r].slot THEN sem - 1 ELSE sem
  /\ told' = told \cup
       (IF ~req[r].late /\ req[r].op = "postSilences" /\ req[r].code = 200 THEN {req[r].payload} ELSE {})
  /\ req' = [req EXCEPT ![r] = Idle]
  /\ UNCHANGED ended /\ UNCHANGED stores /\ UNCHANGED world

-----------------------------------------------------------------------------
(* Handlers.  Each step reads the configuration in one section of api.mtx.  *)

\* parseFilter and regexp.Compile fail on the text "?".
Parses(p, names) == \A n \in names : p[n] # "?" /\ p[n] # <<"?">>

\* A section of the handler saw these parts of the configuration.
Saw(r, pc, parts) ==
  req' = [req EXCEPT ![r].pc = pc, ![r].seen = @ \cup {api[f] : f \in parts}]

\* parseFilter and receiver_matchers first; the rest under the lock.
getReceiversHandler(r) ==
  /\ Handles(r, "getReceivers", "handle")
  /\ IF Parses(req[r].p, {"receiver_matchers"})
       THEN req' = [req EXCEPT ![r].pc = "answer", ![r].code = 200, ![r].payload = api.config,
                               ![r].seen = {api.config}]
       ELSE Answer(r, 400, Nil)
  /\ UNCHANGED <<sem>> /\ UNCHANGED stores /\ UNCHANGED world /\ UNCHANGED aux

getStatusHandler(r) ==
  /\ Handles(r, "getStatus", "handle")
  /\ req' = [req EXCEPT ![r].pc = "answer", ![r].code = 200, ![r].payload = api.config,
                        ![r].seen = {api.config}]
  /\ UNCHANGED <<sem>> /\ UNCHANGED stores /\ UNCHANGED world /\ UNCHANGED aux

\* The parameters, then GetPending, then alertFilter takes setAlertStatus.
getAlertsHandler(r) ==
  /\ Handles(r, "getAlerts", "handle")
  /\ IF Parses(req[r].p, {"filter", "receiver", "receiver_matchers"})
       THEN Saw(r, "routes", {"status"})
       ELSE Answer(r, 400, Nil)
  /\ UNCHANGED <<sem>> /\ UNCHANGED stores /\ UNCHANGED world /\ UNCHANGED aux

\* The loop over the alerts, under the lock; it stops when the context ends.
\* A group of receivers is named after the configuration it comes from.
getAlertsLoop(r) ==
  /\ Handles(r, "getAlerts", "routes")
  /\ \/ req' = [req EXCEPT ![r].pc = "answer", ![r].code = 200,
                           ![r].payload = [alerts |-> alerts, receivers |-> api.route, labels |-> api.config],
                           ![r].seen = @ \cup {api.route, api.config}]
     \/ req[r].late /\ Answer(r, 500, Nil)
  /\ UNCHANGED <<sem>> /\ UNCHANGED stores /\ UNCHANGED world /\ UNCHANGED aux

\* The labels of the receivers, and alertFilter.
getAlertGroupsHandler(r) ==
  /\ Handles(r, "getAlertGroups", "handle")
  /\ IF Parses(req[r].p, {"filter", "receiver", "receiver_matchers"})
       THEN Saw(r, "groups", {"config"})
       ELSE Answer(r, 400, Nil)
  /\ UNCHANGED <<sem>> /\ UNCHANGED stores /\ UNCHANGED world /\ UNCHANGED aux

\* The groups of the dispatcher, filtered; they may fail when the context ends.
getAlertGroupsGroups(r) ==
  /\ Handles(r, "getAlertGroups", "groups")
  /\ \/ Saw(r, "predict", {"status"})
     \/ req[r].late /\ Answer(r, 500, Nil)
  /\ UNCHANGED <<sem>> /\ UNCHANGED stores /\ UNCHANGED world /\ UNCHANGED aux

\* setAlertStatus again, to predict the status of every alert.
getAlertGroupsPredict(r) ==
  /\ Handles(r, "getAlertGroups", "predict")
  /\ req' = [req EXCEPT ![r].pc = "answer", ![r].code = 200, ![r].payload = alerts,
                        ![r].seen = @ \cup {api.status}]
  /\ UNCHANGED <<sem>> /\ UNCHANGED stores /\ UNCHANGED world /\ UNCHANGED aux

\* removeEmptyLabels and Validate: an alert without labels is not valid.
ValidAlerts(body) == {i \in 1..Len(body) : removeEmptyLabels(body[i].labels) # {}}

\* resolveTimeout is read under the lock.
postAlertsHandler(r) ==
  /\ Handles(r, "postAlerts", "handle")
  /\ Saw(r, "put", {"config"})
  /\ UNCHANGED <<sem>> /\ UNCHANGED stores /\ UNCHANGED world /\ UNCHANGED aux

\* All valid alerts are put, whatever becomes of the others.
postAlertsPut(r) ==
  /\ Handles(r, "postAlerts", "put")
  /\ LET body == req[r].p.body
         valid == ValidAlerts(body) IN
     /\ alerts' = alerts \cup {removeEmptyLabels(body[i].labels) : i \in valid}
     /\ req' = [req EXCEPT ![r].pc = "answer", ![r].code = IF valid = 1..Len(body) THEN 200 ELSE 400,
                           ![r].changed = alerts' # alerts]
  /\ UNCHANGED <<sem, sils>> /\ UNCHANGED world /\ UNCHANGED aux

\* Query takes the silences of the states that are asked for.  (The states in
\* the answer are computed later, see CurrentState.)
getSilencesHandler(r) ==
  /\ Handles(r, "getSilences", "handle")
  /\ LET p == req[r].p
         states == {s \in {"active", "expired", "pending"} : p[s]} IN
     IF Parses(p, {"filter"})
       THEN Answer(r, 200, {u \in DOMAIN sils : getState(sils[u]) \in states})
       ELSE Answer(r, 400, Nil)
  /\ UNCHANGED <<sem>> /\ UNCHANGED stores /\ UNCHANGED world /\ UNCHANGED aux

getSilenceHandler(r) ==
  /\ Handles(r, "getSilence", "handle")
  /\ LET u == req[r].p.silenceID IN
     IF u \in DOMAIN sils THEN Answer(r, 200, u) ELSE Answer(r, 404, Nil)
  /\ UNCHANGED <<sem>> /\ UNCHANGED stores /\ UNCHANGED world /\ UNCHANGED aux

deleteSilenceHandler(r) ==
  /\ Handles(r, "deleteSilence", "handle")
  /\ LET u == req[r].p.silenceID IN
     IF u \in DOMAIN sils
       THEN /\ sils' = [sils EXCEPT ![u] = Expired(@)]
            /\ req' = [req EXCEPT ![r].pc = "answer", ![r].code = 200, ![r].changed = sils' # sils]
       ELSE Answer(r, 404, Nil) /\ UNCHANGED sils
  /\ UNCHANGED <<sem, alerts>> /\ UNCHANGED world /\ UNCHANGED aux

\* The conversion and the checks of the dates.
postSilencesHandler(r) ==
  /\ Handles(r, "postSilences", "handle")
  /\ LET b == req[r].p.body IN
     IF b.startsAt >= b.endsAt \/ b.endsAt < now THEN Answer(r, 400, Nil) ELSE Go(r, "set")
  /\ UNCHANGED <<sem>> /\ UNCHANGED stores /\ UNCHANGED world /\ UNCHANGED aux

\* A silence that cannot be updated is replaced by a new one.
postSilencesSet(r) ==
  /\ Handles(r, "postSilences", "set")
  /\ LET b == req[r].p.body
         res == Set(b) IN
     /\ sils' = res.sils
     /\ ended' = ended \cup {u \in DOMAIN sils' : now > sils'[u].endsAt}
     /\ req' = [req EXCEPT ![r].pc = "answer", ![r].code = res.code, ![r].payload = res.id, ![r].p = Nil,
                           ![r].changed = sils' # sils]
  /\ UNCHANGED <<sem, alerts, told>> /\ UNCHANGED world

-----------------------------------------------------------------------------
(* The rest of the process. *)

\* Mutant: the routes are not replaced.
UpdateConfig ==
  /\ api.config + 1 \in Gens
  /\ api' = [api EXCEPT !.config = @ + 1, !.status = @ + 1]
  /\ UNCHANGED <<now, sem, req>> /\ UNCHANGED stores /\ UNCHANGED aux

\* A reload calls Update, which replaces everything under the lock.
Update ==
  /\ api.config + 1 \in Gens
  /\ api' = [f \in DOMAIN api |-> api.config + 1]
  /\ UNCHANGED <<now, sem, req>> /\ UNCHANGED stores /\ UNCHANGED aux

TimePasses ==
  /\ now < Ends
  /\ now' = now + 1
  /\ ended' = ended \cup {u \in DOMAIN sils : now' > sils[u].endsAt}
  /\ UNCHANGED <<api, sem, req, told>> /\ UNCHANGED stores

\* Mutant: what is not active is forgotten.
CollectGarbageInactive ==
  /\ \E u \in DOMAIN sils : getState(sils[u]) # "active" /\ sils' = [v \in DOMAIN sils \ {u} |-> sils[v]]
  /\ UNCHANGED <<sem, req, alerts>> /\ UNCHANGED world /\ UNCHANGED aux

\* Maintenance forgets expired silences.
CollectGarbage ==
  /\ \E u \in DOMAIN sils : getState(sils[u]) = "expired" /\ sils' = [v \in DOMAIN sils \ {u} |-> sils[v]]
  /\ UNCHANGED <<sem, req, alerts>> /\ UNCHANGED world /\ UNCHANGED aux

\* What the goroutine of a request does by itself.
Serve(r) ==
  \/ concurrencyLimitHandler(r) \/ ServeHTTP(r) \/ Return(r)
  \/ getReceiversHandler(r) \/ getStatusHandler(r) \/ getAlertsHandler(r) \/ getAlertsLoop(r)
  \/ getAlertGroupsHandler(r) \/ getAlertGroupsGroups(r) \/ getAlertGroupsPredict(r)
  \/ postAlertsHandler(r) \/ postAlertsPut(r) \/ getSilencesHandler(r) \/ getSilenceHandler(r)
  \/ deleteSilenceHandler(r) \/ postSilencesHandler(r) \/ postSilencesSet(r)

RequestNext(ops) == \E r \in Requests : Arrive(r, ops) \/ Serve(r) \/ TimeoutHandler(r)

-----------------------------------------------------------------------------
(* Properties. *)

\* Type invariant.
ApiTypeOK ==
  /\ \A f \in DOMAIN api : api[f] \in Gens
  /\ DOMAIN sils \subseteq UUIDs /\ told \subseteq UUIDs /\ ended \subseteq UUIDs

\* A token is in the semaphore for every request that is served with one, so
\* that the limit holds and no token is lost, also after timeouts.
ApiSlotsOwned ==
  /\ sem = Cardinality({r \in Requests : req[r].slot})
  /\ sem <= Limit

\* What a handler reads in one section of the lock is of one configuration, and
\* no answer shows a configuration that had been replaced when the request came.
OneConfiguration ==
  /\ \A r \in Requests : \A g \in req[r].seen : g >= req[r].since
  /\ \A r \in Requests : Handles(r, "getAlerts", "answer") /\ req[r].code = 200 =>
       req[r].payload.receivers = req[r].payload.labels

\* A request that is refused has changed nothing, with one exception: of the
\* alerts in a POST the valid ones are taken.
RefusedChangesNothing ==
  \A r \in Requests : At(r, "answer") /\ req[r].code \in {400, 404, 422, 503} /\ req[r].changed =>
    req[r].op = "postAlerts" /\ req[r].code = 400

\* Every valid alert of a POST is stored once the answer is known, also when
\* other alerts of the request make it a 400.
ValidAlertsAreTaken ==
  \A r \in Requests : Handles(r, "postAlerts", "answer") /\ req[r].code \in {200, 400} =>
    \A i \in ValidAlerts(req[r].p.body) : removeEmptyLabels(req[r].p.body[i].labels) \in alerts

\* A silence whose id reached a client before a request came is not missing for
\* that request, and not in a list of all silences, unless it had ended: an
\* update keeps the id or ends the silence.
ToldIsFound ==
  \A r \in Requests : At(r, "answer") =>
    /\ req[r].op \in {"getSilence", "deleteSilence"} /\ req[r].code = 404 /\ req[r].p.silenceID \in req[r].known =>
         req[r].p.silenceID \in ended
    /\ req[r].op = "getSilences" /\ req[r].code = 200 /\ (\A s \in {"active", "expired", "pending"} : req[r].p[s]) =>
         req[r].known \subseteq req[r].payload \cup ended
=============================================================================

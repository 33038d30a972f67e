------------------------------- MODULE MCApi -------------------------------
(***************************************************************************)
(* The API for TLC.  Four parts, chosen by Init: what travels between a     *)
(* client and the handlers (RestApi, ApiCompat), requests about alerts and  *)
(* about silences that are served at the same time (Api), and the Connect   *)
(* API (Connect).                                                           *)
(***************************************************************************)
EXTENDS Api

CONSTANTS Start, Unary, Streams, Nobody

ASSUME ConnectAssumption ==
  Unary \in Nat /\ Streams \in Nat /\ Nobody \notin {"exhausted", "deadline", "canceled"}

VARIABLES part, q, call, unary, streams, csem, snap, config, view, stuck

C == INSTANCE Connect WITH Calls <- Requests, Configs <- Gens, Views <- Gens, sem <- csem

connectVars == <<call, unary, streams, csem, snap, config, view, stuck>>
vars == <<part, q, apiVars, connectVars>>

\* Requests of the calls part: a choice of the parameters of every operation.
matcher(v) == [name |-> "n", value |-> v, isRegex |-> FALSE, isEqual |-> Nil]
label(n, v) == [name |-> n, value |-> v]
postableAlert(ls) == [labels |-> ls, annotations |-> Nil, startsAt |-> 0, endsAt |-> 0, generatorURL |-> ""]
postableSilence(id, v, start, end) ==
  [id |-> id, annotations |-> Nil, comment |-> "c", createdBy |-> "me", startsAt |-> start, endsAt |-> end,
   matchers |-> <<matcher(v)>>]

MCOptions(op) ==
  CASE op \in {"getAlerts", "getAlertGroups", "getReceivers"} ->
         {[ClientDefaults(op) EXCEPT !["receiver_matchers"] = s] : s \in {<<>>, <<"?">>}}
    [] op = "getStatus" -> {ClientDefaults(op)}
    [] op = "getSilences" -> {ClientDefaults(op)}
    [] op = "getSilence" -> {[silenceID |-> u] : u \in {"u1", "?"}}
    [] op = "deleteSilence" -> {[silenceID |-> "u1"]}
    [] op = "postAlerts" ->
         {[body |-> b] : b \in {<<postableAlert({label("n", "b")})>>,
                                <<postableAlert({label("n", "")}), postableAlert({label("n", "b")})>>,
                                <<postableAlert(Nil)>>}}
    [] op = "postSilences" ->
         {[body |-> b] : b \in {postableSilence("", "a", 1, 2),
                                postableSilence("u1", "a", 0, 2), postableSilence("u1", "b", 0, 2),
                                postableSilence("", "a", 1, 1)}}
MCChoices(op) == {WriteToRequest(op, o) : o \in MCOptions(op)}

-----------------------------------------------------------------------------
(* Inputs of the wire part. *)

Flags == {Nil, TRUE, FALSE}
Texts == {Nil, "", "r"}
Multis == {<<>>, <<"a">>, <<"", "a">>}
Bodies == {"", "u1"} \X {Nil, {}, {label("n", "v")}} \X {Nil, TRUE, FALSE} \X {TRUE, FALSE} \X {1, 2}

Widened(op) ==
  LET flags == DOMAIN SwaggerSpec(op).flags
      text == SwaggerSpec(op).others \cap {"receiver"}
      multis == SwaggerSpec(op).others \cap {"filter", "receiver_matchers"} IN
  {fl @@ tx @@ mu : fl \in [flags -> Flags], tx \in [text -> Texts], mu \in [multis -> Multis]}
Inputs(op) == IF op \in {"getAlerts", "getAlertGroups", "getSilences", "getReceivers", "getStatus"}
                THEN Widened(op) ELSE MCOptions(op)

SilenceInputs ==
  {[id |-> b[1], annotations |-> b[2], comment |-> "c", createdBy |-> "me", startsAt |-> 1, endsAt |-> 3,
    matchers |-> [i \in 1..b[5] |-> [name |-> "n", value |-> IF i = 1 THEN "a" ELSE "",
                                     isEqual |-> b[3], isRegex |-> (i = 1) = b[4]]]] : b \in Bodies}

Shown == [state : {"active", "pending", "expired"}, startsAt : 1..2, endsAt : 2..3]
Filters == {[name |-> n, type |-> t, value |-> v] :
              n \in {"n", "o"}, t \in {"=", "!=", "=~", "!~"}, v \in {"", "a", "any"}}
LabelSets == [{} -> {"a"}] \cup [{"n"} -> {"a", "b"}] \cup [{"n", "o"} -> {"a", "b"}]

Answers == UNION {{[op |-> op, by |-> op, code |-> c] : c \in DOMAIN SwaggerSpec(op).answers} : op \in Ops}
             \cup {[op |-> "getAlerts", by |-> "getAlertGroups", code |-> 400]}

\* A valid object of every model, its validation and its schema.
exampleMatcher == [name |-> "n", value |-> "v", isRegex |-> FALSE, isEqual |-> TRUE]
exampleSilence == [postableSilence("u1", "a", 1, 2) EXCEPT !.annotations = {}, !.matchers = <<exampleMatcher>>]
exampleStatus == [state |-> "active", silencedBy |-> <<>>, inhibitedBy |-> <<>>, mutedBy |-> <<>>]
exampleAlert ==
  [labels |-> {}, generatorURL |-> "", annotations |-> {}, startsAt |-> 1, endsAt |-> 1, updatedAt |-> 1,
   fingerprint |-> "f", receivers |-> <<[name |-> "r"]>>, status |-> exampleStatus]
exampleVersion == [f \in {"branch", "buildDate", "buildUser", "goVersion", "revision", "version"} |-> f]
exampleCluster == [name |-> "me", status |-> "ready", peers |-> <<[name |-> 1, address |-> "a"]>>]

Models ==
  ("alertGroup" :> [labels |-> {}, routeLabels |-> {}, receiver |-> [name |-> "r"], alerts |-> <<exampleAlert>>])
    @@ ("alertStatus" :> exampleStatus) @@ ("alertmanagerConfig" :> [original |-> "c"])
    @@ ("alertmanagerStatus" :> [cluster |-> exampleCluster, versionInfo |-> exampleVersion,
                                 config |-> [original |-> "c"], uptime |-> 1])
    @@ ("clusterStatus" :> exampleCluster) @@ ("gettableAlert" :> exampleAlert) @@ ("matcher" :> exampleMatcher)
    @@ ("peerStatus" :> [name |-> 1, address |-> "a"]) @@ ("postableSilence" :> exampleSilence)
    @@ ("postableAlert" :> Restricted(exampleAlert, {"labels", "generatorURL", "annotations", "startsAt", "endsAt"}))
    @@ ("receiver" :> [name |-> "r", labels |-> {}]) @@ ("receiverReference" :> [name |-> "r"])
    @@ ("silenceStatus" :> [state |-> "active"]) @@ ("versionInfo" :> exampleVersion)
Validate(model, m) ==
  CASE model = "alertGroup" -> alertGroupsValidate(<<m>>)
    [] model = "alertStatus" -> alertStatusValidate(m)
    [] model = "alertmanagerConfig" -> alertmanagerConfigValidate(m)
    [] model = "alertmanagerStatus" -> alertmanagerStatusValidate(m)
    [] model = "clusterStatus" -> clusterStatusValidate(m)
    [] model = "gettableAlert" -> gettableAlertsValidate(<<m>>)
    [] model = "matcher" -> matchersValidate(<<m>>)
    [] model = "peerStatus" -> peerStatusValidate(m)
    [] model = "postableAlert" -> postableAlertsValidate(<<m>>)
    [] model = "postableSilence" -> postableSilenceValidate(m)
    [] model = "receiver" -> receiverValidate(m)
    [] model = "receiverReference" -> receiverReferenceValidate(m)
    [] model = "silenceStatus" -> silenceStatusValidate(m)
    [] model = "versionInfo" -> versionInfoValidate(m)
Schemas == schemaAtoC @@ schemaGtoP @@ schemaPtoV

\* An object without a field: Nil, or what JSON leaves in a field that is no pointer.
Without(m, f) == [m EXCEPT ![f] = IF f = "generatorURL" THEN "" ELSE Nil]

ChooseModel ==
  \E model \in DOMAIN Models : \E f \in DOMAIN Models[model] : q' = [kind |-> "model", model |-> model, f |-> f]
ChooseParams == \E op \in Ops : \E o \in Inputs(op) : q' = [kind |-> "params", op |-> op, o |-> o]
ChooseAnswer ==
  \E a \in Answers : \E payload \in {Nil, <<>>, <<"x">>} : q' = [kind |-> "answer", a |-> a, payload |-> payload]
ChooseSilence == \E s \in SilenceInputs : q' = [kind |-> "silence", s |-> s]
ChooseAlert ==
  \E ls \in LabelSets : \E f1, f2 \in Filters : \E by \in {<<>>, <<"s">>} \X {<<>>, <<"i">>} : \E ends \in {0, 1, 2} :
    q' = [kind |-> "alert", labels |-> ls, filters |-> {f1, f2}, by |-> by, endsAt |-> ends]
ChooseSilences == \E a, b, c \in Shown : q' = [kind |-> "silences", three |-> <<a, b, c>>]

Wire ==
  /\ part = "wire"
  /\ \/ q = Start /\ (ChooseModel \/ ChooseParams \/ ChooseAnswer \/ ChooseSilence \/ ChooseAlert \/ ChooseSilences)
     \/ q # Start /\ q' = Start
  /\ UNCHANGED <<part, apiVars, connectVars>>

-----------------------------------------------------------------------------

Init ==
  /\ part \in {"wire", "alerts", "silences", "connect"}
  /\ q = Start
  /\ ApiInit
  /\ C!ConnectInit

\* Requests that read the configuration, and requests that are about silences.
AlertsPart ==
  /\ part = "alerts"
  /\ RequestNext({"getAlerts", "postAlerts", "getAlertGroups", "getReceivers", "getStatus"}) \/ Update
  /\ UNCHANGED <<part, q, connectVars>>
SilencesPart ==
  /\ part = "silences"
  /\ RequestNext({"getSilence", "deleteSilence", "getSilences", "postSilences"}) \/ TimePasses \/ CollectGarbage
  /\ UNCHANGED <<part, q, connectVars>>
ConnectPart == part = "connect" /\ C!ConnectNext /\ UNCHANGED <<part, q, apiVars>>

Next == Wire \/ AlertsPart \/ SilencesPart \/ ConnectPart

\* The handlers of the Connect API run; nothing is asked of memberlist, which may be stuck.
Fairness ==
  \A c \in Requests : WF_connectVars(part = "connect" /\ C!Handler(c))

Spec == Init /\ [][Next]_vars /\ Fairness

-----------------------------------------------------------------------------
(* Properties of the wire. *)

Is(kind) == q # Start /\ q.kind = kind

\* The parameters a handler sees when a client gives o.
Meant(op, o) ==
  [n \in DOMAIN o |->
    CASE n \in DOMAIN SwaggerSpec(op).flags /\ o[n] = Nil -> SwaggerSpec(op).flags[n]
      [] n = "receiver" /\ o[n] = "" -> Nil
      [] n = "silenceID" /\ o[n] \notin UUIDs -> Bad
      [] OTHER -> o[n]]
NonEmpty(o) ==
  [n \in DOMAIN o |-> IF n \in {"filter", "receiver_matchers"} THEN SelectSeq(o[n], LAMBDA s : s # "") ELSE o[n]]

\* What the generated client writes, the generated server binds: every operation
\* gets the parameters that were given, and the documented default for a flag
\* that was not.  The same holds for the URL builders, which drop empty values.
ParamsArrive ==
  Is("params") /\ q.op \notin {"postAlerts", "postSilences"} =>
    /\ BindRequest(q.op, WriteToRequest(q.op, q.o)) = Meant(q.op, q.o)
    /\ BindRequest(q.op, URL(q.op, q.o)) = Meant(q.op, NonEmpty(q.o))

\* The specification that the server embeds agrees with its code and with the
\* client: the route of every operation leads to its handler, the parameters
\* have the same names and defaults, and the handlers have the same answers.
SpecIsServed ==
  Is("params") =>
    LET spec == SwaggerSpec(q.op) IN
    /\ Client(q.op) = [method |-> spec.method, path |-> spec.path]
    /\ HandlerFor(spec.method, spec.path) = q.op
    /\ DOMAIN ClientDefaults(q.op) = DOMAIN spec.flags \cup spec.others
    /\ \A n \in DOMAIN spec.flags : ClientDefaults(q.op)[n] = spec.flags[n]
    /\ Responses(q.op) = spec.answers

\* Every answer a handler gives is understood by the client, with its payload,
\* and returned as an error unless it is a success;
\* getAlerts answers some bad requests with a type of getAlertGroups.
AnswersArrive ==
  Is("answer") =>
    LET kind == Responses(q.a.by)[q.a.code]
        sent == IF kind = "none" THEN Nil ELSE IF kind = "list" /\ q.payload = Nil THEN <<>> ELSE q.payload IN
    ReadResponse(Reader(q.a.op), WriteResponse(Responses(q.a.by), q.a.code, q.payload))
      = [known |-> TRUE, ok |-> q.a.code = 200, code |-> q.a.code, payload |-> sent]

\* A silence that is posted and then read is the same, through JSON, the type
\* of the store and JSON again; isEqual gets its default, and
\* annotations that are empty are as good as none.
\* The filter made of its matchers finds it.
SilenceRoundTrip ==
  Is("silence") =>
    LET bound == BindRequest("postSilences", WriteToRequest("postSilences", [body |-> q.s])).body
        stored == PostableSilenceToProto(bound) @@ [updatedAt |-> 1]
        shown == gettableSilenceUnmarshal(gettableSilenceMarshal(GettableSilenceFromProto(stored, 2)))
        equal(m) == IF m.isEqual = Nil THEN TRUE ELSE m.isEqual IN
    /\ shown.id = q.s.id /\ shown.status.state = "active"
    /\ shown.annotations = IF q.s.annotations = {} THEN Nil ELSE q.s.annotations
    /\ shown.matchers = [i \in 1..Len(q.s.matchers) |->
                           [q.s.matchers[i] EXCEPT !.isEqual = equal(q.s.matchers[i])]]
    /\ CheckSilenceMatchesFilterLabels(stored,
         {[name |-> m.name, type |-> MatcherType(m), value |-> m.value] : m \in {q.s.matchers[i] : i \in 1..Len(q.s.matchers)}})

\* The models ask for exactly the fields that the embedded specification calls
\* required: an object that lacks one is refused, and no other field is needed.
SchemaIsValidated ==
  Is("model") =>
    /\ Validate(q.model, Models[q.model])
    /\ Validate(q.model, Without(Models[q.model], q.f)) <=> q.f \notin Schemas[q.model]

\* Client, server and embedded specification, which are generated three times from one
\* file, agree on parameters, answers, routes and required fields.
GenerationsAgree == ParamsArrive /\ SpecIsServed /\ AnswersArrive /\ SchemaIsValidated

Source == [labels |-> q.labels, annotations |-> Nil, startsAt |-> 1, endsAt |-> q.endsAt, updatedAt |-> 1,
           generatorURL |-> ""]
Status == predictAlertStatus(q.labels, q.by[1], q.by[2])
Muted == IF q.endsAt = 2 THEN <<"interval">> ELSE Nil

\* Everything the handlers put into an answer satisfies the validation of the
\* models, which required fields and lists that are never null are part of.
\* An alert comes back from its JSON as it was.
ServedIsValid ==
  Is("alert") =>
    LET a == AlertToOpenAPIAlert(Source, Status, <<"r">>, Muted)
        g == [receiver |-> "r", labels |-> q.labels, routeLabels |-> Nil] IN
    /\ gettableAlertsValidate(<<a>>)
    /\ gettableAlertUnmarshal(gettableAlertMarshal(a)) = a
    /\ alertGroupsValidate(<<apiAlertGroup(g, <<a>>)>>)
    /\ a.status.state = "active" => a.status.silencedBy = <<>> /\ a.status.inhibitedBy = <<>> /\ a.status.mutedBy = <<>>
    /\ receiverValidate(configReceiverToAPIReceiver([name |-> "r", labels |-> q.labels]))
    /\ alertmanagerStatusValidate(apiStatus("c", IF q.endsAt = 0 THEN Nil ELSE
         [name |-> 1, status |-> "settling",
          peers |-> <<[name |-> 2, address |-> "b"], [name |-> 1, address |-> "a"]>>]))

\* A reference: every matcher holds of the value of its label, "" without one.
Satisfies(ls, matchers) ==
  \A m \in matchers : Matches(m, IF m.name \in DOMAIN ls THEN ls[m.name] ELSE "")

\* GET /alerts shows an alert exactly when it has not ended, its labels satisfy
\* the filter, and nothing that the client excluded applies to it.
ShownIsAskedFor ==
  Is("alert") =>
    \A silenced, inhibited, active \in BOOLEAN :
      alertFilter(Source, q.filters, silenced, inhibited, active, Status, 2) <=>
        /\ q.endsAt \in {0, 2}
        /\ Satisfies(q.labels, q.filters)
        /\ (q.by[1] # <<>> => silenced) /\ (q.by[2] # <<>> => inhibited)
        /\ q.by = <<<<>>, <<>>>> => active

\* The comparison that SortSilences gives to sort.Slice is a strict weak order.
SilenceOrder ==
  Is("silences") =>
    LET sil(i) == [status |-> [state |-> q.three[i].state], startsAt |-> q.three[i].startsAt, endsAt |-> q.three[i].endsAt]
        less(i, j) == SilenceLess(sil(i), sil(j))
        same(i, j) == ~less(i, j) /\ ~less(j, i) IN
    /\ ~(less(1, 2) /\ less(2, 1)) /\ ~less(1, 1)
    /\ less(1, 2) /\ less(2, 3) => less(1, 3)
    /\ same(1, 2) /\ same(2, 3) => same(1, 3)

\* What the API lists is what is stored: silences and alerts survive their conversions and
\* are valid, those that are shown are those the filters ask for, in an order that is one.
ListsAsStored == SilenceRoundTrip /\ ServedIsValid /\ ShownIsAskedFor /\ SilenceOrder

-----------------------------------------------------------------------------
(* Properties of the other parts, for TLC. *)

\* limitHandler, admission: every slot taken is owned by a request, an RPC or the
\* goroutine it started, and none is lost or given back twice, also after timeouts.
SlotsAreOwned == ApiSlotsOwned /\ C!TokensAreOwned

\* Handlers and RPCs answer from one configuration, which had not been replaced when the
\* request came, and an RPC with its own reading of the cluster.
AnswersAreFresh == OneConfiguration /\ C!AnswersAreFresh

\* What a client is told of its writes is true: a refused request has changed nothing but
\* taken valid alerts, valid alerts are stored, and a silence it was told of is found.
AnswersTellTruth == RefusedChangesNothing /\ ValidAlertsAreTaken /\ ToldIsFound

\* An RPC ends with its context, see Connect.
DeadlineEndsCall == part = "connect" => C!DeadlineEndsCall
=============================================================================

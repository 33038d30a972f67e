------------------------------ MODULE RestApi ------------------------------
(***************************************************************************)
(* API v2 between a client and the handlers: the generated client          *)
(* (api/v2/client), the generated server (api/v2/restapi) and the models   *)
(* (api/v2/models), one group of definitions per operation.                *)
(*                                                                         *)
(* The parameters of an operation are a function from names to values:     *)
(* Nil or a boolean for a flag, Nil or a string for a text, a sequence of  *)
(* strings for a parameter that may be repeated.  A query is a function    *)
(* from names to the sequence of values in the URL.  A body is a record    *)
(* with Nil for what is missing in the JSON.                               *)
(***************************************************************************)
EXTENDS Integers, Sequences, FiniteSets, TLC

CONSTANTS Nil,    \* nil, or a field that is absent
          Bad     \* a raw value that cannot be converted

-----------------------------------------------------------------------------
(* The libraries below the generated code, external. *)

FormatBool(b) == IF b THEN "true" ELSE "false"
ConvertBool(raw) == CASE raw = "true" -> TRUE [] raw = "false" -> FALSE [] OTHER -> Bad
UUIDs == {"u1", "u2", "u3"}
URIs == {"http://g"}

-----------------------------------------------------------------------------
(* WriteToRequest of the client: a flag or a text that is nil, and a text   *)
(* that is empty, are not sent.                                             *)

SendFlag(v) == IF v = Nil THEN <<>> ELSE <<FormatBool(v)>>
SendText(v) == IF v \in {Nil, ""} THEN <<>> ELSE <<v>>

Send(o, flags, texts, multis) ==
  [n \in flags |-> SendFlag(o[n])] @@ [n \in texts |-> SendText(o[n])]
    @@ [n \in multis |-> o[n]]

\* SetDefaults of the client.
Defaults(flags, texts, multis) ==
  [n \in flags |-> TRUE] @@ [n \in texts |-> Nil] @@ [n \in multis |-> <<>>]

\* Build of a URL builder drops the empty values of repeated parameters.
Build(o, flags, texts, multis) ==
  [n \in flags |-> SendFlag(o[n])] @@ [n \in texts |-> SendText(o[n])]
    @@ [n \in multis |-> SelectSeq(o[n], LAMBDA s : s # "")]

-----------------------------------------------------------------------------
(* BindRequest of the server: the last value counts, and an empty one is    *)
(* as good as none.                                                         *)

Raw(q, n) == IF q[n] = <<>> THEN "" ELSE q[n][Len(q[n])]

\* Mutant: an empty flag is converted like any other.
BindFlagEmpty(q, n, default) ==
  IF q[n] = <<>> THEN FALSE ELSE ConvertBool(Raw(q, n))

BindFlag(q, n, default) == IF Raw(q, n) = "" THEN default ELSE ConvertBool(Raw(q, n))
BindText(q, n) == IF Raw(q, n) = "" THEN Nil ELSE Raw(q, n)

Bind(q, defaults, texts, multis) ==
  [n \in DOMAIN defaults |-> BindFlag(q, n, defaults[n])]
    @@ [n \in texts |-> BindText(q, n)] @@ [n \in multis |-> q[n]]

\* BindValidRequest answers 422 when a parameter cannot be bound.
Bound(p) == \A n \in DOMAIN p : p[n] # Bad

\* An answer the client knows: what it reads, and whether it returns the answer
\* as a result or as an error.
Success(kind) == [kind |-> kind, ok |-> TRUE]
Failure(kind) == [kind |-> kind, ok |-> FALSE]

-----------------------------------------------------------------------------
(* getAlerts *)

getAlertsOp == [method |-> "GET", path |-> "/alerts"]
getAlertsDefaults ==
  Defaults({"active", "inhibited", "silenced", "unprocessed"}, {"receiver"}, {"filter", "receiver_matchers"})
getAlertsWrite(o) ==
  Send(o, {"active", "inhibited", "silenced", "unprocessed"}, {"receiver"}, {"filter", "receiver_matchers"})
getAlertsURL(o) ==
  Build(o, {"active", "inhibited", "silenced", "unprocessed"}, {"receiver"}, {"filter", "receiver_matchers"})
getAlertsNew == [n \in {"active", "inhibited", "silenced", "unprocessed"} |-> TRUE]
getAlertsBind(q) == Bind(q, getAlertsNew, {"receiver"}, {"filter", "receiver_matchers"})
getAlertsResponses == (200 :> "list") @@ (400 :> "text") @@ (500 :> "text")
getAlertsErrors == (400 :> Failure("text")) @@ (500 :> Failure("text"))
getAlertsReader == (200 :> Success("list")) @@ getAlertsErrors
getAlertsSpec ==
  [method |-> "GET", path |-> "/alerts",
   flags |-> [n \in {"active", "silenced", "inhibited", "unprocessed"} |-> TRUE],
   others |-> {"filter", "receiver", "receiver_matchers"},
   answers |-> (200 :> "list") @@ (400 :> "text") @@ (500 :> "text")]

(* getAlertGroups *)

getAlertGroupsOp == [method |-> "GET", path |-> "/alerts/groups"]
getAlertGroupsDefaults ==
  Defaults({"active", "inhibited", "muted", "silenced"}, {"receiver"}, {"filter", "receiver_matchers"})
getAlertGroupsWrite(o) ==
  Send(o, {"active", "inhibited", "muted", "silenced"}, {"receiver"}, {"filter", "receiver_matchers"})
getAlertGroupsURL(o) ==
  Build(o, {"active", "inhibited", "muted", "silenced"}, {"receiver"}, {"filter", "receiver_matchers"})
getAlertGroupsNew == [n \in {"active", "inhibited", "muted", "silenced"} |-> TRUE]
getAlertGroupsBind(q) == Bind(q, getAlertGroupsNew, {"receiver"}, {"filter", "receiver_matchers"})
getAlertGroupsResponses == (200 :> "list") @@ (400 :> "text") @@ (500 :> "text")
getAlertGroupsErrors == (400 :> Failure("text")) @@ (500 :> Failure("text"))
getAlertGroupsReader == (200 :> Success("list")) @@ getAlertGroupsErrors
getAlertGroupsSpec ==
  [method |-> "GET", path |-> "/alerts/groups",
   flags |-> [n \in {"active", "silenced", "inhibited", "muted"} |-> TRUE],
   others |-> {"filter", "receiver", "receiver_matchers"},
   answers |-> (200 :> "list") @@ (400 :> "text") @@ (500 :> "text")]

(* getSilences *)

getSilencesOp == [method |-> "GET", path |-> "/silences"]
getSilencesDefaults == Defaults({"active", "expired", "pending"}, {}, {"filter"})
getSilencesWrite(o) == Send(o, {"active", "expired", "pending"}, {}, {"filter"})
getSilencesURL(o) == Build(o, {"active", "expired", "pending"}, {}, {"filter"})
getSilencesNew == [n \in {"active", "expired", "pending"} |-> TRUE]
getSilencesBind(q) == Bind(q, getSilencesNew, {}, {"filter"})
getSilencesResponses == (200 :> "list") @@ (400 :> "text") @@ (500 :> "text")
getSilencesErrors == (400 :> Failure("text")) @@ (500 :> Failure("text"))
getSilencesReader == (200 :> Success("list")) @@ getSilencesErrors

getSilencesSpec ==
  [method |-> "GET", path |-> "/silences",
   flags |-> [n \in {"active", "expired", "pending"} |-> TRUE], others |-> {"filter"},
   answers |-> (200 :> "list") @@ (400 :> "text") @@ (500 :> "text")]

(* getReceivers *)

getReceiversOp == [method |-> "GET", path |-> "/receivers"]
getReceiversDefaults == Defaults({}, {}, {"receiver_matchers"})
getReceiversWrite(o) == Send(o, {}, {}, {"receiver_matchers"})
getReceiversURL(o) == Build(o, {}, {}, {"receiver_matchers"})
getReceiversBind(q) == Bind(q, <<>>, {}, {"receiver_matchers"})
getReceiversResponses == (200 :> "list") @@ (400 :> "text")
getReceiversReader == (200 :> Success("list")) @@ (400 :> Failure("text"))
getReceiversSpec ==
  [method |-> "GET", path |-> "/receivers", flags |-> <<>>, others |-> {"receiver_matchers"},
   answers |-> (200 :> "list") @@ (400 :> "text")]

(* getStatus *)

getStatusOp == [method |-> "GET", path |-> "/status"]
getStatusDefaults == <<>>
getStatusWrite(o) == <<>>
getStatusURL(o) == <<>>
getStatusBind(q) == <<>>
getStatusResponses == 200 :> "object"
getStatusReader == 200 :> Success("object")
getStatusSpec ==
  [method |-> "GET", path |-> "/status", flags |-> <<>>, others |-> {}, answers |-> 200 :> "object"]

-----------------------------------------------------------------------------
(* Operations with a parameter in the path, which has to be a UUID. *)

BindID(q) == [silenceID |-> IF Raw(q, "silenceID") \in UUIDs THEN Raw(q, "silenceID") ELSE Bad]

(* getSilence *)

getSilenceOp == [method |-> "GET", path |-> "/silence/{silenceID}"]
getSilenceDefaults == [silenceID |-> ""]
getSilenceWrite(o) == [silenceID |-> <<o.silenceID>>]
getSilenceURL(o) == [silenceID |-> <<o.silenceID>>]
getSilenceBind(q) == BindID(q)
getSilenceResponses == (200 :> "object") @@ (404 :> "none") @@ (500 :> "text")
getSilenceErrors == (404 :> Failure("none")) @@ (500 :> Failure("text"))
getSilenceReader == (200 :> Success("object")) @@ getSilenceErrors
getSilenceSpec ==
  [method |-> "GET", path |-> "/silence/{silenceID}", flags |-> <<>>, others |-> {"silenceID"},
   answers |-> (200 :> "object") @@ (404 :> "none") @@ (500 :> "text")]

(* deleteSilence *)

deleteSilenceOp == [method |-> "DELETE", path |-> "/silence/{silenceID}"]
deleteSilenceDefaults == [silenceID |-> ""]
deleteSilenceWrite(o) == [silenceID |-> <<o.silenceID>>]
deleteSilenceURL(o) == [silenceID |-> <<o.silenceID>>]
deleteSilenceBind(q) == BindID(q)
deleteSilenceResponses == (200 :> "none") @@ (404 :> "none") @@ (500 :> "text")
deleteSilenceErrors == (404 :> Failure("none")) @@ (500 :> Failure("text"))

deleteSilenceReader == (200 :> Success("none")) @@ deleteSilenceErrors
deleteSilenceSpec ==
  [method |-> "DELETE", path |-> "/silence/{silenceID}", flags |-> <<>>, others |-> {"silenceID"},
   answers |-> (200 :> "none") @@ (404 :> "none") @@ (500 :> "text")]

-----------------------------------------------------------------------------
(* Validate of the models of the bodies.  Dates are checked when the JSON   *)
(* is decoded.  ContextValidate visits the parts and finds nothing: there    *)
(* are no fields that only one side may set.                                 *)

labelSetValidate(m) == TRUE
matcherValidate(m) == m.isRegex # Nil /\ m.name # Nil /\ m.value # Nil
matchersValidate(s) == Len(s) >= 1 /\ \A i \in 1..Len(s) : matcherValidate(s[i])
alertValidate(m) ==
  m.labels # Nil /\ labelSetValidate(m.labels) /\ (m.generatorURL = "" \/ m.generatorURL \in URIs)
silenceValidate(m) ==
  /\ \A f \in {"comment", "createdBy", "endsAt", "startsAt"} : m[f] # Nil
  /\ m.matchers # Nil /\ matchersValidate(m.matchers)
postableAlertValidate(m) == alertValidate(m) /\ labelSetValidate(m.annotations)
postableAlertsValidate(s) == \A i \in 1..Len(s) : postableAlertValidate(s[i])
postableSilenceValidate(m) == silenceValidate(m)

labelSetContextValidate(m) == TRUE
matcherContextValidate(m) == TRUE
matchersContextValidate(s) == \A i \in 1..Len(s) : matcherContextValidate(s[i])
alertContextValidate(m) == labelSetContextValidate(m.labels)
silenceContextValidate(m) == labelSetContextValidate(m.annotations) /\ matchersContextValidate(m.matchers)
postableAlertContextValidate(m) == alertContextValidate(m) /\ labelSetContextValidate(m.annotations)
postableAlertsContextValidate(s) == \A i \in 1..Len(s) : postableAlertContextValidate(s[i])
postableSilenceContextValidate(m) == silenceContextValidate(m)

\* The models of the answers.
receiverValidate(m) == m.name # Nil
receiverReferenceValidate(m) == m.name # Nil

alertStatusValidate(m) ==
  /\ m.inhibitedBy # Nil /\ m.mutedBy # Nil /\ m.silencedBy # Nil
  /\ m.state \in {"unprocessed", "active", "suppressed"}
gettableAlertValidate(m) ==
  /\ alertValidate(m)
  /\ m.annotations # Nil /\ labelSetValidate(m.annotations)
  /\ \A f \in {"endsAt", "fingerprint", "startsAt", "updatedAt"} : m[f] # Nil
  /\ m.receivers # Nil /\ \A i \in 1..Len(m.receivers) : receiverReferenceValidate(m.receivers[i])
  /\ m.status # Nil /\ alertStatusValidate(m.status)
gettableAlertsValidate(s) == \A i \in 1..Len(s) : gettableAlertValidate(s[i])
alertGroupValidate(m) ==
  /\ m.alerts # Nil /\ gettableAlertsValidate(m.alerts)
  /\ m.labels # Nil /\ m.routeLabels # Nil
  /\ m.receiver # Nil /\ receiverReferenceValidate(m.receiver)
alertGroupsValidate(s) == \A i \in 1..Len(s) : alertGroupValidate(s[i])
silenceStatusValidate(m) == m.state \in {"expired", "active", "pending"}
peerStatusValidate(m) == m.address # Nil /\ m.name # Nil
clusterStatusValidate(m) ==
  /\ m.status \in {"ready", "settling", "disabled"}
  /\ (m.peers # Nil => \A i \in 1..Len(m.peers) : peerStatusValidate(m.peers[i]))
versionInfoValidate(m) ==
  \A f \in {"branch", "buildDate", "buildUser", "goVersion", "revision", "version"} : m[f] # Nil
alertmanagerConfigValidate(m) == m.original # Nil
alertmanagerStatusValidate(m) ==
  /\ m.cluster # Nil /\ clusterStatusValidate(m.cluster)
  /\ m.config # Nil /\ alertmanagerConfigValidate(m.config)
  /\ m.uptime # Nil
  /\ m.versionInfo # Nil /\ versionInfoValidate(m.versionInfo)

-----------------------------------------------------------------------------
(* The definitions of the specification: the fields an object must have, in *)
(* the order of the specification.                                          *)

schemaAtoC ==
  [alert |-> {"labels"}, alertGroup |-> {"labels", "routeLabels", "receiver", "alerts"},
   alertStatus |-> {"state", "silencedBy", "inhibitedBy", "mutedBy"}, alertmanagerConfig |-> {"original"},
   alertmanagerStatus |-> {"cluster", "versionInfo", "config", "uptime"}, clusterStatus |-> {"status"}]
schemaGtoP ==
  [gettableAlert |-> {"receivers", "fingerprint", "startsAt", "updatedAt", "endsAt", "annotations", "status"}
                       \cup schemaAtoC.alert,
   matcher |-> {"name", "value", "isRegex"}, peerStatus |-> {"name", "address"}]
schemaPtoV ==
  LET silence == {"matchers", "startsAt", "endsAt", "createdBy", "comment"} IN
  [silence |-> silence, postableSilence |-> silence, postableAlert |-> schemaAtoC.alert,
   receiver |-> {"name"}, receiverReference |-> {"name"}, silenceStatus |-> {"state"},
   versionInfo |-> {"version", "revision", "branch", "buildUser", "buildDate", "goVersion"}]

-----------------------------------------------------------------------------
(* JSON of the models that are composed of two parts: each part is written  *)
(* by itself and the objects are joined; when the text is read every part   *)
(* picks its fields.  Optional fields that are empty are left out.          *)

Restricted(m, fields) == [f \in fields |-> m[f]]
Pick(j, f, zero) == IF f \in DOMAIN j THEN j[f] ELSE zero

alertFields(m) == {"labels"} \cup (IF m.generatorURL = "" THEN {} ELSE {"generatorURL"})
silenceFields(m) ==
  {"comment", "createdBy", "startsAt", "endsAt", "matchers"}
    \cup (IF m.annotations \in {Nil, {}} THEN {} ELSE {"annotations"})
silenceUnmarshal(j) ==
  [f \in {"annotations", "comment", "createdBy", "startsAt", "endsAt", "matchers"} |-> Pick(j, f, Nil)]

postableAlertMarshal(m) ==
  Restricted(m, {"startsAt", "endsAt"} \cup (IF m.annotations \in {Nil, {}} THEN {} ELSE {"annotations"}))
    @@ Restricted(m, alertFields(m))
postableAlertUnmarshal(j) ==
  [annotations |-> Pick(j, "annotations", Nil), startsAt |-> Pick(j, "startsAt", 0),
   endsAt |-> Pick(j, "endsAt", 0), labels |-> Pick(j, "labels", Nil),
   generatorURL |-> Pick(j, "generatorURL", "")]

postableSilenceMarshal(m) ==
  Restricted(m, IF m.id = "" THEN {} ELSE {"id"}) @@ Restricted(m, silenceFields(m))
postableSilenceUnmarshal(j) == [id |-> Pick(j, "id", "")] @@ silenceUnmarshal(j)

gettableSilenceMarshal(m) ==
  Restricted(m, {"id", "status", "updatedAt"}) @@ Restricted(m, silenceFields(m))
gettableSilenceUnmarshal(j) ==
  [f \in {"id", "status", "updatedAt"} |-> Pick(j, f, Nil)] @@ silenceUnmarshal(j)

gettableAlertMarshal(m) ==
  Restricted(m, {"annotations", "endsAt", "fingerprint", "receivers", "startsAt", "status", "updatedAt"})
    @@ Restricted(m, alertFields(m))
gettableAlertUnmarshal(j) ==
  [f \in {"annotations", "endsAt", "fingerprint", "receivers", "startsAt", "status", "updatedAt"}
     |-> Pick(j, f, Nil)]
    @@ [labels |-> Pick(j, "labels", Nil), generatorURL |-> Pick(j, "generatorURL", "")]

-----------------------------------------------------------------------------
(* Operations with a body. *)

\* The body is required, decoded and then validated.
BindBody(body, valid) == [body |-> IF body = Nil \/ ~valid THEN Bad ELSE body]

(* postAlerts *)

postAlertsOp == [method |-> "POST", path |-> "/alerts"]
postAlertsDefaults == [body |-> Nil]
postAlertsWrite(o) ==
  [body |-> IF o.body = Nil THEN Nil
            ELSE [i \in 1..Len(o.body) |-> postableAlertMarshal(o.body[i])]]
postAlertsBind(q) ==
  LET alerts == IF q.body = Nil THEN Nil
                ELSE [i \in 1..Len(q.body) |-> postableAlertUnmarshal(q.body[i])] IN
  BindBody(alerts, alerts # Nil => postableAlertsValidate(alerts) /\ postableAlertsContextValidate(alerts))
postAlertsResponses == (200 :> "none") @@ (400 :> "text") @@ (500 :> "text")
postAlertsErrors == (400 :> Failure("text")) @@ (500 :> Failure("text"))
postAlertsReader == (200 :> Success("none")) @@ postAlertsErrors
postAlertsSpec ==
  [method |-> "POST", path |-> "/alerts", flags |-> <<>>, others |-> {"body"},
   answers |-> (200 :> "none") @@ (400 :> "text") @@ (500 :> "text")]

(* postSilences *)

postSilencesOp == [method |-> "POST", path |-> "/silences"]
postSilencesDefaults == [body |-> Nil]
postSilencesWrite(o) ==
  [body |-> IF o.body = Nil THEN Nil ELSE postableSilenceMarshal(o.body)]
postSilencesBind(q) ==
  LET silence == IF q.body = Nil THEN Nil ELSE postableSilenceUnmarshal(q.body) IN
  BindBody(silence, silence # Nil => postableSilenceValidate(silence) /\ postableSilenceContextValidate(silence))
postSilencesResponses == (200 :> "object") @@ (400 :> "text") @@ (404 :> "text")
postSilencesErrors == (400 :> Failure("text")) @@ (404 :> Failure("text"))
postSilencesReader == (200 :> Success("object")) @@ postSilencesErrors
postSilencesSpec ==
  [method |-> "POST", path |-> "/silences", flags |-> <<>>, others |-> {"body"},
   answers |-> (200 :> "object") @@ (400 :> "text") @@ (404 :> "text")]

-----------------------------------------------------------------------------
(* All operations. *)

Ops == {"getAlerts", "postAlerts", "getAlertGroups", "getReceivers", "getStatus",
        "getSilence", "deleteSilence", "getSilences", "postSilences"}

Client(op) ==
  CASE op = "getAlerts"      -> getAlertsOp
    [] op = "postAlerts"     -> postAlertsOp
    [] op = "getAlertGroups" -> getAlertGroupsOp
    [] op = "getReceivers"   -> getReceiversOp
    [] op = "getStatus"      -> getStatusOp
    [] op = "getSilence"     -> getSilenceOp
    [] op = "deleteSilence"  -> deleteSilenceOp
    [] op = "getSilences"    -> getSilencesOp
    [] op = "postSilences"   -> postSilencesOp

ClientDefaults(op) ==
  CASE op = "getAlerts"      -> getAlertsDefaults
    [] op = "postAlerts"     -> postAlertsDefaults
    [] op = "getAlertGroups" -> getAlertGroupsDefaults
    [] op = "getReceivers"   -> getReceiversDefaults
    [] op = "getStatus"      -> getStatusDefaults
    [] op = "getSilence"     -> getSilenceDefaults
    [] op = "deleteSilence"  -> deleteSilenceDefaults
    [] op = "getSilences"    -> getSilencesDefaults
    [] op = "postSilences"   -> postSilencesDefaults

WriteToRequest(op, o) ==
  CASE op = "getAlerts"      -> getAlertsWrite(o)
    [] op = "postAlerts"     -> postAlertsWrite(o)
    [] op = "getAlertGroups" -> getAlertGroupsWrite(o)
    [] op = "getReceivers"   -> getReceiversWrite(o)
    [] op = "getStatus"      -> getStatusWrite(o)
    [] op = "getSilence"     -> getSilenceWrite(o)
    [] op = "deleteSilence"  -> deleteSilenceWrite(o)
    [] op = "getSilences"    -> getSilencesWrite(o)
    [] op = "postSilences"   -> postSilencesWrite(o)

\* The URL builders of the server, for the operations that have no body.
URL(op, o) ==
  CASE op = "getAlerts"      -> getAlertsURL(o)
    [] op = "getAlertGroups" -> getAlertGroupsURL(o)
    [] op = "getReceivers"   -> getReceiversURL(o)
    [] op = "getStatus"      -> getStatusURL(o)
    [] op = "getSilence"     -> getSilenceURL(o)
    [] op = "deleteSilence"  -> deleteSilenceURL(o)
    [] op = "getSilences"    -> getSilencesURL(o)

BindRequest(op, q) ==
  CASE op = "getAlerts"      -> getAlertsBind(q)
    [] op = "postAlerts"     -> postAlertsBind(q)
    [] op = "getAlertGroups" -> getAlertGroupsBind(q)
    [] op = "getReceivers"   -> getReceiversBind(q)
    [] op = "getStatus"      -> getStatusBind(q)
    [] op = "getSilence"     -> getSilenceBind(q)
    [] op = "deleteSilence"  -> deleteSilenceBind(q)
    [] op = "getSilences"    -> getSilencesBind(q)
    [] op = "postSilences"   -> postSilencesBind(q)

Responses(op) ==
  CASE op = "getAlerts"      -> getAlertsResponses
    [] op = "postAlerts"     -> postAlertsResponses
    [] op = "getAlertGroups" -> getAlertGroupsResponses
    [] op = "getReceivers"   -> getReceiversResponses
    [] op = "getStatus"      -> getStatusResponses
    [] op = "getSilence"     -> getSilenceResponses
    [] op = "deleteSilence"  -> deleteSilenceResponses
    [] op = "getSilences"    -> getSilencesResponses
    [] op = "postSilences"   -> postSilencesResponses

Reader(op) ==
  CASE op = "getAlerts"      -> getAlertsReader
    [] op = "postAlerts"     -> postAlertsReader
    [] op = "getAlertGroups" -> getAlertGroupsReader
    [] op = "getReceivers"   -> getReceiversReader
    [] op = "getStatus"      -> getStatusReader
    [] op = "getSilence"     -> getSilenceReader
    [] op = "deleteSilence"  -> deleteSilenceReader
    [] op = "getSilences"    -> getSilencesReader
    [] op = "postSilences"   -> postSilencesReader

\* The specification embedded in the server, from which it takes its routes.
SwaggerSpec(op) ==
  CASE op = "getAlerts"      -> getAlertsSpec
    [] op = "postAlerts"     -> postAlertsSpec
    [] op = "getAlertGroups" -> getAlertGroupsSpec
    [] op = "getReceivers"   -> getReceiversSpec
    [] op = "getStatus"      -> getStatusSpec
    [] op = "getSilence"     -> getSilenceSpec
    [] op = "deleteSilence"  -> deleteSilenceSpec
    [] op = "getSilences"    -> getSilencesSpec
    [] op = "postSilences"   -> postSilencesSpec

\* initHandlerCache: the handler of a method and a path.
HandlerFor(method, path) ==
  CASE method = "DELETE" /\ path = "/silence/{silenceID}" -> "deleteSilence"
    [] method = "GET" /\ path = "/alerts/groups"          -> "getAlertGroups"
    [] method = "GET" /\ path = "/alerts"                 -> "getAlerts"
    [] method = "GET" /\ path = "/receivers"              -> "getReceivers"
    [] method = "GET" /\ path = "/silence/{silenceID}"    -> "getSilence"
    [] method = "GET" /\ path = "/silences"               -> "getSilences"
    [] method = "GET" /\ path = "/status"                 -> "getStatus"
    [] method = "POST" /\ path = "/alerts"                -> "postAlerts"
    [] method = "POST" /\ path = "/silences"              -> "postSilences"

\* WriteResponse: the status and the body, which an answer without payload
\* does not have.  A list that is nil is written as an empty one.
WriteResponse(kinds, code, payload) ==
  [code |-> code,
   body |-> CASE kinds[code] = "none" -> Nil
              [] kinds[code] = "list" /\ payload = Nil -> <<>>
              [] OTHER -> payload]

\* ReadResponse: a status the operation does not know is a runtime.APIError.
\* A body that is missing leaves the payload empty.
ReadResponse(answers, w) ==
  IF w.code \in DOMAIN answers
    THEN [known |-> TRUE, ok |-> answers[w.code].ok, code |-> w.code,
          payload |-> IF answers[w.code].kind = "none" THEN Nil ELSE w.body]
    ELSE [known |-> FALSE, ok |-> FALSE, code |-> w.code, payload |-> Nil]
=============================================================================

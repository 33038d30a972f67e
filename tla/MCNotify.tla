------------------------------ MODULE MCNotify ------------------------------
(***************************************************************************)
(* Instances for TLC of Integrations, Recorder, Config, Routes and           *)
(* TimeIntervals: the notifiers, the event recorder, and what is read of a    *)
(* configuration file.  The variable part says which of them a behaviour is   *)
(* of.                                                                       *)
(***************************************************************************)
EXTENDS Integrations, TLC

CONSTANTS w1, w2, x1, x2

ASSUME NotifierSetting

VARIABLES part,
    rscene, queue, recorded, dropped, loop, outs, current, update, done, out,
    file, stage, at, conf, cell, slash, client,
    rfile, rstage, tree,
    given, tstage

recVars == <<rscene, queue, recorded, dropped, loop, outs, current, update, done, out>>
confVars == <<file, stage, at, conf, cell, slash, client>>
routeVars == <<rfile, rstage, tree>>
intervalVars == <<given, tstage>>

-----------------------------------------------------------------------------
(* The event recorder *)

\* Each kind of output, with a reload or with one whose outputs cannot be built.
Recording(k, n, versions, wrong) ==
    [kind |-> k, events |-> n, versions |-> versions, bad |-> wrong, maxEvents |-> 2, maxBytes |-> 6]
Recordings == {Recording("file", 3, 2, {}), Recording("file", 3, 2, {2}), Recording("webhook", 2, 2, {}),
               Recording("batch", 3, 1, {}), Recording("batch", 2, 2, {}), Recording("kafka", 2, 2, {})}

R == INSTANCE Recorder WITH
        QueueSize <- 2, WorkSize <- 2, Worker <- {w1, w2}, MaxRetries <- 2, RecScenes <- Recordings

-----------------------------------------------------------------------------
(* Configuration files *)

Own(fs) == [f \in fs |-> "own"]
Global(fs) == [f \in fs |-> "global"]

Plain == [auth |-> "none", proxy |-> "none", joined |-> 0]
WithAuth == [Plain EXCEPT !.auth = "own"]

Entry(k, set, http) == [kind |-> k, null |-> FALSE, set |-> set, http |-> http]
NullEntry(k) == [kind |-> k, null |-> TRUE, set |-> <<>>, http |-> Plain]

\* Files whose parts are in the given sets.
FileSet(entries, global, http, dir, n) ==
    [entries : entries, global : global, http : http, dir : dir, slash : n]

\* The options of an entry that vary, and those of the global section.  The addresses of
\* Telegram and Rocket.Chat have defaults, which are kept.
Varied ==
    [webhook |-> {"url", "url_file"}, discord |-> {"webhook_url", "webhook_url_file"},
     msteams |-> {"webhook_url", "webhook_url_file"}, msteamsv2 |-> {"webhook_url", "webhook_url_file"},
     pushover |-> {"user_key", "user_key_file", "token", "token_file", "html", "monospace"},
     incidentio |-> {"url", "url_file", "alert_source_token", "alert_source_token_file"},
     sns |-> {"target_arn", "topic_arn", "phone_number"}, webex |-> {"api_url", "room_id"},
     jira |-> {"api_url", "project", "issue_type"},
     pagerduty |-> {"url", "routing_key", "routing_key_file", "service_key", "service_key_file"},
     opsgenie |-> {"api_url", "api_key", "api_key_file"},
     victorops |-> {"api_url", "api_key", "api_key_file", "routing_key"},
     wechat |-> {"api_url", "api_secret", "api_secret_file", "corp_id"},
     telegram |-> {"bot_token", "bot_token_file", "chat_id", "chat_id_file"},
     rocketchat |-> {"token", "token_file", "token_id", "token_id_file"},
     mattermost |-> {"webhook_url", "webhook_url_file", "malformed"},
     email |-> {"to", "smarthost", "auth_password", "auth_password_file", "auth_secret", "threading", "references"},
     slack |-> {"app_token", "app_token_file", "api_url", "api_url_file", "update_message"}]
Inherited ==
    [webex |-> {"api_url"}, jira |-> {"api_url"}, pagerduty |-> {"url"},
     opsgenie |-> {"api_url", "api_key", "api_key_file"}, victorops |-> {"api_url", "api_key", "api_key_file"},
     wechat |-> {"api_url", "api_secret", "api_secret_file", "corp_id"},
     telegram |-> {"bot_token", "bot_token_file"}, rocketchat |-> {"token", "token_file", "token_id", "token_id_file"},
     mattermost |-> {"webhook_url", "webhook_url_file"},
     email |-> {"smarthost", "from", "auth_password", "auth_password_file", "auth_secret_file"},
     slack |-> {"app_url", "app_token", "app_token_file", "api_url", "api_url_file"}]
Kept == [telegram |-> {"api_url"}, rocketchat |-> {"api_url"}]
OptionsIn(f, k) == IF k \in DOMAIN f THEN f[k] ELSE {}

\* Slack's api_url may be the address of the app.
Addresses(k, set) ==
    {set} \cup (IF k = "slack" /\ "api_url" \in DOMAIN set THEN {[set EXCEPT !["api_url"] = "app"]} ELSE {})

\* One entry of kind k with options among `own', whatever it and the global section set.
EntriesOf(k, own) ==
    UNION {{Entry(k, c, http) : c \in Addresses(k, Own(fs \cup h)),
                                http \in IF h = {} THEN {Plain} ELSE {Plain, WithAuth}} :
             fs \in SUBSET own, h \in IF k = "email" THEN {{}} ELSE {{}, {"http_config"}}}
GlobalsOf(k, glob) ==
    UNION {Addresses(k, Global(fs \cup OptionsIn(Kept, k))) : fs \in SUBSET glob}
SingleFiles(k, own, glob) ==
    FileSet({<<e>> : e \in EntriesOf(k, own)}, {k :> g : g \in GlobalsOf(k, glob)},
            IF k = "slack" THEN {Plain, WithAuth} ELSE {Plain}, {"absolute"}, {1})

\* Two entries that share the global section, in a file of each kind of directory.
Token == Entry("slack", Own({"app_token"}), Plain)
Short == {Token, Entry("slack", Own({"api_url", "http_config"}), Plain), Entry("webhook", Own({"url"}), Plain),
          Entry("webhook", Own({"url", "http_config"}), Plain), Entry("msteamsv2", Own({"webhook_url"}), Plain),
          Entry("msteamsv2", Own({"webhook_url", "http_config"}), Plain), Entry("opsgenie", <<>>, Plain),
          Entry("opsgenie", Own({"api_url"}), Plain), Entry("wechat", <<>>, Plain),
          Entry("victorops", Own({"routing_key"}), Plain),
          Entry("incidentio", Own({"url", "alert_source_token"}), Plain),
          Entry("mattermost", Own({"http_config"}), Plain),
          NullEntry("slack"), NullEntry("opsgenie"), NullEntry("webhook")}
SharedGlobal ==
    [slack |-> Global({"app_url", "api_url"}), opsgenie |-> Global({"api_url", "api_key"}),
     wechat |-> Global({"api_url", "api_secret_file", "corp_id"}),
     victorops |-> Global({"api_url", "api_key_file"}), mattermost |-> Global({"webhook_url"})]
PairFiles ==
    FileSet(Short \X Short, {SharedGlobal}, {[Plain EXCEPT !.proxy = "global"]},
            {"absolute", "relative", "dot"}, {0, 1})

\* A global app token is left out where a Slack entry names the file of its webhook.
Tokens == {"app_token", "app_token_file"}
ConfigFiles ==
    [k \in DOMAIN Varied |-> IF k = "slack" THEN SingleFiles(k, Varied[k] \ {"api_url_file"}, Inherited[k])
                             ELSE SingleFiles(k, Varied[k], OptionsIn(Inherited, k))]
    @@ [slackfile |-> SingleFiles("slack", Varied["slack"], Inherited["slack"] \ Tokens), pair |-> PairFiles]
AFile == CHOOSE f \in PairFiles : TRUE

C == INSTANCE Config WITH Files <- ConfigFiles

-----------------------------------------------------------------------------
(* Routing trees *)

Ungrouped == [given |-> FALSE, all |-> FALSE, labels |-> {}]
ByAll == [Ungrouped EXCEPT !.all = TRUE]
By(labels) == [given |-> TRUE, all |-> FALSE, labels |-> labels]

Route(parent, receiver, bare, match, continue, group) ==
    [parent |-> parent, receiver |-> receiver, bare |-> bare, match |-> match, continue |-> continue,
     group |-> group, interval |-> -1, labels |-> {}, mute |-> {}, active |-> {}]
Root(group) == Route(0, "r", TRUE, {}, FALSE, group)

RouteFile(route) == [receivers |-> <<"r", "s">>, mutes |-> <<"m">>, times |-> <<"t">>, route |-> route]

\* Trees of four routes in all shapes, with all matchers.
Matching(p, q) == {Route(parent, "", FALSE, match, continue, Ungrouped) :
                     parent \in {p, q}, match \in SUBSET {x1, x2}, continue \in BOOLEAN}
Trees == {RouteFile(<<Root(Ungrouped), Route(1, "s", bare, {x1}, c, Ungrouped), b, d>>) :
            bare \in BOOLEAN, c \in BOOLEAN, b \in Matching(1, 2), d \in Matching(1, 2) \cup Matching(3, 3)}

\* Routes on one path that group differently.
Groupings == {Ungrouped, ByAll, By({}), By({"a"}), [given |-> TRUE, all |-> TRUE, labels |-> {"a"}]}
Grouped == {RouteFile(<<Root(g), Route(1, "", TRUE, {}, FALSE, h), Route(2, "", TRUE, {}, FALSE, k)>>) :
              g \in Groupings, h \in Groupings, k \in Groupings}

\* Names that are missing, repeated or unknown.
Inner == {[Route(1, receiver, FALSE, {x1}, FALSE, Ungrouped) EXCEPT !.mute = mute, !.active = active, !.interval = n] :
            receiver \in {"", "s", "u"}, mute \in SUBSET {"m", "u"}, active \in SUBSET {"t", "u"}, n \in {-1, 0, 1}}
Roots == {Root(Ungrouped), Route(0, "", TRUE, {}, FALSE, Ungrouped), Route(0, "r", FALSE, {x1}, FALSE, Ungrouped),
          [Root(Ungrouped) EXCEPT !.mute = {"m"}], [Root(Ungrouped) EXCEPT !.continue = TRUE]}
Named == {[receivers |-> receivers, mutes |-> <<"m">>, times |-> times, route |-> <<root, inner>>] :
            receivers \in {<<"r", "s">>, <<"r", "r">>, <<"r", "">>}, times \in {<<"t">>, <<"m">>, <<"t", "u">>},
            root \in Roots, inner \in Inner}

TreeFiles == Trees \cup Grouped \cup Named
DefaultRouteOpts ==
    [receiver |-> "", groupBy |-> {}, groupByAll |-> FALSE, interval |-> 5, labels |-> {}, mute |-> {}, active |-> {}]
Labelled == {x1, x2}

T == INSTANCE Routes WITH RouteFiles <- TreeFiles, RouteAlert <- Labelled, DefaultOpts <- DefaultRouteOpts

-----------------------------------------------------------------------------
(* Time intervals *)

FieldOf(ranges) == [given |-> TRUE, ranges |-> ranges]
NoField == [given |-> FALSE, ranges |-> <<>>]
Interval(times, days, weekdays) ==
    [times |-> times, days |-> days, weekdays |-> weekdays, months |-> NoField, years |-> NoField]

\* Every range of days near the ends of a month; two ranges, of which the first may be
\* past the end of the month.
DayEnds == -31..-27 \cup -2..2 \cup 27..31
IntervalFileSet ==
    {<<Interval(NoField, FieldOf(<<<<b, e>>>>), NoField)>> : b \in DayEnds, e \in DayEnds}
    \cup {<<Interval(NoField, FieldOf(<<<<b, 31>>, <<c, e>>>>), NoField)>> : b \in {29, 30, 31}, c \in {1, 28, -2}, e \in {2, -1}}
    \cup {<<Interval(FieldOf(<<<<1380, 1440>>>>), d, NoField), Interval(FieldOf(<<<<s, 60>>>>), d, w)>> :
            s \in {0, 60}, d \in {NoField, FieldOf(<<>>), FieldOf(<<<<1, 1>>>>)}, w \in {NoField, FieldOf(<<<<1, 5>>>>)}}

InstantSet == {[minute |-> m, day |-> d, daysInMonth |-> n, weekday |-> w, month |-> 2, year |-> 2024] :
                 m \in {0, 1439}, d \in {1, 2, 27, 28}, n \in 28..31, w \in {0, 1}}
              \cup {[minute |-> 0, day |-> d, daysInMonth |-> n, weekday |-> 1, month |-> 1, year |-> 2024] :
                 d \in {29, 30, 31}, n \in {31}}
              \cup {[minute |-> 0, day |-> d, daysInMonth |-> n, weekday |-> 1, month |-> 4, year |-> 2024] :
                 d \in {29, 30}, n \in {30}}

I == INSTANCE TimeIntervals WITH IntervalFiles <- IntervalFileSet, Instants <- InstantSet

-----------------------------------------------------------------------------
\* A part that is not considered stays in one of its initial states.
Fixed(p, x, set) == part # p => x = CHOOSE y \in set : TRUE

MCInit ==
    /\ part \in {"notifiers", "recorder", "config", "routes", "intervals"}
    /\ (part # "notifiers" => kind = "webhook") /\ Init
    /\ Fixed("recorder", rscene, Recordings) /\ R!RecInit
    /\ (part # "config" => file = AFile) /\ C!ConfInit
    /\ Fixed("routes", rfile, TreeFiles) /\ T!RouteInit
    /\ Fixed("intervals", given, IntervalFileSet) /\ I!IntervalInit

MCNext ==
    \/ part = "notifiers" /\ Next /\ UNCHANGED <<part, recVars, confVars, routeVars, intervalVars>>
    \/ part = "recorder" /\ R!RecNext /\ UNCHANGED <<part, vars, confVars, routeVars, intervalVars>>
    \/ part = "config" /\ C!ConfNext /\ UNCHANGED <<part, vars, recVars, routeVars, intervalVars>>
    \/ part = "routes" /\ T!RouteNext /\ UNCHANGED <<part, vars, recVars, confVars, intervalVars>>
    \/ part = "intervals" /\ I!IntervalNext /\ UNCHANGED <<part, vars, recVars, confVars, routeVars>>

\* The flushes of the notifiers go on, and the network and the services recover.
InNotifiers == part = "notifiers"
NotifyFairness ==
    /\ WF_vars(InNotifiers /\ Recovers)
    /\ \A g \in Groups : /\ WF_vars(InNotifiers /\ g \in users /\ Call(g))
                         /\ WF_vars(InNotifiers /\ g \in users /\ ContextEnds(g))

\* The loop of the recorder, the batchers and the workers of every output go on.
InRecorder == part = "recorder"
RecFairness ==
    /\ WF_recVars(InRecorder /\ R!WriteEvent) /\ WF_recVars(InRecorder /\ (R!ApplyIgnored \/ R!SwapOutputs \/ R!Swapped))
    /\ WF_recVars(InRecorder /\ (R!WriteDone \/ R!Drained \/ R!CloseReturns))
    /\ \A v \in R!Version :
          /\ WF_recVars(InRecorder /\ (R!BatchAdd(v) \/ R!BatchFlush(v)))
          /\ WF_recVars(InRecorder /\ (R!Produce(v) \/ R!DispatchEnds(v))) /\ WF_recVars(InRecorder /\ R!OutputCloses(v))
          /\ \A w \in {w1, w2} : WF_recVars(InRecorder /\ (R!Take(v, w) \/ R!postWithRetry(v, w) \/ R!WorkerEnds(v, w)))

MCSpec == MCInit /\ [][MCNext]_<<part, vars, recVars, confVars, routeVars, intervalVars>>
            /\ NotifyFairness /\ RecFairness

-----------------------------------------------------------------------------
(* Properties *)

\* Close, ApplyConfig, marshalAndSend: Close returns, however the receivers behave; then
\* every event recorded before it was handed to an output or counted as dropped, whatever
\* reloads there were, and an output that is closed has delivered or counted as lost
\* every event it was handed, each once.
CloseAccounts ==
    /\ []R!NothingForgotten /\ []R!Accounted
    /\ part = "recorder" => R!CloseEnds

\* config.Load, BuildReceiverIntegrations: the notifiers of a file that is accepted are
\* what it says.  They have everything they read, an entry's own values before the global
\* ones, no authorization but their own, addresses that end in one slash, and
\* certificates beside the file.
BuiltAsWritten ==
    part = "config" => /\ C!BuiltIsComplete /\ C!OwnSettingWins /\ C!TokensStayApart
                       /\ C!OneSlash /\ C!CertificatesFound

\* newRoute, Match: an alert goes to exactly the routes the tree says, at least one and
\* each once, with receivers and intervals that exist; the nearest route that says how to
\* group decides; the indices of the routes fill the dispatcher's slice.
TreeAsConfigured ==
    part = "routes" => /\ T!EveryAlertRouted /\ T!MatchedAsConfigured
                       /\ T!NearestGroupingWins /\ T!IndicesFillSlice

\* An interval covers exactly the days its ranges name, in every month.
DaysAsNamed == part = "intervals" => I!DaysAsNamed
=============================================================================

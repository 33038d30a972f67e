------------------------------- MODULE Config -------------------------------
(***************************************************************************)
(* Reading a configuration file: config.LoadFile, from the decoding of the *)
(* receivers' integrations through Config.UnmarshalYAML and                *)
(* resolveFilepaths to config/receiver.BuildReceiverIntegrations.          *)
(*                                                                         *)
(* An option is abstracted to where its value comes from: "own" (the       *)
(* integration's entry), "global" (the global section or its defaults),    *)
(* "app" (the address of the Slack API) or "none" (a nil pointer, an empty *)
(* string).  HTTP client settings are reached through pointers that        *)
(* several entries may share, so they live in cells: cell 0 belongs to the *)
(* global section and cell i to entry i.  The same goes for API addresses, *)
(* of which only the trailing slashes are kept.  Of HTTP client settings   *)
(* the authorization is kept, the proxy, and how often the path of the     *)
(* certificate has been joined with the directory of the file.             *)
(***************************************************************************)
EXTENDS Naturals, Sequences, FiniteSets

CONSTANT Files      \* the configuration files: sets of them, by their shape

VARIABLES
  file,             \* the file being read
  stage,            \* how far reading has come
  at,               \* the entry to be completed next
  conf,             \* conf[i][f]: the value of option f of entry i
  cell,             \* cell[i]: HTTP client settings; cell[0] is the global one
  slash,            \* slashes at the end of the API addresses: those of the
                    \* global ones by kind, those of the entries' own
  client            \* client[i]: the settings the notifier of entry i uses

confVars == <<file, stage, at, conf, cell, slash, client>>

-----------------------------------------------------------------------------
(* Options.                                                                *)

\* The options of each integration that the checks and the defaults look at.
\* "malformed" stands for any option whose value is refused by itself: an
\* unknown type, a reserved or repeated field, a Slack action without text.
Options ==
  [webhook    |-> {"url", "url_file"},
   email      |-> {"to", "smarthost", "from", "hello", "auth_username",
                   "auth_password", "auth_password_file", "auth_secret",
                   "auth_secret_file", "auth_identity", "require_tls",
                   "tls_config", "force_implicit_tls", "threading",
                   "references"},
   slack      |-> {"app_url", "app_token", "app_token_file", "api_url",
                   "api_url_file", "update_message"},
   pushover   |-> {"user_key", "user_key_file", "token", "token_file",
                   "html", "monospace"},
   pagerduty  |-> {"url", "routing_key", "routing_key_file", "service_key",
                   "service_key_file"},
   incidentio |-> {"url", "url_file", "alert_source_token",
                   "alert_source_token_file"},
   opsgenie   |-> {"api_url", "api_key", "api_key_file"},
   wechat     |-> {"api_url", "api_secret", "api_secret_file", "corp_id"},
   victorops  |-> {"api_url", "api_key", "api_key_file", "routing_key"},
   sns        |-> {"target_arn", "topic_arn", "phone_number"},
   telegram   |-> {"api_url", "bot_token", "bot_token_file", "chat_id",
                   "chat_id_file"},
   discord    |-> {"webhook_url", "webhook_url_file"},
   webex      |-> {"api_url", "room_id"},
   msteams    |-> {"webhook_url", "webhook_url_file"},
   msteamsv2  |-> {"webhook_url", "webhook_url_file"},
   jira       |-> {"api_url", "project", "issue_type"},
   rocketchat |-> {"api_url", "token", "token_file", "token_id",
                   "token_id_file"},
   mattermost |-> {"webhook_url", "webhook_url_file"}]

EntryKinds == DOMAIN Options

OptionsOf(kind) == Options[kind] \cup {"http_config", "malformed"}

\* The value of every option of a kind, given the ones that are set.
Decode(kind, set) ==
  [f \in OptionsOf(kind) |-> IF f \in DOMAIN set THEN set[f] ELSE "none"]

Has(c, fs) == \E f \in fs : c[f] # "none"

AtMostOne(c, fs) == \A f, h \in fs : c[f] = "none" \/ c[h] = "none" \/ f = h

ExactlyOne(c, fs) == Has(c, fs) /\ AtMostOne(c, fs)

\* c with the options fs taken from g, whatever they were.
Take(c, g, fs) == [f \in DOMAIN c |-> IF f \in fs THEN g[f] ELSE c[f]]

\* cmp.Or on each of the options fs.
Or(c, g, fs) == Take(c, g, {f \in fs : c[f] = "none"})

\* An inline value and a file that may hold it are inherited together.
OrBoth(c, g, fs) == IF Has(c, fs) THEN c ELSE Take(c, g, fs)

HTTPConfig(c) == Or(c, [http_config |-> "global"], {"http_config"})

-----------------------------------------------------------------------------
(* Validate: the checks of one entry, made while the file is decoded.      *)

webhookValidate(c, h) == ExactlyOne(c, {"url", "url_file"})

emailValidate(c, h) == Has(c, {"to"}) /\ AtMostOne(c, {"threading", "references"})

slackValidate(c, h) ==
  /\ AtMostOne(c, {"api_url", "api_url_file"})
  /\ AtMostOne(c, {"app_token", "app_token_file"})
  /\ ~(Has(c, {"api_url", "api_url_file"}) /\ Has(c, {"app_token", "app_token_file"}))
  /\ Has(c, {"update_message"}) => c["api_url"] = "app"

\* update_message looks at the address before it knows there is one.
slackPanics(c) ==
  /\ AtMostOne(c, {"app_token", "app_token_file"})
  /\ c["api_url"] = "none" /\ Has(c, {"update_message"})
  /\ ~(Has(c, {"api_url_file"}) /\ Has(c, {"app_token", "app_token_file"}))

pushoverValidate(c, h) ==
  /\ ExactlyOne(c, {"user_key", "user_key_file"})
  /\ ExactlyOne(c, {"token", "token_file"})
  /\ AtMostOne(c, {"html", "monospace"})

pagerdutyValidate(c, h) ==
  /\ Has(c, {"routing_key", "routing_key_file", "service_key", "service_key_file"})
  /\ AtMostOne(c, {"routing_key", "routing_key_file"})
  /\ AtMostOne(c, {"service_key", "service_key_file"})

incidentioValidate(c, h) ==
  LET token == Has(c, {"alert_source_token", "alert_source_token_file"})
  IN  /\ ExactlyOne(c, {"url", "url_file"})
      /\ AtMostOne(c, {"alert_source_token", "alert_source_token_file"})
      /\ Has(c, {"http_config"}) => (token # (h.auth # "none"))

opsgenieValidate(c, h) == AtMostOne(c, {"api_key", "api_key_file"})

wechatValidate(c, h) == AtMostOne(c, {"api_secret", "api_secret_file"})

victoropsValidate(c, h) ==
  Has(c, {"routing_key"}) /\ AtMostOne(c, {"api_key", "api_key_file"})

\* A chain of != : refused when an odd number of the three is missing.
snsValidate(c, h) ==
  ~(((c["target_arn"] = "none") # (c["topic_arn"] = "none")) # (c["phone_number"] = "none"))

telegramValidate(c, h) ==
  AtMostOne(c, {"bot_token", "bot_token_file"}) /\ ExactlyOne(c, {"chat_id", "chat_id_file"})

discordValidate(c, h) == ExactlyOne(c, {"webhook_url", "webhook_url_file"})

webexValidate(c, h) == Has(c, {"room_id"}) /\ Has(c, {"http_config"}) /\ h.auth # "none"

msteamsValidate(c, h) == ExactlyOne(c, {"webhook_url", "webhook_url_file"})

msteamsv2Validate(c, h) == ExactlyOne(c, {"webhook_url", "webhook_url_file"})

jiraValidate(c, h) == Has(c, {"project"}) /\ Has(c, {"issue_type"})

rocketchatValidate(c, h) ==
  AtMostOne(c, {"token", "token_file"}) /\ AtMostOne(c, {"token_id", "token_id_file"})

mattermostValidate(c, h) == AtMostOne(c, {"webhook_url", "webhook_url_file"})

Validate(kind, c, h) ==
  /\ ~Has(c, {"malformed"})
  /\ CASE kind = "webhook"    -> webhookValidate(c, h)
       [] kind = "email"      -> emailValidate(c, h)
       [] kind = "slack"      -> slackValidate(c, h)
       [] kind = "pushover"   -> pushoverValidate(c, h)
       [] kind = "pagerduty"  -> pagerdutyValidate(c, h)
       [] kind = "incidentio" -> incidentioValidate(c, h)
       [] kind = "opsgenie"   -> opsgenieValidate(c, h)
       [] kind = "wechat"     -> wechatValidate(c, h)
       [] kind = "victorops"  -> victoropsValidate(c, h)
       [] kind = "sns"        -> snsValidate(c, h)
       [] kind = "telegram"   -> telegramValidate(c, h)
       [] kind = "discord"    -> discordValidate(c, h)
       [] kind = "webex"      -> webexValidate(c, h)
       [] kind = "msteams"    -> msteamsValidate(c, h)
       [] kind = "msteamsv2"  -> msteamsv2Validate(c, h)
       [] kind = "jira"       -> jiraValidate(c, h)
       [] kind = "rocketchat" -> rocketchatValidate(c, h)
       [] kind = "mattermost" -> mattermostValidate(c, h)
-----------------------------------------------------------------------------
(* Config.UnmarshalYAML: one entry completed from the global section.      *)
(* c is the entry, h its HTTP client settings, g the global options of its *)
(* kind and gh the global HTTP client settings.                            *)

Completed(ok, c, h) == [ok |-> ok, c |-> c, h |-> h]

webhookLoad(c, h, g, gh) == Completed(TRUE, HTTPConfig(c), h)

emailLoad(c, h, g, gh) ==
  LET d == Or(c, g, {"tls_config", "smarthost", "from", "hello", "auth_username",
                     "auth_identity", "require_tls", "force_implicit_tls"})
      e == OrBoth(d, g, {"auth_password", "auth_password_file"})
  IN  Completed(Has(d, {"smarthost"}) /\ Has(d, {"from"}),
                OrBoth(e, g, {"auth_secret", "auth_secret_file"}), h)

\* The app token is inherited when the entry has neither a token, nor an
\* authorization, nor an api_url.  Whoever has a token posts to the app's
\* address with the token as its authorization, which goes into a copy of the
\* global HTTP client settings.
slackLoad(c, h, g, gh) ==
  LET tokens == {"app_token", "app_token_file"}
      urls   == {"api_url", "api_url_file"}
      d == Or(c, g, {"app_url"})
      e == IF ~Has(c, tokens) /\ (c["http_config"] = "none" \/ h.auth = "none")
                /\ c["api_url"] = "none"
             THEN Take(d, g, tokens) ELSE d
      f == OrBoth(e, g, urls)
      k == IF c["http_config"] = "none" THEN gh ELSE h
      k2 == IF Has(f, tokens) THEN [k EXCEPT !.auth = "token"] ELSE k
  IN  Completed(/\ Has(d, {"app_url"})
                /\ Has(f, urls \cup tokens)
                /\ ~(Has(f, tokens) /\ k.auth # "none"),
                [f EXCEPT !["http_config"] = IF @ = "none" THEN "copy" ELSE @,
                          !["api_url"] = IF Has(f, tokens) THEN "app" ELSE @],
                k2)

pushoverLoad(c, h, g, gh) == Completed(TRUE, HTTPConfig(c), h)

pagerdutyLoad(c, h, g, gh) ==
  LET d == Or(HTTPConfig(c), g, {"url"}) IN Completed(Has(d, {"url"}), d, h)

incidentioLoad(c, h, g, gh) == Completed(TRUE, HTTPConfig(c), h)

opsgenieLoad(c, h, g, gh) ==
  LET d == OrBoth(Or(HTTPConfig(c), g, {"api_url"}), g, {"api_key", "api_key_file"})
  IN  Completed(Has(d, {"api_url"}) /\ Has(d, {"api_key", "api_key_file"}), d, h)

wechatLoad(c, h, g, gh) ==
  LET d == OrBoth(Or(HTTPConfig(c), g, {"api_url", "corp_id"}), g,
                  {"api_secret", "api_secret_file"})
  IN  Completed(/\ Has(d, {"api_url"}) /\ Has(d, {"corp_id"})
                /\ Has(d, {"api_secret", "api_secret_file"}), d, h)

victoropsLoad(c, h, g, gh) ==
  LET d == OrBoth(Or(HTTPConfig(c), g, {"api_url"}), g, {"api_key", "api_key_file"})
  IN  Completed(Has(d, {"api_url"}) /\ Has(d, {"api_key", "api_key_file"}), d, h)

snsLoad(c, h, g, gh) == Completed(TRUE, HTTPConfig(c), h)

telegramLoad(c, h, g, gh) ==
  LET d == OrBoth(Or(HTTPConfig(c), g, {"api_url"}), g, {"bot_token", "bot_token_file"})
  IN  Completed(Has(d, {"bot_token", "bot_token_file"}), d, h)

discordLoad(c, h, g, gh) ==
  Completed(Has(c, {"webhook_url", "webhook_url_file"}), HTTPConfig(c), h)

webexLoad(c, h, g, gh) ==
  LET d == Or(HTTPConfig(c), g, {"api_url"}) IN Completed(Has(d, {"api_url"}), d, h)

msteamsLoad(c, h, g, gh) ==
  Completed(Has(c, {"webhook_url", "webhook_url_file"}), HTTPConfig(c), h)

\* A copy of the global settings, or the global proxy in the entry's own.
msteamsv2Load(c, h, g, gh) ==
  Completed(Has(c, {"webhook_url", "webhook_url_file"}),
            Or(c, [http_config |-> "copy"], {"http_config"}),
            IF c["http_config"] = "none" THEN gh
            ELSE [h EXCEPT !.proxy = IF @ = "none" THEN gh.proxy ELSE @])

jiraLoad(c, h, g, gh) ==
  LET d == Or(HTTPConfig(c), g, {"api_url"}) IN Completed(Has(d, {"api_url"}), d, h)

rocketchatLoad(c, h, g, gh) ==
  LET d == Or(HTTPConfig(c), g, {"api_url"})
      e == OrBoth(OrBoth(d, g, {"token_id", "token_id_file"}), g, {"token", "token_file"})
  IN  Completed(Has(e, {"token_id", "token_id_file"}) /\ Has(e, {"token", "token_file"}), e, h)

mattermostLoad(c, h, g, gh) ==
  LET d == OrBoth(HTTPConfig(c), g, {"webhook_url", "webhook_url_file"})
  IN  Completed(Has(d, {"webhook_url", "webhook_url_file"}), d, h)

Load(kind, c, h, g, gh) ==
  CASE kind = "webhook"    -> webhookLoad(c, h, g, gh)
    [] kind = "email"      -> emailLoad(c, h, g, gh)
    [] kind = "slack"      -> slackLoad(c, h, g, gh)
    [] kind = "pushover"   -> pushoverLoad(c, h, g, gh)
    [] kind = "pagerduty"  -> pagerdutyLoad(c, h, g, gh)
    [] kind = "incidentio" -> incidentioLoad(c, h, g, gh)
    [] kind = "opsgenie"   -> opsgenieLoad(c, h, g, gh)
    [] kind = "wechat"     -> wechatLoad(c, h, g, gh)
    [] kind = "victorops"  -> victoropsLoad(c, h, g, gh)
    [] kind = "sns"        -> snsLoad(c, h, g, gh)
    [] kind = "telegram"   -> telegramLoad(c, h, g, gh)
    [] kind = "discord"    -> discordLoad(c, h, g, gh)
    [] kind = "webex"      -> webexLoad(c, h, g, gh)
    [] kind = "msteams"    -> msteamsLoad(c, h, g, gh)
    [] kind = "msteamsv2"  -> msteamsv2Load(c, h, g, gh)
    [] kind = "jira"       -> jiraLoad(c, h, g, gh)
    [] kind = "rocketchat" -> rocketchatLoad(c, h, g, gh)
    [] kind = "mattermost" -> mattermostLoad(c, h, g, gh)

\* The addresses these notifiers append a path to get a trailing slash.
Slashed == {"opsgenie", "wechat", "victorops"}

WithSlash(n) == IF n = 0 THEN 1 ELSE n

-----------------------------------------------------------------------------
(* The steps of reading a file.                                            *)

Entries == DOMAIN file.entries

KindOf(i) == file.entries[i].kind

\* An entry may be null in the file: a nil pointer in the receiver's slice.
Null(i) == file.entries[i].null

GlobalOf(kind) ==
  Decode(kind, IF kind \in DOMAIN file.global THEN file.global[kind] ELSE <<>>)

\* The settings a notifier of entry i reaches through its http_config.
CellOf(i) == IF conf[i]["http_config"] = "global" THEN cell[0] ELSE cell[i]

ConfInit ==
  /\ \E shape \in DOMAIN Files : file \in Files[shape]
  /\ stage = "decode" /\ at = 1
  /\ conf = [i \in Entries |-> Decode(KindOf(i), file.entries[i].set)]
  /\ cell = [i \in {0} \cup Entries |-> IF i = 0 THEN file.http ELSE file.entries[i].http]
  /\ slash = [global |-> [k \in Slashed |-> file.slash],
              own    |-> [i \in Entries |-> file.slash]]
  /\ client = [i \in Entries |-> "none"]

\* Every entry that is not null is decoded and validated; the first that fails
\* ends the reading.
Faulty(i) == ~Null(i) /\ ~Validate(KindOf(i), conf[i], cell[i])

Panics(i) == ~Null(i) /\ KindOf(i) = "slack" /\ ~Has(conf[i], {"malformed"}) /\ slackPanics(conf[i])

DecodeEntries ==
  /\ stage = "decode"
  /\ stage' = IF \E i \in Entries : Panics(i) /\ \A j \in 1..(i - 1) : ~Faulty(j)
                THEN "panic"
              ELSE IF \E i \in Entries : Faulty(i) THEN "rejected" ELSE "globals"
  /\ UNCHANGED <<file, at, conf, cell, slash, client>>

\* The global section must not hold a value inline and in a file; an app token
\* and an api_url only go together when the api_url is the app's.
GlobalPairs ==
  [slack      |-> {{"app_token", "app_token_file"}, {"api_url", "api_url_file"}},
   opsgenie   |-> {{"api_key", "api_key_file"}},
   victorops  |-> {{"api_key", "api_key_file"}},
   telegram   |-> {{"bot_token", "bot_token_file"}},
   email      |-> {{"auth_password", "auth_password_file"},
                   {"auth_secret", "auth_secret_file"}},
   rocketchat |-> {{"token", "token_file"}, {"token_id", "token_id_file"}},
   wechat     |-> {{"api_secret", "api_secret_file"}},
   mattermost |-> {{"webhook_url", "webhook_url_file"}}]

CheckGlobals ==
  LET g == GlobalOf("slack")
      both == Has(g, {"app_token", "app_token_file"}) /\ Has(g, {"api_url", "api_url_file"})
      pairs == \A k \in DOMAIN GlobalPairs : \A p \in GlobalPairs[k] : AtMostOne(GlobalOf(k), p)
  IN  /\ stage = "globals"
      /\ stage' = IF \E p \in GlobalPairs["slack"] : ~AtMostOne(g, p) THEN "rejected"
                  ELSE IF both /\ g["api_url"] = "none" THEN "panic"
                  ELSE IF (both /\ g["api_url"] # "app") \/ ~pairs THEN "rejected"
                  ELSE "load"
      /\ UNCHANGED <<file, at, conf, cell, slash, client>>

\* A null entry is refused, or replaced by an empty one that is completed and
\* then forgotten: the receiver keeps the nil pointer.
Replaced == {"slack", "opsgenie", "wechat", "rocketchat"}

LoadEntry ==
  /\ stage = "load" /\ at \in Entries
  /\ LET kind == KindOf(at)
         r == Load(kind, conf[at], cell[at], GlobalOf(kind), cell[0])
         own == conf[at]["api_url"] = "own"
     IN  IF (Null(at) /\ kind \notin Replaced) \/ ~r.ok
           THEN stage' = "rejected" /\ UNCHANGED <<at, conf, cell, slash>>
           ELSE /\ at' = at + 1
                /\ conf' = IF Null(at) THEN conf ELSE [conf EXCEPT ![at] = r.c]
                /\ cell' = IF Null(at) THEN cell ELSE [cell EXCEPT ![at] = r.h]
                /\ slash' = IF kind \notin Slashed THEN slash
                            ELSE IF own THEN [slash EXCEPT !.own[at] = WithSlash(@)]
                            ELSE [slash EXCEPT !.global[kind] = WithSlash(@)]
                /\ UNCHANGED stage
  /\ UNCHANGED <<file, client>>

\* resolveFilepaths: the certificate of the global settings and of every
\* integration it lists is joined with the directory of the file, through the
\* pointer the entry holds.  Joining makes a path absolute when the directory
\* is; with "." it changes nothing.
Resolved == EntryKinds \ {"incidentio", "email"}

Join(h, n) ==
  [h EXCEPT !.joined = CASE file.dir = "absolute" -> IF n = 0 THEN @ ELSE 1
                         [] file.dir = "relative" -> @ + n
                         [] OTHER -> @]

resolveFilepaths ==
  LET through(j) == {i \in Entries : /\ KindOf(i) \in Resolved
                                     /\ j = IF conf[i]["http_config"] = "global" THEN 0 ELSE i}
      times(j) == (IF j = 0 THEN 1 ELSE 0) + Cardinality(through(j))
  IN  /\ stage = "load" /\ at \notin Entries
      /\ stage' = IF \E i \in Entries : Null(i) THEN "panic" ELSE "build"
      /\ cell' = [j \in DOMAIN cell |-> Join(cell[j], times(j))]
      /\ UNCHANGED <<file, at, conf, slash, client>>

\* Mutant: incidentio puts its token into the settings it was given.
BuildInPlace ==
  /\ stage = "build"
  /\ client' = [i \in Entries |->
                  IF \E j \in 1..i : /\ KindOf(j) = "incidentio"
                                     /\ Has(conf[j], {"alert_source_token", "alert_source_token_file"})
                                     /\ j = i \/ (conf[i]["http_config"] = "global" /\ conf[j]["http_config"] = "global")
                    THEN "token" ELSE CellOf(i).auth]
  /\ stage' = "built"
  /\ UNCHANGED <<file, at, conf, cell, slash>>

\* BuildReceiverIntegrations: each notifier makes its client from its settings;
\* incidentio puts its token into a copy of them.
Build ==
  /\ stage = "build"
  /\ client' = [i \in Entries |->
                  IF KindOf(i) = "incidentio" /\ Has(conf[i], {"alert_source_token", "alert_source_token_file"})
                    THEN "token" ELSE CellOf(i).auth]
  /\ stage' = "built"
  /\ UNCHANGED <<file, at, conf, cell, slash>>

\* A notifier cannot be made, for a token file or a certificate is not there.
BuildFails ==
  /\ stage = "build" /\ stage' = "rejected"
  /\ UNCHANGED <<file, at, conf, cell, slash, client>>

ConfNext == DecodeEntries \/ CheckGlobals \/ LoadEntry \/ resolveFilepaths \/ Build \/ BuildFails

-----------------------------------------------------------------------------
(* Properties.                                                             *)

\* The options each notifier reads: of every set it needs one.
Needs ==
  [webhook    |-> {{"url", "url_file"}},
   email      |-> {{"to"}, {"smarthost"}, {"from"}},
   slack      |-> {{"api_url", "api_url_file"}},
   pushover   |-> {{"user_key", "user_key_file"}, {"token", "token_file"}},
   pagerduty  |-> {{"url"}, {"routing_key", "routing_key_file", "service_key", "service_key_file"}},
   incidentio |-> {{"url", "url_file"}},
   opsgenie   |-> {{"api_url"}, {"api_key", "api_key_file"}},
   wechat     |-> {{"api_url"}, {"corp_id"}, {"api_secret", "api_secret_file"}},
   victorops  |-> {{"api_url"}, {"routing_key"}, {"api_key", "api_key_file"}},
   sns        |-> {{"target_arn", "topic_arn", "phone_number"}},
   telegram   |-> {{"api_url"}, {"bot_token", "bot_token_file"}, {"chat_id", "chat_id_file"}},
   discord    |-> {{"webhook_url", "webhook_url_file"}},
   webex      |-> {{"api_url"}, {"room_id"}},
   msteams    |-> {{"webhook_url", "webhook_url_file"}},
   msteamsv2  |-> {{"webhook_url", "webhook_url_file"}},
   jira       |-> {{"api_url"}, {"project"}, {"issue_type"}},
   rocketchat |-> {{"api_url"}, {"token", "token_file"}, {"token_id", "token_id_file"}},
   mattermost |-> {{"webhook_url", "webhook_url_file"}}]

Built == stage = "built"

\* Every notifier built from a file that was accepted finds each option it
\* reads, and the HTTP client settings it makes its client from: no pointer
\* that a notifier follows is nil, whichever of the values came from the entry
\* and whichever from the global section.
BuiltIsComplete ==
  Built => \A i \in Entries :
             /\ KindOf(i) # "email" => Has(conf[i], {"http_config"})
             /\ \A fs \in Needs[KindOf(i)] : Has(conf[i], fs)

\* Values that may be inline or in a file.
Secrets(kind) == {fs \in Needs[kind] \cup (IF kind = "email" THEN GlobalPairs["email"] ELSE {}) :
                    \E f, h \in fs : f # h} \ (IF kind \in {"pagerduty", "sns"} THEN Needs[kind] ELSE {})

\* What an integration's entry says about a value, inline or in a file, is what
\* its notifier uses: no value from the global section stands beside it, for
\* the notifiers look at one of the two places first.
OwnSettingWins ==
  Built => \A i \in Entries : \A fs \in Secrets(KindOf(i)) :
             Has(Decode(KindOf(i), file.entries[i].set), fs) =>
               \A f \in fs : conf[i][f] = Decode(KindOf(i), file.entries[i].set)[f]

\* An app token or an alert source token authorizes the requests of the
\* integration it belongs to and of no other, although they share the global
\* HTTP client settings; every other client has the authorization of the
\* settings it was given.
TokensStayApart ==
  Built => /\ cell[0].auth = file.http.auth
           /\ \A i \in Entries :
                IF client[i] = "token"
                  THEN \/ KindOf(i) = "slack" /\ Has(conf[i], {"app_token", "app_token_file"})
                       \/ KindOf(i) = "incidentio"
                  ELSE client[i] = IF "http_config" \in DOMAIN file.entries[i].set
                                     THEN file.entries[i].http.auth ELSE file.http.auth

\* The addresses that a path is appended to end in exactly one slash, however
\* many integrations share the global address.
OneSlash ==
  Built => \A i \in Entries : KindOf(i) \in Slashed =>
             (IF conf[i]["api_url"] = "own" THEN slash.own[i] ELSE slash.global[KindOf(i)]) = 1

\* The certificate an integration's client reads is named relative to the
\* directory of the configuration file.  (Not said of incidentio, which
\* resolveFilepaths leaves out, nor of settings that entries share in a
\* relative directory, which are joined once more for each of them.)
CertificatesFound ==
  Built => \A i \in Entries :
             /\ KindOf(i) \notin {"email", "incidentio"}
             /\ file.dir = "relative" => conf[i]["http_config"] # "global"
             => CellOf(i).joined = IF file.dir = "dot" THEN 0 ELSE 1
=============================================================================

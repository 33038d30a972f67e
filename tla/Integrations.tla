---------------------------- MODULE Integrations ----------------------------
(***************************************************************************)
(* The notification integrations (notify/<name>/): what one call of Notify *)
(* does step by step, which errors it asks RetryStage to retry, and what   *)
(* the service on the other side has accepted when the call reports        *)
(* success.                                                                *)
(*                                                                         *)
(* A call is a sequence of steps, `todo'.  A step renders templates, reads *)
(* a file, or sends a request to the service.  The service may accept a    *)
(* request, refuse it with a status code or in the body of a 200 answer,   *)
(* or accept or miss it and lose the answer.  Texts are model values; a    *)
(* text that was put together although a template failed is not `whole'.   *)
(***************************************************************************)
EXTENDS Integers, Sequences, FiniteSets

CONSTANTS Groups,     \* aggregation groups that share one notifier
          Kinds,      \* the integrations, with their relevant settings
          Texts,      \* what templates make of the alerts of a flush
          Idle,       \* no flush is running
          Nothing     \* no message, no text, no issue

KnownKinds == {"webhook", "discord", "msteams", "msteamsv2", "mattermost", "incidentio", "pushover",
               "victorops", "webex", "telegram", "sns", "pagerdutyv1", "pagerduty", "rocketchat",
               "slack", "slackupdate", "opsgenie", "opsgenieupdate", "wechat", "wechatshared",
               "jira", "jiraplain", "email", "smtps", "emailplain"}

\* There is a group, the integrations are known, and Nothing is no issue.
NotifierSetting ==
  /\ Groups # {} /\ Kinds \subseteq KnownKinds
  /\ \A n \in 1..3, done \in BOOLEAN : Nothing # [id |-> n, done |-> done]

VARIABLES kind,       \* the integration of this behaviour, never changes
          users,      \* the groups that use it, never changes
          job,        \* what a group's flush has to tell, or Idle
          todo,       \* the steps left of the current call of Notify
          whole,      \* no template has failed unnoticed in this call
          bad,        \* a template of this flush does not render
          late,       \* the context of the flush has ended
          result,     \* how the last flush ended
          cause,      \* auxiliary: why the last attempt failed
          said,       \* the last message the service accepted
          token,      \* wechat: the cached access token
          thread,     \* slack: threadTs and channelId are in the nflog store
          posts,      \* slack: messages in the channel, up to 2
          missed,     \* auxiliary: an answer or the nflog entry was lost
          alias,      \* opsgenie: the alert with the group's alias
          issues,     \* jira: the issues labelled with the group key
          found,      \* jira: the issue the search found, as it was then
          touched,    \* auxiliary: somebody closed an issue during the flush
          smtp,       \* email: the session with the smart host
          healthy     \* from now on nothing goes wrong any more

vars == <<kind, users, job, todo, whole, bad, late, result, cause, said, token,
          thread, posts, missed, alias, issues, found, touched, smtp, healthy>>

Codes == {400, 403, 429, 500}

-----------------------------------------------------------------------------
(* Steps. *)

\* Retrier.Check for a status that is not 2xx: whether to retry.
Check(extra, code) == code \div 100 = 5 \/ code \in extra

\* Templates, rendered with TmplText or TmplHTML and checked afterwards.
Render(retry) == [do |-> "render", retry |-> retry]

\* Templates whose error is never looked at.
RenderLoose == [do |-> "loose", retry |-> FALSE]

\* A secret or a URL that is read from a file.
ReadFile(retry) == [do |-> "read", retry |-> retry]

\* A request; `codes' are retried besides 5xx, `retry' says whether an error
\* of the transport is, and `body' whether a 200 answer is looked into.
Request(do, codes, retry, body) ==
  [do |-> do, codes |-> codes, retry |-> retry, body |-> body]

\* PostJSON and PostText: the error of client.Do is retried by all callers.
Post(codes) == Request("post", codes, TRUE, FALSE)

IsRequest(s) == s.do \notin {"render", "loose", "read"}

-----------------------------------------------------------------------------
(* The notifiers: the codes New gives the retrier, and the steps of Notify. *)

webhookRetry == {}
webhookNotify == <<Render(FALSE), ReadFile(FALSE), Render(FALSE), Post(webhookRetry)>>

discordRetry == {}
discordNotify == <<Render(FALSE), ReadFile(FALSE), Post(discordRetry)>>

msteamsRetry == {}
msteamsNotify == <<Render(FALSE), ReadFile(FALSE), Post(msteamsRetry)>>

msteamsv2Retry == {}
msteamsv2Notify == <<Render(FALSE), ReadFile(FALSE), Post(msteamsv2Retry)>>

mattermostRetry == {}
mattermostNotify == <<ReadFile(FALSE), Render(FALSE), Post(mattermostRetry)>>

incidentioRetry == {429}
incidentioNotify == <<ReadFile(FALSE), Post(incidentioRetry)>>

pushoverRetry == {}
pushoverNotify == <<ReadFile(FALSE), ReadFile(FALSE), Render(FALSE), Post(pushoverRetry)>>

\* The payload is rendered in a function of its own, whose errors are retried.
victoropsRetry == {}
createVictorOpsPayload == Render(TRUE)
victoropsNotify ==
  <<ReadFile(FALSE), Render(FALSE), createVictorOpsPayload, Post(victoropsRetry)>>

\* The room is rendered after the last look at the templates' error.
webexRetry == {}
webexNotify == <<Render(FALSE), RenderLoose, Post(webexRetry)>>

\* Every error but those of the templates is retried.
telegramRetry == Codes
getBotToken == ReadFile(TRUE)
getChatID == ReadFile(TRUE)
telegramNotify == <<Render(FALSE), getBotToken, getChatID, Post(telegramRetry)>>

\* Errors of templates are retried too.
snsRetry == {}
createSNSClient == Render(TRUE)
createPublishInput == Render(TRUE)
snsNotify == <<createSNSClient, createPublishInput, Post(snsRetry)>>

pagerdutyV1Retry == {403}
pagerdutyV2Retry == {429}
renderDetails == Render(FALSE)
notifyV1 == <<ReadFile(FALSE), Render(FALSE), Post(pagerdutyV1Retry)>>
notifyV2 == <<ReadFile(FALSE), Render(FALSE), Post(pagerdutyV2Retry)>>
pagerdutyNotify(v1) == <<renderDetails>> \o (IF v1 THEN notifyV1 ELSE notifyV2)

\* A 200 answer may hold an error, which is not retried; a body that cannot
\* be read or decoded is.
rocketchatRetry == {}
rocketchatNotify == <<Render(FALSE), Request("post", rocketchatRetry, TRUE, TRUE)>>

\* Slack: the templates' error is never looked at.
slackRetry == {429}
slackRender == <<RenderLoose, ReadFile(FALSE)>>
slackPost == <<Request("post", slackRetry, TRUE, TRUE)>>
slackNotify == slackRender \o slackPost

\* OpsGenie: one request to close, one to create, two more to update.  All of
\* them are made before the first is sent.
opsgenieRetry == {429}
opsgenieClose == <<Request("close", opsgenieRetry, TRUE, FALSE)>>
opsgenieCreate == <<Request("create", opsgenieRetry, TRUE, FALSE)>>
opsgenieUpdate == <<Request("message", opsgenieRetry, TRUE, FALSE),
                    Request("description", opsgenieRetry, TRUE, FALSE)>>
opsgenieNotify(firing, update) ==
  <<ReadFile(FALSE), Render(FALSE)>> \o
  (IF ~firing THEN opsgenieClose
   ELSE opsgenieCreate \o (IF update THEN opsgenieUpdate ELSE <<>>))

\* WeChat: a token is fetched when none is cached.  The status of that answer
\* is not looked at; a body without a token is an error that is not retried.
\* A message that is answered with anything but 200 is sent again.
wechatToken == <<ReadFile(FALSE), Request("token", {}, TRUE, FALSE)>>
wechatSend == <<Render(FALSE), Request("post", Codes, TRUE, TRUE)>>
wechatNotify(fetch) == (IF fetch THEN wechatToken ELSE <<>>) \o wechatSend

\* Jira: an error of the transport is not retried.
jiraRetry == {429}
doAPIRequest(do) == Request(do, jiraRetry, FALSE, FALSE)
prepareIssueRequestBody == Render(FALSE)
jiraSearch == <<Render(FALSE), doAPIRequest("search")>>

\* The transitions are configured in the kind "jira".  An issue is moved when
\* it was done and the group fires, or was open and the group does not.
transitionIssue(k, f, firing) ==
  IF k = "jira" /\ f # Nothing /\ f.done = firing
    THEN <<doAPIRequest("lookup"), doAPIRequest("transition")>> ELSE <<>>

\* Mutant: an issue that was resolved is replaced, and reopened as well.
jiraRestAnew(k, f, firing) ==
  IF f = Nothing /\ ~firing THEN <<>>
  ELSE <<prepareIssueRequestBody,
         doAPIRequest(IF f = Nothing \/ f.done THEN "issue" ELSE "update")>>
       \o transitionIssue(k, f, firing)

\* No issue is created for a group that has been resolved.
jiraRest(k, f, firing) ==
  IF f = Nothing /\ ~firing THEN <<>>
  ELSE <<prepareIssueRequestBody, doAPIRequest(IF f = Nothing THEN "issue" ELSE "update")>>
       \o transitionIssue(k, f, firing)

\* Email: every error of the session is retried, except those of writing the
\* message.
smtpCommand(do) == Request(do, Codes, TRUE, FALSE)
smtpWrite == Request("write", {}, FALSE, FALSE)
emailConnect(requireTLS, implicitTLS) ==
  <<smtpCommand(IF implicitTLS THEN "dialtls" ELSE "dial"), smtpCommand("hello")>> \o
  (IF requireTLS /\ ~implicitTLS THEN <<smtpCommand("starttls")>> ELSE <<>>) \o
  <<ReadFile(TRUE), smtpCommand("auth")>>
emailEnvelope == <<Render(FALSE), smtpCommand("mail"), smtpCommand("rcpt"), smtpCommand("data")>>
emailMessage == <<Render(FALSE), smtpWrite, Render(FALSE), smtpWrite>>
emailNotify(requireTLS, implicitTLS) ==
  emailConnect(requireTLS, implicitTLS) \o emailEnvelope \o emailMessage \o
  <<smtpCommand("end")>>

\* What a call of Notify starts with.
Notify(k, j, fetch) ==
  CASE k = "webhook"     -> webhookNotify
    [] k = "discord"     -> discordNotify
    [] k = "msteams"     -> msteamsNotify
    [] k = "msteamsv2"   -> msteamsv2Notify
    [] k = "mattermost"  -> mattermostNotify
    [] k = "incidentio"  -> incidentioNotify
    [] k = "pushover"    -> pushoverNotify
    [] k = "victorops"   -> victoropsNotify
    [] k = "webex"       -> webexNotify
    [] k = "telegram"    -> telegramNotify
    [] k = "sns"         -> snsNotify
    [] k = "pagerdutyv1" -> pagerdutyNotify(TRUE)
    [] k = "pagerduty"   -> pagerdutyNotify(FALSE)
    [] k = "rocketchat"  -> rocketchatNotify
    [] k \in {"slack", "slackupdate"} -> slackNotify
    [] k = "opsgenie"    -> opsgenieNotify(j.firing, FALSE)
    [] k = "opsgenieupdate" -> opsgenieNotify(j.firing, TRUE)
    [] k \in {"wechat", "wechatshared"} -> wechatNotify(fetch)
    [] k \in {"jira", "jiraplain"} -> jiraSearch
    [] k = "email"       -> emailNotify(TRUE, FALSE)
    [] k = "smtps"       -> emailNotify(TRUE, TRUE)
    [] k = "emailplain"  -> emailNotify(FALSE, FALSE)

-----------------------------------------------------------------------------
(* One call of Notify. *)

NoSession == [tls |-> FALSE, bare |-> FALSE, open |-> FALSE, ends |-> 0, up |-> TRUE]
NoAlert == [open |-> FALSE, message |-> Nothing, description |-> Nothing]

Init ==
  /\ kind \in Kinds
  /\ users = IF kind = "wechatshared" THEN Groups ELSE {CHOOSE g \in Groups : TRUE}
  /\ job = [g \in Groups |-> Idle]
  /\ todo = [g \in Groups |-> <<>>]
  /\ whole = [g \in Groups |-> TRUE]
  /\ bad = [g \in Groups |-> FALSE]
  /\ late = [g \in Groups |-> FALSE]
  /\ result = [g \in Groups |-> "none"]
  /\ cause = [g \in Groups |-> <<>>]
  /\ said = [g \in Groups |-> Nothing]
  /\ token = "none"
  /\ thread = FALSE /\ posts = 0 /\ missed = FALSE
  /\ alias = NoAlert
  /\ issues = {} /\ found = Nothing /\ touched = FALSE
  /\ smtp = NoSession
  /\ healthy = FALSE

Step(g) == Head(todo[g])
At(g, do) == todo[g] # <<>> /\ Step(g).do = do
AtRequest(g) == todo[g] # <<>> /\ IsRequest(Step(g))
Message(g, w) == [firing |-> job[g].firing, text |-> job[g].text, whole |-> w]

\* The service, and what the notifier remembers of it from call to call.
serviceVars == <<said, posts, alias, issues>>
memory == <<token, thread, missed, found, touched>>
fixed == <<kind, users, healthy>>

\* What goes wrong before the surroundings recover; where two groups share a
\* notifier only the token does.
MayFail == ~healthy /\ kind # "wechatshared"

\* The text matters only where a service keeps it from one flush to the next.
Told(k) == IF k \in {"opsgenieupdate", "jira", "jiraplain"} THEN Texts
           ELSE {CHOOSE t \in Texts : TRUE}

\* A flush reaches RetryStage.
Begin(g) ==
  /\ job[g] = Idle
  /\ \E firing \in BOOLEAN, text \in Told(kind), b \in BOOLEAN :
       /\ ~MayFail => ~b
       /\ job' = [job EXCEPT ![g] = [firing |-> firing, text |-> text]]
       /\ bad' = [bad EXCEPT ![g] = b]
  /\ result' = [result EXCEPT ![g] = "none"]
  /\ cause' = [cause EXCEPT ![g] = <<>>]
  /\ touched' = FALSE
  /\ UNCHANGED <<todo, whole, late, smtp, token, thread, missed, found>>
  /\ UNCHANGED serviceVars /\ UNCHANGED fixed

\* Mutant: the context of the flush is kept for the next one.
ReturnLate(g, r) ==
  /\ job' = [job EXCEPT ![g] = Idle]
  /\ bad' = [bad EXCEPT ![g] = FALSE]
  /\ UNCHANGED late
  /\ result' = [result EXCEPT ![g] = r]

Return(g, r) ==
  /\ job' = [job EXCEPT ![g] = Idle]
  /\ bad' = [bad EXCEPT ![g] = FALSE]
  /\ late' = [late EXCEPT ![g] = FALSE]
  /\ result' = [result EXCEPT ![g] = r]

\* The loop of RetryStage.exec: the context is looked at before every call.
Tick(g) ==
  /\ job[g] # Idle
  /\ todo[g] = <<>>
  /\ IF late[g]
       THEN Return(g, "late") /\ UNCHANGED <<todo, whole, smtp>>
       ELSE /\ \E old \in BOOLEAN :
                 todo' = [todo EXCEPT ![g] = Notify(kind, job[g], token = "none" \/ old)]
            /\ whole' = [whole EXCEPT ![g] = TRUE]
            /\ smtp' = NoSession
            /\ UNCHANGED <<job, bad, late, result>>
  /\ UNCHANGED cause
  /\ UNCHANGED memory /\ UNCHANGED serviceVars /\ UNCHANGED fixed

\* Notify goes on with the rest of its steps, or returns without an error.
Continue(g, rest) ==
  /\ todo' = [todo EXCEPT ![g] = rest]
  /\ IF rest = <<>> THEN Return(g, "ok") ELSE UNCHANGED <<job, bad, late, result>>
  /\ UNCHANGED <<whole, cause>>

\* Notify returns an error, and RetryStage gives up unless it may retry.
Fail(g, retry, why) ==
  /\ cause' = [cause EXCEPT ![g] = <<why, Step(g).do>>]
  /\ todo' = [todo EXCEPT ![g] = <<>>]
  /\ IF retry THEN UNCHANGED <<job, bad, late, result>> ELSE Return(g, "failed")
  /\ UNCHANGED whole

\* The deferred closeOnce: a message that was begun is ended when the call
\* returns, and the server takes what there is of it.
closeOnce(g) ==
  IF smtp.open /\ smtp.ends = 0
    THEN /\ smtp' = [smtp EXCEPT !.ends = 1]
         /\ said' = [said EXCEPT ![g] = Message(g, FALSE)]
    ELSE UNCHANGED <<smtp, said>>

\* The template that does not render may be used in a later step.
RendersLater(g) == \E i \in 2..Len(todo[g]) : todo[g][i].do \in {"render", "loose", "search"}

\* TmplText and TmplHTML, and the check of their error.
RenderStep(g) ==
  /\ At(g, "render")
  /\ \/ bad[g] /\ Fail(g, Step(g).retry, "permanent") /\ closeOnce(g)
     \/ /\ ~bad[g] \/ RendersLater(g)
        /\ Continue(g, Tail(todo[g]))
        /\ UNCHANGED <<smtp, said>>
  /\ UNCHANGED <<posts, alias, issues>>
  /\ UNCHANGED memory /\ UNCHANGED fixed

\* Once a template has failed the function of TmplText returns nothing, and
\* nobody looks at the error.
LooseStep(g) ==
  /\ At(g, "loose")
  /\ whole' = [whole EXCEPT ![g] = ~bad[g]]
  /\ todo' = [todo EXCEPT ![g] = Tail(@)]
  /\ UNCHANGED <<job, bad, late, result, cause, smtp>>
  /\ UNCHANGED memory /\ UNCHANGED serviceVars /\ UNCHANGED fixed

ReadStep(g) ==
  /\ At(g, "read")
  /\ \/ Continue(g, Tail(todo[g]))
     \/ MayFail /\ Fail(g, Step(g).retry, "permanent")
  /\ UNCHANGED smtp
  /\ UNCHANGED memory /\ UNCHANGED serviceVars /\ UNCHANGED fixed

-----------------------------------------------------------------------------
(* The services, external: what they do with a request they take. *)

\* OpsGenie ignores a request to create an alert that is open already.
Alias(do, text) ==
  CASE do = "create" -> IF alias.open THEN alias
                        ELSE [open |-> TRUE, message |-> text, description |-> text]
    [] do = "message" /\ alias.open -> [alias EXCEPT !.message = text]
    [] do = "description" /\ alias.open -> [alias EXCEPT !.description = text]
    [] do = "close" -> NoAlert
    [] OTHER -> alias

Issues(do, j) ==
  LET new == CHOOSE n \in 1..3 : \A i \in issues : i.id # n
      Found == {i \in issues : found # Nothing /\ i.id = found.id}
      change(i) == IF do = "update" THEN [i EXCEPT !.text = j.text]
                   ELSE [i EXCEPT !.open = j.firing] IN
  CASE do = "issue" -> issues \cup {[id |-> new, open |-> TRUE, text |-> j.text]}
    [] do \in {"update", "transition"} -> (issues \ Found) \cup {change(i) : i \in Found}
    [] OTHER -> issues

\* A message in a thread replaces the one before; posts are counted up to two.
Applied(g) ==
  LET do == Step(g).do IN
  /\ said' = IF do \in {"post", "end"} THEN [said EXCEPT ![g] = Message(g, whole[g])] ELSE said
  /\ posts' = IF kind = "slackupdate" /\ do = "post" /\ ~thread /\ posts < 2 THEN posts + 1 ELSE posts
  /\ alias' = Alias(do, job[g].text)
  /\ issues' = Issues(do, job[g])

\* The SMTP session after a command that the server takes.
Session(do) ==
  CASE do \in {"dialtls", "starttls"} -> [smtp EXCEPT !.tls = TRUE]
    [] do = "auth" -> [smtp EXCEPT !.bare = ~smtp.tls]
    [] do = "data" -> [smtp EXCEPT !.open = TRUE]
    [] do = "end" -> [smtp EXCEPT !.ends = @ + 1]
    [] OTHER -> smtp

-----------------------------------------------------------------------------
(* Requests and their answers. *)

\* wechat: the service takes a message only with a token that is valid.
Valid(g) == kind \in {"wechat", "wechatshared"} /\ At(g, "post") => token = "fresh"

\* slackResponseHandler keeps the thread and Notify of wechat the token.
Remember(do) ==
  /\ token' = IF do = "token" THEN "fresh" ELSE token
  /\ thread' = (thread \/ (kind = "slackupdate" /\ do = "post"))

\* The service takes the request and says so.
Accepted(g) ==
  /\ AtRequest(g) /\ ~At(g, "search") /\ Valid(g)
  /\ Applied(g)
  /\ Remember(Step(g).do)
  /\ smtp' = Session(Step(g).do)
  /\ Continue(g, Tail(todo[g]))
  /\ UNCHANGED <<missed, found, touched>> /\ UNCHANGED fixed

\* searchExistingIssue.  Open issues come first; with a reopen transition the
\* recently resolved ones are candidates as well.
searchExistingIssue(g) ==
  /\ At(g, "search")
  /\ LET open == {i \in issues : i.open}
         done == IF kind = "jira" /\ job[g].firing THEN issues \ open ELSE {}
         first == IF open # {} THEN open ELSE done IN
     /\ \/ first = {} /\ found' = Nothing
        \/ \E i \in first : found' = [id |-> i.id, done |-> ~i.open]
     /\ Continue(g, jiraRest(kind, found', job[g].firing))
  /\ UNCHANGED <<token, thread, missed, touched, smtp>>
  /\ UNCHANGED serviceVars /\ UNCHANGED fixed

\* The service refuses with a status code.  An answer without a token is
\* never retried.
Refused(g) ==
  /\ MayFail /\ AtRequest(g) /\ ~At(g, "write")
  /\ \E code \in Codes :
       Fail(g, ~At(g, "token") /\ Check(Step(g).codes, code),
            IF code = 500 THEN "transient" ELSE "permanent")
  /\ smtp' = IF At(g, "end") THEN Session("end") ELSE smtp
  /\ UNCHANGED memory /\ UNCHANGED serviceVars /\ UNCHANGED fixed

\* Mutant: a 2xx status is enough.
RefusedInBodyUnseen(g) ==
  /\ MayFail /\ AtRequest(g) /\ Step(g).body
  /\ Continue(g, Tail(todo[g]))
  /\ UNCHANGED smtp
  /\ UNCHANGED memory /\ UNCHANGED serviceVars /\ UNCHANGED fixed

\* The service refuses in the body of an answer with status 200.
RefusedInBody(g) ==
  /\ MayFail /\ AtRequest(g) /\ Step(g).body
  /\ Fail(g, FALSE, "permanent")
  /\ UNCHANGED smtp
  /\ UNCHANGED memory /\ UNCHANGED serviceVars /\ UNCHANGED fixed

\* Mutant: the expired token stays in the cache.
TokenRefusedKept(g) ==
  /\ AtRequest(g) /\ ~Valid(g)
  /\ Fail(g, token = "expired", "token")
  /\ UNCHANGED smtp
  /\ UNCHANGED memory /\ UNCHANGED serviceVars /\ UNCHANGED fixed

\* wechat: an expired token is dropped and the message tried again; a message
\* without a token is refused like any other.
TokenRefused(g) ==
  /\ AtRequest(g) /\ ~Valid(g)
  /\ token' = "none"
  /\ Fail(g, token = "expired", "token")
  /\ UNCHANGED <<thread, missed, found, touched, smtp>>
  /\ UNCHANGED serviceVars /\ UNCHANGED fixed

MaybeApplied(g) == (Applied(g) /\ Valid(g)) \/ UNCHANGED serviceVars

\* The request or its answer is lost, or the context ends meanwhile.
Lost(g) ==
  /\ MayFail /\ AtRequest(g)
  /\ MaybeApplied(g)
  /\ Fail(g, Step(g).retry, "transient")
  /\ smtp' = [smtp EXCEPT !.up = FALSE]
  /\ missed' = TRUE
  /\ UNCHANGED <<token, thread, found, touched>> /\ UNCHANGED fixed

\* The body of the answer cannot be read or decoded.
Garbled(g) ==
  /\ MayFail /\ AtRequest(g)
  /\ Step(g).body \/ At(g, "search") \/ At(g, "lookup")
  /\ MaybeApplied(g)
  /\ Fail(g, Step(g).body, "transient")
  /\ missed' = TRUE
  /\ UNCHANGED <<token, thread, found, touched, smtp>> /\ UNCHANGED fixed

\* getIssueTransitionByName finds no transition of the configured name.
NoTransition(g) ==
  /\ MayFail /\ At(g, "lookup")
  /\ Fail(g, FALSE, "permanent")
  /\ UNCHANGED smtp
  /\ UNCHANGED memory /\ UNCHANGED serviceVars /\ UNCHANGED fixed

-----------------------------------------------------------------------------
(* The surroundings. *)

calls == <<job, todo, whole, bad, result, cause, smtp>>

\* The context of the flush ends; a healthy service answers before it does.
ContextEnds(g) ==
  /\ MayFail \/ bad[g]
  /\ job[g] # Idle /\ ~late[g]
  /\ late' = [late EXCEPT ![g] = TRUE]
  /\ UNCHANGED calls /\ UNCHANGED memory /\ UNCHANGED serviceVars /\ UNCHANGED fixed

TokenExpires ==
  /\ ~healthy /\ token = "fresh"
  /\ token' = "expired"
  /\ UNCHANGED <<thread, missed, found, touched, late>>
  /\ UNCHANGED calls /\ UNCHANGED serviceVars /\ UNCHANGED fixed

\* The entry of the notification log that holds the thread is not written,
\* or expires.
EntryLost ==
  /\ ~healthy /\ thread /\ \A g \in Groups : job[g] = Idle
  /\ thread' = FALSE
  /\ missed' = TRUE
  /\ UNCHANGED <<token, found, touched, late>>
  /\ UNCHANGED calls /\ UNCHANGED serviceVars /\ UNCHANGED fixed

\* Somebody resolves an issue: as fixed, or so that searches never find it.
SomebodyCloses ==
  /\ ~healthy
  /\ \E i \in issues :
       /\ i.open
       /\ \/ issues' = issues \ {i}
          \/ kind = "jira" /\ issues' = (issues \ {i}) \cup {[i EXCEPT !.open = FALSE]}
  /\ touched' = TRUE
  /\ UNCHANGED <<token, thread, missed, found, late, said, posts, alias>>
  /\ UNCHANGED calls /\ UNCHANGED fixed

\* The reopen duration of a resolved issue is over.
IssueAges ==
  /\ \E i \in issues : ~i.open /\ issues' = issues \ {i}
  /\ touched' = TRUE
  /\ UNCHANGED <<token, thread, missed, found, late, said, posts, alias>>
  /\ UNCHANGED calls /\ UNCHANGED fixed

Recovers ==
  /\ ~healthy /\ healthy' = TRUE
  /\ UNCHANGED late /\ UNCHANGED <<kind, users>>
  /\ UNCHANGED calls /\ UNCHANGED memory /\ UNCHANGED serviceVars

\* What a group's goroutine does, and the answers it gets.
Call(g) ==
  \/ Begin(g) \/ Tick(g) \/ RenderStep(g) \/ LooseStep(g) \/ ReadStep(g)
  \/ Accepted(g) \/ searchExistingIssue(g) \/ Refused(g) \/ RefusedInBody(g)
  \/ TokenRefused(g) \/ Lost(g) \/ Garbled(g) \/ NoTransition(g)

Next ==
  \/ \E g \in users : Call(g) \/ ContextEnds(g)
  \/ TokenExpires \/ EntryLost \/ SomebodyCloses \/ IssueAges \/ Recovers

\* Goroutines run, flushes are repeated every group interval and have contexts
\* that end, and some day the service works, files can be read and templates
\* render.
Fairness ==
  /\ WF_vars(Recovers)
  /\ \A g \in Groups : /\ WF_vars(g \in users /\ Call(g))
                       /\ WF_vars(g \in users /\ ContextEnds(g))

Spec == Init /\ [][Next]_vars /\ Fairness

-----------------------------------------------------------------------------
(* Properties. *)

\* Types, and: at most two issues of a group are open or were resolved lately,
\* only a flush has steps to do, and a call ends with its flush.
TypeOK ==
  /\ kind \in Kinds /\ users \subseteq Groups
  /\ \A g \in Groups :
       /\ job[g] \in {Idle} \cup [firing : BOOLEAN, text : Texts]
       /\ job[g] = Idle => todo[g] = <<>> /\ ~late[g] /\ ~bad[g]
       /\ result[g] \in {"none", "ok", "failed", "late"}
       /\ said[g] \in {Nothing} \cup [firing : BOOLEAN, text : Texts, whole : BOOLEAN]
  /\ token \in {"none", "fresh", "expired"}
  /\ posts \in 0..2 /\ thread \in BOOLEAN /\ missed \in BOOLEAN
  /\ issues \subseteq [id : 1..3, open : BOOLEAN, text : Texts]
  /\ Cardinality(issues) <= 2
  /\ found \in {Nothing} \cup [id : 1..3, done : BOOLEAN]

\* What a service has to hold when Notify reports success: the message, which
\* has been rendered whole where the templates' error is looked at; the alert,
\* with the texts of this flush if they are to be updated; the issue, unless
\* somebody has closed it meanwhile.
Holds(g) ==
  CASE kind = "opsgenie" -> alias'.open = job[g].firing
    [] kind = "opsgenieupdate" ->
         alias' = IF job[g].firing
                    THEN [open |-> TRUE, message |-> job[g].text, description |-> job[g].text]
                    ELSE NoAlert
    [] kind \in {"jira", "jiraplain"} ->
         \/ touched'
         \/ IF job[g].firing
              THEN \E i \in issues' : i.open /\ i.text = job[g].text
              ELSE kind = "jira" => \A i \in issues' : ~i.open
    [] kind \in {"slack", "slackupdate", "webex"} ->
         said'[g] \in {Message(g, TRUE), Message(g, FALSE)}
    [] OTHER -> said'[g] = Message(g, TRUE)

\* A flush is given up before its context ends only for an error that another
\* attempt would meet again: not for a server error, a lost answer or an
\* expired token.  The exceptions are the requests to Jira, the request for a
\* wechat token and the writing of an email, which the code does not retry, and
\* wechat notifiers that several groups share, where one group drops the token
\* another is about to send.
GivesUpOnlyWhenHopeless ==
  \A g \in users : result[g] = "failed" =>
    \/ cause[g][1] = "permanent"
    \/ cause[g][2] \in {"search", "issue", "update", "lookup", "transition", "token", "write"}
    \/ kind = "wechatshared" /\ cause[g][1] = "token"

\* Notify's verdict is right.  It reports success only when the service has taken
\* everything the flush had to tell; the notification log repeats this success to
\* all peers.  And it gives up only where that is hopeless.
VerdictIsRight ==
  [][/\ \A g \in users : job[g] # Idle /\ result'[g] = "ok" => Holds(g)
     /\ GivesUpOnlyWhenHopeless']_vars

\* Notifying again makes no doubles.  A group has at most one open Jira issue, whatever
\* answers were lost and whenever issues were closed: every flush searches before it
\* creates.  Slack with update_message has one message for a group, however often it is
\* notified, while no answer and no log entry is lost.
NoDoubles ==
  /\ \A i, k \in issues : i.open /\ k.open => i = k
  /\ ~missed => posts <= 1

\* Once nothing goes wrong any more a flush succeeds, whatever state the tokens,
\* threads, alerts, issues and sessions were left in.
SucceedsAfterRecovery == \A g \in Groups : healthy /\ g \in users ~> result[g] = "ok"
=============================================================================

--------------------------- MODULE Notify_proofs ----------------------------
(***************************************************************************)
(* Theorems about the integrations (Integrations), for any groups, texts and *)
(* any set of them, and about the event recorder (Recorder), for any sizes    *)
(* of its queues, any number of events and workers and any kind of output.    *)
(***************************************************************************)
EXTENDS Integrations, Recorder, SequenceTheorems, TLAPS

-----------------------------------------------------------------------------
(* Integrations: the inductive invariant *)

JiraKinds == {"jira", "jiraplain"}

\* Steps that create no issue and do not look for one; only the kind "jira" has transitions.
Calm(k) ==
    {"render", "loose", "read", "post", "close", "create", "message", "description", "token",
     "lookup", "update", "dial", "dialtls", "hello", "starttls", "auth", "mail", "rcpt", "data",
     "write", "end"} \cup (IF k = "jira" THEN {"transition"} ELSE {})

Plain(k) ==
    [do : Calm(k), retry : BOOLEAN]
    \cup [do : Calm(k), codes : SUBSET Codes, retry : BOOLEAN, body : BOOLEAN]

Searching == {<<Render(FALSE), doAPIRequest("search")>>, <<doAPIRequest("search")>>}
Creating == {<<Render(FALSE), doAPIRequest("issue")>>, <<doAPIRequest("issue")>>}

\* What is left of a call of Notify: an issue is about to be created only when there is none.
Fits(s, k, there) ==
    \/ s \in Seq(Plain(k))
    \/ k \in JiraKinds /\ s \in Searching
    \/ k \in JiraKinds /\ s \in Creating /\ there = {}

\* There is at most one issue, none without Jira, and only transitions leave a resolved one.
AtMostOne(there, k) ==
    /\ k \notin JiraKinds => there = {}
    /\ \A i, j \in there : i = j
    /\ \A i \in there : DOMAIN i = {"id", "open", "text"} /\ i.id \in 1 .. 3 /\ (k # "jira" => i.open)

UsersGood ==
    /\ users \subseteq Groups /\ kind \in KnownKinds /\ DOMAIN todo = Groups
    /\ kind \in JiraKinds => \E g \in Groups : users = {g}

\* Slack: a message is in the channel only if the thread is known.
PostsGood == ~missed => (posts = 0 \/ (posts = 1 /\ thread))

NotifyInv ==
    /\ UsersGood /\ PostsGood /\ AtMostOne(issues, kind)
    /\ \A g \in users : Fits(todo[g], kind, issues)

-----------------------------------------------------------------------------
(* The steps of the notifiers *)

LEMMA PlainSteps ==
    ASSUME NEW k, NEW b \in BOOLEAN
    PROVE  Render(b) \in Plain(k) /\ ReadFile(b) \in Plain(k) /\ RenderLoose \in Plain(k)
<1>1. "render" \in Calm(k) /\ "loose" \in Calm(k) /\ "read" \in Calm(k) /\ FALSE \in BOOLEAN
  BY DEF Calm
<1> QED BY Zenon, <1>1 DEF Plain, Render, ReadFile, RenderLoose

LEMMA PlainRequest ==
    ASSUME NEW k, NEW do \in Calm(k), NEW codes \in SUBSET Codes, NEW retry \in BOOLEAN, NEW body \in BOOLEAN
    PROVE  Request(do, codes, retry, body) \in Plain(k)
BY Zenon DEF Plain, Request

LEMMA Bools == TRUE \in BOOLEAN /\ FALSE \in BOOLEAN
BY Zenon

LEMMA SomeCodes == {} \in SUBSET Codes /\ Codes \in SUBSET Codes
BY Zenon

\* The codes that New of a notifier gives to the retrier.
LEMMA RetryCodes ==
    /\ incidentioRetry \in SUBSET Codes /\ slackRetry \in SUBSET Codes /\ opsgenieRetry \in SUBSET Codes
    /\ jiraRetry \in SUBSET Codes /\ pagerdutyV1Retry \in SUBSET Codes /\ pagerdutyV2Retry \in SUBSET Codes
BY DEF Codes, incidentioRetry, slackRetry, opsgenieRetry, jiraRetry, pagerdutyV1Retry, pagerdutyV2Retry

\* Requests of a name that is calm, with each of the answers they may look into.
LEMMA CalmRequests ==
    ASSUME NEW k, NEW codes \in SUBSET Codes
    PROVE  \A do \in Calm(k) :
             /\ Request(do, codes, TRUE, FALSE) \in Plain(k) /\ Request(do, codes, TRUE, TRUE) \in Plain(k)
             /\ Request(do, codes, FALSE, FALSE) \in Plain(k)
BY Zenon, Bools, PlainRequest

LEMMA PostIsPlain ==
    ASSUME NEW k, NEW codes \in SUBSET Codes
    PROVE  Post(codes) \in Plain(k) /\ Request("post", codes, TRUE, TRUE) \in Plain(k)
<1>1. "post" \in Calm(k)
  BY DEF Calm
<1> QED BY Zenon, <1>1, CalmRequests DEF Post

LEMMA SeqOf1 == ASSUME NEW S, NEW a \in S PROVE <<a>> \in Seq(S)
OBVIOUS
LEMMA SeqOf2 == ASSUME NEW S, NEW a \in S, NEW b \in S PROVE <<a, b>> \in Seq(S)
OBVIOUS
LEMMA SeqOf3 == ASSUME NEW S, NEW a \in S, NEW b \in S, NEW c \in S PROVE <<a, b, c>> \in Seq(S)
OBVIOUS
LEMMA SeqOf4 == ASSUME NEW S, NEW a \in S, NEW b \in S, NEW c \in S, NEW d \in S PROVE <<a, b, c, d>> \in Seq(S)
OBVIOUS

LEMMA SeqOfBoth == ASSUME NEW S, NEW s \in Seq(S), NEW t \in Seq(S) PROVE s \o t \in Seq(S)
BY ConcatProperties

LEMMA EmptyIsSeq == ASSUME NEW S PROVE << >> \in Seq(S)
OBVIOUS

\* Notify of the integrations that send one request.
LEMMA OnePost ==
    ASSUME NEW k
    PROVE  /\ webhookNotify \in Seq(Plain(k)) /\ discordNotify \in Seq(Plain(k)) /\ msteamsNotify \in Seq(Plain(k))
           /\ msteamsv2Notify \in Seq(Plain(k)) /\ mattermostNotify \in Seq(Plain(k))
           /\ incidentioNotify \in Seq(Plain(k)) /\ pushoverNotify \in Seq(Plain(k))
           /\ victoropsNotify \in Seq(Plain(k)) /\ webexNotify \in Seq(Plain(k)) /\ telegramNotify \in Seq(Plain(k))
           /\ snsNotify \in Seq(Plain(k)) /\ rocketchatNotify \in Seq(Plain(k))
<1>1. \A b \in BOOLEAN : Render(b) \in Plain(k) /\ ReadFile(b) \in Plain(k) /\ RenderLoose \in Plain(k)
  BY Zenon, PlainSteps
<1>3. Post({}) \in Plain(k) /\ Post(incidentioRetry) \in Plain(k) /\ Post(Codes) \in Plain(k) /\ Request("post", {}, TRUE, TRUE) \in Plain(k)
  BY Zenon, SomeCodes, RetryCodes, PostIsPlain
<1>4. webhookNotify \in Seq(Plain(k))
  BY Zenon, <1>1, <1>3, Bools, SeqOf4 DEF webhookNotify, webhookRetry
<1>5. discordNotify \in Seq(Plain(k))
  BY Zenon, <1>1, <1>3, Bools, SeqOf3 DEF discordNotify, discordRetry
<1>6. msteamsNotify \in Seq(Plain(k))
  BY Zenon, <1>1, <1>3, Bools, SeqOf3 DEF msteamsNotify, msteamsRetry
<1>7. msteamsv2Notify \in Seq(Plain(k))
  BY Zenon, <1>1, <1>3, Bools, SeqOf3 DEF msteamsv2Notify, msteamsv2Retry
<1>8. mattermostNotify \in Seq(Plain(k))
  BY Zenon, <1>1, <1>3, Bools, SeqOf3 DEF mattermostNotify, mattermostRetry
<1>9. incidentioNotify \in Seq(Plain(k))
  BY Zenon, <1>1, <1>3, Bools, SeqOf2 DEF incidentioNotify
<1>10. pushoverNotify \in Seq(Plain(k))
  BY Zenon, <1>1, <1>3, Bools, SeqOf4 DEF pushoverNotify, pushoverRetry
<1>11. victoropsNotify \in Seq(Plain(k))
  BY Zenon, <1>1, <1>3, Bools, SeqOf4 DEF victoropsNotify, victoropsRetry, createVictorOpsPayload
<1>12. webexNotify \in Seq(Plain(k))
  BY Zenon, <1>1, <1>3, Bools, SeqOf3 DEF webexNotify, webexRetry
<1>13. telegramNotify \in Seq(Plain(k))
  BY Zenon, <1>1, <1>3, Bools, SeqOf4 DEF telegramNotify, telegramRetry, getBotToken, getChatID
<1>14. snsNotify \in Seq(Plain(k))
  BY Zenon, <1>1, <1>3, Bools, SeqOf3 DEF snsNotify, snsRetry, createSNSClient, createPublishInput
<1>15. rocketchatNotify \in Seq(Plain(k))
  BY Zenon, <1>1, <1>3, Bools, SeqOf2 DEF rocketchatNotify, rocketchatRetry
<1> QED BY Zenon, <1>4, <1>5, <1>6, <1>7, <1>8, <1>9, <1>10, <1>11, <1>12, <1>13, <1>14, <1>15

\* Those that choose among requests, or send several.
LEMMA MorePosts ==
    ASSUME NEW k, NEW p, NEW q
    PROVE  /\ pagerdutyNotify(p) \in Seq(Plain(k)) /\ slackNotify \in Seq(Plain(k))
           /\ opsgenieNotify(p, q) \in Seq(Plain(k)) /\ wechatNotify(p) \in Seq(Plain(k))
           /\ emailNotify(p, q) \in Seq(Plain(k))
<1>1. \A b \in BOOLEAN : Render(b) \in Plain(k) /\ ReadFile(b) \in Plain(k) /\ RenderLoose \in Plain(k)
  BY Zenon, PlainSteps
<1>2. /\ "post" \in Calm(k) /\ "close" \in Calm(k) /\ "create" \in Calm(k) /\ "message" \in Calm(k)
      /\ "description" \in Calm(k) /\ "token" \in Calm(k) /\ "dial" \in Calm(k) /\ "dialtls" \in Calm(k)
      /\ "hello" \in Calm(k) /\ "starttls" \in Calm(k) /\ "auth" \in Calm(k) /\ "mail" \in Calm(k)
      /\ "rcpt" \in Calm(k) /\ "data" \in Calm(k) /\ "write" \in Calm(k) /\ "end" \in Calm(k)
  BY DEF Calm
<1>3. \A s, t : s \in Seq(Plain(k)) /\ t \in Seq(Plain(k)) => s \o t \in Seq(Plain(k))
  BY Zenon, SeqOfBoth
<1>4. << >> \in Seq(Plain(k))
  BY Zenon, EmptyIsSeq
<1>5. pagerdutyNotify(p) \in Seq(Plain(k))
  <2>1. Post(pagerdutyV1Retry) \in Plain(k)
    BY Zenon, RetryCodes, PostIsPlain
  <2>2. Post(pagerdutyV2Retry) \in Plain(k)
    BY Zenon, RetryCodes, PostIsPlain
  <2>3. notifyV1 \in Seq(Plain(k))
    BY Zenon, <1>1, <2>1, Bools, SeqOf3 DEF notifyV1
  <2>4. notifyV2 \in Seq(Plain(k))
    BY Zenon, <1>1, <2>2, Bools, SeqOf3 DEF notifyV2
  <2>5. <<renderDetails>> \in Seq(Plain(k))
    BY Zenon, <1>1, Bools, SeqOf1 DEF renderDetails
  <2> QED BY Zenon, <1>3, <2>3, <2>4, <2>5 DEF pagerdutyNotify
<1>6. slackNotify \in Seq(Plain(k))
  <2>1. Request("post", slackRetry, TRUE, TRUE) \in Plain(k)
    BY Zenon, RetryCodes, PostIsPlain
  <2>2. slackRender \in Seq(Plain(k)) /\ slackPost \in Seq(Plain(k))
    BY Zenon, <1>1, <2>1, Bools, SeqOf1, SeqOf2 DEF slackRender, slackPost
  <2> QED BY Zenon, <1>3, <2>2 DEF slackNotify
<1>7. opsgenieNotify(p, q) \in Seq(Plain(k))
  <2>1. \A do \in Calm(k) : Request(do, opsgenieRetry, TRUE, FALSE) \in Plain(k)
    BY Zenon, RetryCodes, CalmRequests
  <2>1a. opsgenieClose \in Seq(Plain(k))
    BY Zenon, <1>2, <2>1, SeqOf1 DEF opsgenieClose
  <2>1b. opsgenieCreate \in Seq(Plain(k))
    BY Zenon, <1>2, <2>1, SeqOf1 DEF opsgenieCreate
  <2>1c. opsgenieUpdate \in Seq(Plain(k))
    BY Zenon, <1>2, <2>1, SeqOf2 DEF opsgenieUpdate
  <2>2. opsgenieClose \in Seq(Plain(k)) /\ opsgenieCreate \in Seq(Plain(k)) /\ opsgenieUpdate \in Seq(Plain(k))
    BY Zenon, <2>1a, <2>1b, <2>1c
  <2>3. <<ReadFile(FALSE), Render(FALSE)>> \in Seq(Plain(k))
    BY Zenon, <1>1, Bools, SeqOf2
  <2>4. (IF q THEN opsgenieUpdate ELSE << >>) \in Seq(Plain(k))
    BY Zenon, <1>4, <2>2
  <2>5. (IF ~p THEN opsgenieClose ELSE opsgenieCreate \o (IF q THEN opsgenieUpdate ELSE << >>)) \in Seq(Plain(k))
    BY Zenon, <1>3, <2>2, <2>4
  <2> QED BY Zenon, <1>3, <2>3, <2>5 DEF opsgenieNotify
<1>8. wechatNotify(p) \in Seq(Plain(k))
  <2>1. Request("token", {}, TRUE, FALSE) \in Plain(k) /\ Request("post", Codes, TRUE, TRUE) \in Plain(k)
    BY Zenon, <1>2, SomeCodes, CalmRequests
  <2>2. wechatToken \in Seq(Plain(k)) /\ wechatSend \in Seq(Plain(k))
    BY Zenon, <1>1, <2>1, Bools, SeqOf2 DEF wechatToken, wechatSend
  <2> QED BY Zenon, <1>3, <1>4, <2>2 DEF wechatNotify
<1>9. emailNotify(p, q) \in Seq(Plain(k))
  <2>1. \A do \in Calm(k) : smtpCommand(do) \in Plain(k)
    BY Zenon, SomeCodes, CalmRequests DEF smtpCommand
  <2>2. smtpWrite \in Plain(k)
    BY Zenon, <1>2, SomeCodes, CalmRequests DEF smtpWrite
  <2>3. smtpCommand(IF q THEN "dialtls" ELSE "dial") \in Plain(k)
    BY Zenon, <1>2, <2>1
  <2>4. <<smtpCommand(IF q THEN "dialtls" ELSE "dial"), smtpCommand("hello")>> \in Seq(Plain(k))
    BY Zenon, <1>2, <2>1, <2>3, SeqOf2
  <2>5. (IF p /\ ~q THEN <<smtpCommand("starttls")>> ELSE << >>) \in Seq(Plain(k))
    BY Zenon, <1>2, <1>4, <2>1, SeqOf1
  <2>6. <<ReadFile(TRUE), smtpCommand("auth")>> \in Seq(Plain(k))
    BY Zenon, <1>1, <1>2, <2>1, Bools, SeqOf2
  <2>7. emailConnect(p, q) \in Seq(Plain(k))
    BY Zenon, <1>3, <2>4, <2>5, <2>6 DEF emailConnect
  <2>8. emailEnvelope \in Seq(Plain(k)) /\ emailMessage \in Seq(Plain(k)) /\ <<smtpCommand("end")>> \in Seq(Plain(k))
    BY Zenon, <1>1, <1>2, <2>1, <2>2, Bools, SeqOf1, SeqOf4 DEF emailEnvelope, emailMessage
  <2> QED BY Zenon, <1>3, <2>7, <2>8 DEF emailNotify
<1> QED BY Zenon, <1>5, <1>6, <1>7, <1>8, <1>9

\* Every call starts with plain steps, or searches an issue.
LEMMA NotifyStarts ==
    ASSUME NEW k \in KnownKinds, NEW j, NEW fetch, NEW there
    PROVE  Fits(Notify(k, j, fetch), k, there)
<1>1. CASE k \in JiraKinds
  <2>1. Notify(k, j, fetch) = jiraSearch
    BY Zenon, <1>1 DEF Notify, JiraKinds
  <2> QED BY Zenon, <1>1, <2>1 DEF Fits, Searching, jiraSearch
<1>2. CASE k \notin JiraKinds
  <2> DEFINE N == Notify(k, j, fetch)
  <2>1. N \in {webhookNotify, discordNotify, msteamsNotify, msteamsv2Notify, mattermostNotify, incidentioNotify,
               pushoverNotify, victoropsNotify, webexNotify, telegramNotify, snsNotify, rocketchatNotify,
               pagerdutyNotify(TRUE), pagerdutyNotify(FALSE), slackNotify, opsgenieNotify(j.firing, FALSE),
               opsgenieNotify(j.firing, TRUE), wechatNotify(fetch), emailNotify(TRUE, FALSE),
               emailNotify(TRUE, TRUE), emailNotify(FALSE, FALSE)}
    BY Zenon, <1>2 DEF Notify, JiraKinds, KnownKinds
  <2> HIDE DEF N
  <2>2. N \in Seq(Plain(k))
    BY Zenon, <2>1, OnePost, MorePosts
  <2> QED BY Zenon, <2>2 DEF Fits, N
<1> QED BY Zenon, <1>1, <1>2

-----------------------------------------------------------------------------
(* What a step of a call leaves to do *)

LEMMA StepNames ==
    /\ Render(FALSE).do = "render" /\ doAPIRequest("search").do = "search" /\ doAPIRequest("issue").do = "issue"
BY DEF Render, doAPIRequest, Request

LEMMA PlainHead ==
    ASSUME NEW k, NEW s \in Seq(Plain(k)), s # << >>
    PROVE  Tail(s) \in Seq(Plain(k)) /\ Head(s).do \in Calm(k)
<1>1. Head(s) \in Plain(k) /\ Tail(s) \in Seq(Plain(k))
  BY HeadTailProperties
<1>2. \A x \in Plain(k) : x.do \in Calm(k)
  BY DEF Plain
<1> QED BY Zenon, <1>1, <1>2

LEMMA CalmNames ==
    ASSUME NEW k
    PROVE  "issue" \notin Calm(k) /\ "search" \notin Calm(k) /\ (k # "jira" => "transition" \notin Calm(k))
BY DEF Calm

LEMMA OneStep == ASSUME NEW a PROVE Head(<<a>>) = a /\ Tail(<<a>>) = << >>
OBVIOUS
LEMMA TwoSteps == ASSUME NEW a, NEW b PROVE Head(<<a, b>>) = a /\ Tail(<<a, b>>) = <<b>>
OBVIOUS

\* A call that goes on, does so as it must; the step that creates an issue is its last.
LEMMA TailFits ==
    ASSUME NEW k, NEW there, NEW s, s # << >>, Fits(s, k, there)
    PROVE  /\ Head(s).do = "issue" => there = {} /\ k \in JiraKinds /\ Tail(s) = << >>
           /\ Head(s).do # "issue" => Fits(Tail(s), k, there)
           /\ Head(s).do = "search" => k \in JiraKinds
           /\ Head(s).do = "transition" => k = "jira"
<1>1. CASE s \in Seq(Plain(k))
  BY Zenon, <1>1, PlainHead, CalmNames DEF Fits
<1>2. CASE k \in JiraKinds /\ s \in Searching
  <2>1. \/ Head(s) = Render(FALSE) /\ Tail(s) = <<doAPIRequest("search")>>
        \/ Head(s) = doAPIRequest("search") /\ Tail(s) = << >>
    <3>1. CASE s = <<Render(FALSE), doAPIRequest("search")>>
      BY <3>1, TwoSteps
    <3>2. CASE s = <<doAPIRequest("search")>>
      BY <3>2, OneStep
    <3> QED BY Zenon, <1>2, <3>1, <3>2 DEF Searching
  <2>2. Head(s).do # "issue" /\ Head(s).do # "transition"
    BY Zenon, <2>1, StepNames
  <2>3. Fits(Tail(s), k, there)
    BY Zenon, <1>2, <2>1, EmptyIsSeq DEF Fits, Searching
  <2> QED BY Zenon, <1>2, <2>2, <2>3
<1>3. CASE k \in JiraKinds /\ s \in Creating /\ there = {}
  <2>1. \/ Head(s) = Render(FALSE) /\ Tail(s) = <<doAPIRequest("issue")>>
        \/ Head(s) = doAPIRequest("issue") /\ Tail(s) = << >>
    <3>1. CASE s = <<Render(FALSE), doAPIRequest("issue")>>
      BY <3>1, TwoSteps
    <3>2. CASE s = <<doAPIRequest("issue")>>
      BY <3>2, OneStep
    <3> QED BY Zenon, <1>3, <3>1, <3>2 DEF Creating
  <2>2. Head(s).do # "search" /\ Head(s).do # "transition" /\ (Head(s).do = "issue" => Head(s) # Render(FALSE))
    BY Zenon, <2>1, StepNames
  <2>3. Fits(Tail(s), k, there)
    BY Zenon, <1>3, <2>1, EmptyIsSeq DEF Fits, Creating
  <2> QED BY Zenon, <1>3, <2>1, <2>2, <2>3
<1> QED BY Zenon, <1>1, <1>2, <1>3 DEF Fits

LEMMA DoneFits == ASSUME NEW k, NEW there PROVE Fits(<< >>, k, there)
BY Zenon, EmptyIsSeq DEF Fits

\* The steps after a search that found the issue f, or none.
LEMMA RestFits ==
    ASSUME NEW k \in JiraKinds, NEW there, NEW f, NEW firing, f = Nothing /\ firing => there = {}
    PROVE  Fits(jiraRest(k, f, firing), k, there)
<1>1. CASE f = Nothing /\ ~firing
  BY Zenon, <1>1, DoneFits DEF jiraRest
<1>2. CASE f = Nothing /\ firing
  <2>1. transitionIssue(k, f, firing) = << >>
    BY Zenon, <1>2 DEF transitionIssue
  <2>2. jiraRest(k, f, firing) = <<Render(FALSE), doAPIRequest("issue")>> \o << >>
    BY Zenon, <1>2, <2>1 DEF jiraRest, prepareIssueRequestBody
  <2>3. jiraRest(k, f, firing) = <<Render(FALSE), doAPIRequest("issue")>>
    BY <2>2
  <2> QED BY Zenon, <1>2, <2>3 DEF Fits, Creating
<1>3. CASE f # Nothing
  <2>1. doAPIRequest("update") \in Plain(k) /\ doAPIRequest("lookup") \in Plain(k)
    <3>1. "update" \in Calm(k) /\ "lookup" \in Calm(k)
      BY DEF Calm
    <3> QED BY Zenon, <3>1, RetryCodes, CalmRequests DEF doAPIRequest
  <2>2. k = "jira" => doAPIRequest("transition") \in Plain(k)
    <3>1. k = "jira" => "transition" \in Calm(k)
      BY DEF Calm
    <3> QED BY Zenon, <3>1, RetryCodes, CalmRequests DEF doAPIRequest
  <2>3. transitionIssue(k, f, firing) \in Seq(Plain(k))
    <3>1. CASE k = "jira" /\ f # Nothing /\ f.done = firing
      <4>1. transitionIssue(k, f, firing) = <<doAPIRequest("lookup"), doAPIRequest("transition")>>
        BY Zenon, <3>1 DEF transitionIssue
      <4> QED BY Zenon, <2>1, <2>2, <3>1, <4>1, SeqOf2
    <3>2. CASE ~(k = "jira" /\ f # Nothing /\ f.done = firing)
      <4>1. transitionIssue(k, f, firing) = << >>
        BY Zenon, <3>2 DEF transitionIssue
      <4> QED BY Zenon, <4>1, EmptyIsSeq
    <3> QED BY Zenon, <3>1, <3>2
  <2>4. <<Render(FALSE), doAPIRequest("update")>> \in Seq(Plain(k))
    BY Zenon, <2>1, Bools, PlainSteps, SeqOf2
  <2>5. jiraRest(k, f, firing) = <<Render(FALSE), doAPIRequest("update")>> \o transitionIssue(k, f, firing)
    BY Zenon, <1>3 DEF jiraRest, prepareIssueRequestBody
  <2> QED BY Zenon, <2>3, <2>4, <2>5, SeqOfBoth DEF Fits
<1> QED BY Zenon, <1>1, <1>2, <1>3

-----------------------------------------------------------------------------
(* Integrations: the invariant is inductive *)

LEMMA FitsStill ==
    ASSUME NEW s, NEW k, NEW there, NEW now, Fits(s, k, there), there = {} => now = {}
    PROVE  Fits(s, k, now)
BY Zenon DEF Fits

\* Whatever a request does to the issues, there is at most one.
LEMMA IssuesKept ==
    ASSUME NEW do, NEW j, AtMostOne(issues, kind),
           do = "issue" => issues = {} /\ kind \in JiraKinds, do = "transition" => kind = "jira"
    PROVE  /\ AtMostOne(Issues(do, j), kind)
           /\ do # "issue" /\ issues = {} => Issues(do, j) = {}
<1>1. CASE do = "issue"
  <2>1. PICK n : n = (CHOOSE m \in 1 .. 3 : \A i \in issues : i.id # m)
    OBVIOUS
  <2>2. n \in 1 .. 3
    <3>1. 1 \in 1 .. 3 /\ \A i \in issues : i.id # 1
      BY <1>1
    <3> QED BY Zenon, <2>1, <3>1
  <2>3. Issues(do, j) = {[id |-> n, open |-> TRUE, text |-> j.text]}
    <3>1. Issues(do, j) = issues \cup {[id |-> n, open |-> TRUE, text |-> j.text]}
      BY Zenon, <1>1, <2>1 DEF Issues
    <3> QED BY <1>1, <3>1
  <2>4. \A i \in Issues(do, j) : i = [id |-> n, open |-> TRUE, text |-> j.text]
    BY <2>3
  <2>5. \A i \in Issues(do, j) : DOMAIN i = {"id", "open", "text"} /\ i.id \in 1 .. 3 /\ i.open
    BY <2>2, <2>4
  <2> QED BY Zenon, <1>1, <2>4, <2>5 DEF AtMostOne
<1>2. CASE do \in {"update", "transition"}
  <2> DEFINE Found == {i \in issues : found # Nothing /\ i.id = found.id}
             change(i) == IF do = "update" THEN [i EXCEPT !.text = j.text] ELSE [i EXCEPT !.open = j.firing]
  <2>1. Issues(do, j) = (issues \ Found) \cup {change(i) : i \in Found}
    BY <1>2 DEF Issues
  <2>2. CASE issues = {}
    <3>1. Issues(do, j) = {}
      BY <2>1, <2>2
    <3> QED BY Zenon, <2>2, <3>1 DEF AtMostOne
  <2>3. CASE issues # {}
    <3>1. PICK i \in issues : issues = {i}
      BY <2>3 DEF AtMostOne
    <3>2. Issues(do, j) = {i} \/ Issues(do, j) = {change(i)}
      BY <2>1, <3>1
    <3>3. kind \in JiraKinds
      BY Zenon, <2>3 DEF AtMostOne
    <3>4. /\ DOMAIN change(i) = {"id", "open", "text"} /\ change(i).id \in 1 .. 3
          /\ kind # "jira" => change(i).open
      BY <1>2, <3>1 DEF AtMostOne
    <3>5. AtMostOne({change(i)}, kind)
      BY Zenon, <3>3, <3>4 DEF AtMostOne
    <3> QED BY Zenon, <2>3, <3>1, <3>2, <3>5
  <2> QED BY Zenon, <2>2, <2>3
<1>3. CASE do \notin {"issue", "update", "transition"}
  <2>1. Issues(do, j) = issues
    BY <1>3 DEF Issues
  <2> QED BY Zenon, <2>1
<1> QED BY <1>1, <1>2, <1>3

\* A step of the group g changes only what g has to do.
LEMMA CallKeeps ==
    ASSUME NEW g \in users, NotifyInv, kind' = kind, users' = users,
           todo' = [todo EXCEPT ![g] = todo'[g]], Fits(todo'[g], kind, issues'),
           AtMostOne(issues', kind), PostsGood'
    PROVE  NotifyInv'
<1>1. UsersGood'
  BY DEF NotifyInv, UsersGood
<1>2. ASSUME NEW h \in users PROVE Fits(todo'[h], kind, issues')
  <2>1. CASE h = g
    BY Zenon, <2>1
  <2>2. CASE h # g
    <3>1. kind \notin JiraKinds
      BY Zenon, <2>2 DEF NotifyInv, UsersGood
    <3>2. todo'[h] = todo[h]
      BY <2>2 DEF NotifyInv, UsersGood
    <3> QED BY Zenon, <3>1, <3>2 DEF NotifyInv, Fits
  <2> QED BY Zenon, <2>1, <2>2
<1> QED BY Zenon, <1>1, <1>2 DEF NotifyInv

\* A step of the surroundings creates no issue.
LEMMA OthersKeep ==
    ASSUME NotifyInv, kind' = kind, users' = users, todo' = todo,
           AtMostOne(issues', kind), issues = {} => issues' = {}, PostsGood'
    PROVE  NotifyInv'
<1>1. UsersGood'
  BY Zenon DEF NotifyInv, UsersGood
<1>2. \A h \in users : Fits(todo[h], kind, issues')
  BY Zenon, FitsStill DEF NotifyInv
<1> QED BY Zenon, <1>1, <1>2 DEF NotifyInv

LEMMA PostsStay == ASSUME PostsGood, posts' = posts, thread' = thread, missed' = missed PROVE PostsGood'
BY Zenon DEF PostsGood

LEMMA Ends ==
    ASSUME NEW g \in users, NEW retry, NEW why, NotifyInv, Fail(g, retry, why)
    PROVE  todo' = [todo EXCEPT ![g] = todo'[g]] /\ \A there : Fits(todo'[g], kind, there)
<1>1. todo' = [todo EXCEPT ![g] = << >>] /\ g \in DOMAIN todo
  BY Zenon DEF Fail, NotifyInv, UsersGood
<1>2. todo'[g] = << >>
  BY <1>1
<1> QED BY Zenon, <1>1, <1>2, DoneFits

LEMMA GoesOn ==
    ASSUME NEW g \in users, NotifyInv, todo' = [todo EXCEPT ![g] = Tail(todo[g])], todo[g] # << >>,
           issues = {} /\ Step(g).do # "issue" => issues' = {}
    PROVE  todo' = [todo EXCEPT ![g] = todo'[g]] /\ Fits(todo'[g], kind, issues')
<1>1. g \in DOMAIN todo
  BY Zenon DEF NotifyInv, UsersGood
<1>2. todo'[g] = Tail(todo[g])
  BY <1>1
<1>3. Fits(todo[g], kind, issues)
  BY Zenon DEF NotifyInv
<1>4. Fits(Tail(todo[g]), kind, issues')
  <2>1. CASE Step(g).do = "issue"
    <3>1. Tail(todo[g]) = << >>
      BY Zenon, <1>3, <2>1, TailFits DEF Step
    <3> QED BY Zenon, <3>1, DoneFits
  <2>2. CASE Step(g).do # "issue"
    <3>1. Fits(Tail(todo[g]), kind, issues)
      BY Zenon, <1>3, <2>2, TailFits DEF Step
    <3> QED BY Zenon, <2>2, <3>1, FitsStill
  <2> QED BY Zenon, <2>1, <2>2
<1> QED BY Zenon, <1>2, <1>4

\* What the service does with a request, and how often Slack has posted then.
LEMMA AppliedKeeps ==
    ASSUME NEW g \in users, NotifyInv, Applied(g), todo[g] # << >>
    PROVE  /\ AtMostOne(issues', kind)
           /\ issues = {} /\ Step(g).do # "issue" => issues' = {}
           /\ posts' = posts \/ (posts' = posts + 1 /\ kind = "slackupdate" /\ Step(g).do = "post" /\ ~thread)
<1>1. Fits(todo[g], kind, issues) /\ AtMostOne(issues, kind)
  BY Zenon DEF NotifyInv
<1>2. /\ Step(g).do = "issue" => issues = {} /\ kind \in JiraKinds
      /\ Step(g).do = "transition" => kind = "jira"
  BY Zenon, <1>1, TailFits DEF Step
<1>3. issues' = Issues(Step(g).do, job[g])
  BY Zenon DEF Applied
<1>4. posts' = posts \/ (posts' = posts + 1 /\ kind = "slackupdate" /\ Step(g).do = "post" /\ ~thread)
  BY Zenon DEF Applied
<1>5. /\ AtMostOne(issues', kind)
      /\ issues = {} /\ Step(g).do # "issue" => issues' = {}
  BY Zenon, <1>1, <1>2, <1>3, IssuesKept
<1> QED BY Zenon, <1>4, <1>5

\* A search that finds nothing for a group that fires: there is no issue.
LEMMA SearchSees ==
    ASSUME NotifierSetting, NEW g \in users, NotifyInv, searchExistingIssue(g)
    PROVE  found' = Nothing /\ job[g].firing => issues = {}
<1> DEFINE open == {i \in issues : i.open}
           closed == IF kind = "jira" /\ job[g].firing THEN issues \ open ELSE {}
           first == IF open # {} THEN open ELSE closed
<1>1. \/ first = {} /\ found' = Nothing
      \/ \E i \in first : found' = [id |-> i.id, done |-> ~i.open]
  BY Zenon DEF searchExistingIssue
<1>2. CASE first = {}
  <2>1. open = {} /\ (kind = "jira" /\ job[g].firing => issues \ open = {})
    BY Zenon, <1>2
  <2>2. CASE kind = "jira" /\ job[g].firing
    BY Zenon, <2>1, <2>2
  <2>3. CASE kind # "jira"
    BY Zenon, <2>1, <2>3 DEF NotifyInv, AtMostOne
  <2> QED BY Zenon, <2>2, <2>3
<1>3. CASE \E i \in first : found' = [id |-> i.id, done |-> ~i.open]
  <2>1. PICK i \in first : found' = [id |-> i.id, done |-> ~i.open]
    BY Zenon, <1>3
  <2>2. i \in issues
    BY Zenon, <2>1
  <2>3. i.id \in 1 .. 3 /\ (~i.open) \in BOOLEAN
    BY Zenon, <2>2 DEF NotifyInv, AtMostOne
  <2> QED BY Zenon, <2>1, <2>3 DEF NotifierSetting
<1> QED BY Zenon, <1>1, <1>2, <1>3

LEMMA CallStep ==
    ASSUME NotifierSetting, NEW g \in users, NotifyInv, Call(g)
    PROVE  NotifyInv'
<1> USE DEF fixed, memory, serviceVars
<1>0. AtMostOne(issues, kind) /\ PostsGood
  BY Zenon DEF NotifyInv
<1>1. CASE Begin(g)
  <2>1. kind' = kind /\ users' = users /\ todo' = todo /\ issues' = issues
        /\ posts' = posts /\ thread' = thread /\ missed' = missed
    BY <1>1 DEF Begin
  <2> QED BY Zenon, <1>0, <2>1, OthersKeep, PostsStay
<1>2. CASE Tick(g)
  <2>1. kind' = kind /\ users' = users /\ issues' = issues /\ posts' = posts /\ thread' = thread /\ missed' = missed
    BY <1>2 DEF Tick
  <2>2. CASE todo' = todo
    BY Zenon, <1>0, <2>1, <2>2, OthersKeep, PostsStay
  <2>3. CASE \E old \in BOOLEAN : todo' = [todo EXCEPT ![g] = Notify(kind, job[g], token = "none" \/ old)]
    <3>1. PICK old \in BOOLEAN : todo' = [todo EXCEPT ![g] = Notify(kind, job[g], token = "none" \/ old)]
      BY Zenon, <2>3
    <3>2. g \in DOMAIN todo /\ kind \in KnownKinds
      BY Zenon DEF NotifyInv, UsersGood
    <3>3. todo'[g] = Notify(kind, job[g], token = "none" \/ old)
      BY <3>1, <3>2
    <3>4. Fits(todo'[g], kind, issues')
      BY Zenon, <3>2, <3>3, NotifyStarts
    <3>5. todo' = [todo EXCEPT ![g] = todo'[g]]
      BY Zenon, <3>1, <3>3
    <3> QED BY Zenon, <1>0, <2>1, <3>4, <3>5, CallKeeps, PostsStay
  <2> QED BY Zenon, <1>2, <2>2, <2>3 DEF Tick
<1>3. CASE RenderStep(g)
  <2>1. kind' = kind /\ users' = users /\ issues' = issues /\ posts' = posts /\ thread' = thread /\ missed' = missed
    BY <1>3 DEF RenderStep
  <2>2. CASE Fail(g, Step(g).retry, "permanent")
    BY Zenon, <1>0, <2>1, <2>2, Ends, CallKeeps, PostsStay
  <2>3. CASE Continue(g, Tail(todo[g]))
    <3>1. todo' = [todo EXCEPT ![g] = Tail(todo[g])] /\ todo[g] # << >>
      BY Zenon, <1>3, <2>3 DEF RenderStep, At, Continue
    <3> QED BY Zenon, <1>0, <2>1, <3>1, GoesOn, CallKeeps, PostsStay
  <2> QED BY Zenon, <1>3, <2>2, <2>3 DEF RenderStep
<1>4. CASE LooseStep(g)
  <2>1. kind' = kind /\ users' = users /\ issues' = issues /\ posts' = posts /\ thread' = thread /\ missed' = missed
    BY <1>4 DEF LooseStep
  <2>2. todo' = [todo EXCEPT ![g] = Tail(todo[g])] /\ todo[g] # << >>
    BY Zenon, <1>4 DEF LooseStep, At
  <2> QED BY Zenon, <1>0, <2>1, <2>2, GoesOn, CallKeeps, PostsStay
<1>5. CASE ReadStep(g)
  <2>1. kind' = kind /\ users' = users /\ issues' = issues /\ posts' = posts /\ thread' = thread /\ missed' = missed
    BY <1>5 DEF ReadStep
  <2>2. CASE Fail(g, Step(g).retry, "permanent")
    BY Zenon, <1>0, <2>1, <2>2, Ends, CallKeeps, PostsStay
  <2>3. CASE Continue(g, Tail(todo[g]))
    <3>1. todo' = [todo EXCEPT ![g] = Tail(todo[g])] /\ todo[g] # << >>
      BY Zenon, <1>5, <2>3 DEF ReadStep, At, Continue
    <3> QED BY Zenon, <1>0, <2>1, <3>1, GoesOn, CallKeeps, PostsStay
  <2> QED BY Zenon, <1>5, <2>2, <2>3 DEF ReadStep
<1>6. CASE Accepted(g)
  <2>1. kind' = kind /\ users' = users /\ missed' = missed
    BY <1>6 DEF Accepted
  <2>2. todo' = [todo EXCEPT ![g] = Tail(todo[g])] /\ todo[g] # << >> /\ Applied(g)
    BY Zenon, <1>6 DEF Accepted, AtRequest, Continue
  <2>3. /\ AtMostOne(issues', kind)
        /\ issues = {} /\ Step(g).do # "issue" => issues' = {}
        /\ posts' = posts \/ (posts' = posts + 1 /\ kind = "slackupdate" /\ Step(g).do = "post" /\ ~thread)
    BY Zenon, <2>2, AppliedKeeps
  <2>4. thread' = (thread \/ (kind = "slackupdate" /\ Step(g).do = "post"))
    BY Zenon, <1>6 DEF Accepted, Remember
  <2>5. PostsGood'
    <3>1. CASE posts' = posts
      BY Zenon, <1>0, <2>1, <2>4, <3>1 DEF PostsGood
    <3>2. CASE posts' = posts + 1 /\ kind = "slackupdate" /\ Step(g).do = "post" /\ ~thread
      <4>1. ~missed => posts = 0
        BY Zenon, <1>0, <3>2 DEF PostsGood
      <4>2. ~missed => posts' = 1
        BY <3>2, <4>1
      <4> QED BY Zenon, <2>1, <2>4, <3>2, <4>2 DEF PostsGood
    <3> QED BY Zenon, <2>3, <3>1, <3>2
  <2> QED BY Zenon, <2>1, <2>2, <2>3, <2>5, GoesOn, CallKeeps
<1>7. CASE searchExistingIssue(g)
  <2>1. kind' = kind /\ users' = users /\ issues' = issues /\ posts' = posts /\ thread' = thread /\ missed' = missed
    BY <1>7 DEF searchExistingIssue
  <2>2. todo' = [todo EXCEPT ![g] = jiraRest(kind, found', job[g].firing)] /\ todo[g] # << >> /\ Step(g).do = "search"
    BY Zenon, <1>7 DEF searchExistingIssue, At, Continue
  <2>3. g \in DOMAIN todo /\ Fits(todo[g], kind, issues)
    BY Zenon DEF NotifyInv, UsersGood
  <2>4. kind \in JiraKinds
    BY Zenon, <2>2, <2>3, TailFits DEF Step
  <2>5. found' = Nothing /\ job[g].firing => issues = {}
    BY Zenon, <1>7, SearchSees
  <2>6. Fits(jiraRest(kind, found', job[g].firing), kind, issues)
    BY Zenon, <2>4, <2>5, RestFits
  <2>7. todo'[g] = jiraRest(kind, found', job[g].firing)
    BY <2>2, <2>3
  <2>8. Fits(todo'[g], kind, issues') /\ todo' = [todo EXCEPT ![g] = todo'[g]]
    BY Zenon, <2>1, <2>2, <2>6, <2>7
  <2> QED BY Zenon, <1>0, <2>1, <2>8, CallKeeps, PostsStay
<1>8. CASE Refused(g) \/ RefusedInBody(g) \/ TokenRefused(g) \/ NoTransition(g)
  <2>1. kind' = kind /\ users' = users /\ issues' = issues /\ posts' = posts /\ thread' = thread /\ missed' = missed
    BY Zenon, <1>8 DEF Refused, RefusedInBody, TokenRefused, NoTransition
  <2>2. \E retry, why : Fail(g, retry, why)
    BY Zenon, <1>8 DEF Refused, RefusedInBody, TokenRefused, NoTransition
  <2>3. todo' = [todo EXCEPT ![g] = todo'[g]] /\ \A there : Fits(todo'[g], kind, there)
    BY Zenon, <2>2, Ends
  <2> QED BY Zenon, <1>0, <2>1, <2>3, CallKeeps, PostsStay
<1>9. CASE Lost(g) \/ Garbled(g)
  <2>1. kind' = kind /\ users' = users /\ missed' /\ todo[g] # << >> /\ MaybeApplied(g)
    BY <1>9 DEF Lost, Garbled, AtRequest
  <2>2. \E retry, why : Fail(g, retry, why)
    BY Zenon, <1>9 DEF Lost, Garbled
  <2>3. todo' = [todo EXCEPT ![g] = todo'[g]] /\ \A there : Fits(todo'[g], kind, there)
    BY Zenon, <2>2, Ends
  <2>4. AtMostOne(issues', kind)
    <3>1. CASE Applied(g)
      BY Zenon, <2>1, <3>1, AppliedKeeps
    <3>2. CASE UNCHANGED serviceVars
      <4>1. issues' = issues
        BY <3>2
      <4> QED BY Zenon, <1>0, <4>1
    <3> QED BY Zenon, <2>1, <3>1, <3>2 DEF MaybeApplied
  <2>5. PostsGood'
    BY Zenon, <2>1 DEF PostsGood
  <2> QED BY Zenon, <2>1, <2>3, <2>4, <2>5, CallKeeps
<1> QED BY Zenon, <1>1, <1>2, <1>3, <1>4, <1>5, <1>6, <1>7, <1>8, <1>9 DEF Call

LEMMA OtherStep ==
    ASSUME NotifyInv, TokenExpires \/ EntryLost \/ SomebodyCloses \/ IssueAges \/ Recovers
                      \/ (\E g \in users : ContextEnds(g)) \/ UNCHANGED vars
    PROVE  NotifyInv'
<1> USE DEF fixed, memory, serviceVars, calls
<1>0. AtMostOne(issues, kind) /\ PostsGood
  BY Zenon DEF NotifyInv
<1>1. CASE TokenExpires \/ Recovers \/ (\E g \in users : ContextEnds(g)) \/ UNCHANGED vars
  <2>1. kind' = kind /\ users' = users /\ todo' = todo /\ issues' = issues
        /\ posts' = posts /\ thread' = thread /\ missed' = missed
    BY <1>1 DEF TokenExpires, Recovers, ContextEnds, vars
  <2> QED BY Zenon, <1>0, <2>1, OthersKeep, PostsStay
<1>2. CASE EntryLost
  <2>1. kind' = kind /\ users' = users /\ todo' = todo /\ issues' = issues /\ missed'
    BY <1>2 DEF EntryLost
  <2>2. PostsGood'
    BY Zenon, <2>1 DEF PostsGood
  <2> QED BY Zenon, <1>0, <2>1, <2>2, OthersKeep
<1>3. CASE SomebodyCloses \/ IssueAges
  <2>1. kind' = kind /\ users' = users /\ todo' = todo /\ posts' = posts /\ thread' = thread /\ missed' = missed
    BY <1>3 DEF SomebodyCloses, IssueAges
  <2>2. PICK i \in issues : \/ issues' = issues \ {i}
                            \/ kind = "jira" /\ issues' = (issues \ {i}) \cup {[i EXCEPT !.open = FALSE]}
    BY Zenon, <1>3 DEF SomebodyCloses, IssueAges
  <2>3. issues = {i} /\ kind \in JiraKinds
    BY Zenon, <1>0 DEF AtMostOne
  <2>4. issues' = {} \/ (kind = "jira" /\ issues' = {[i EXCEPT !.open = FALSE]})
    BY <2>2, <2>3
  <2>5. AtMostOne(issues', kind)
    <3>1. CASE issues' = {}
      BY Zenon, <3>1 DEF AtMostOne
    <3>2. CASE kind = "jira" /\ issues' = {[i EXCEPT !.open = FALSE]}
      <4>1. DOMAIN [i EXCEPT !.open = FALSE] = {"id", "open", "text"} /\ [i EXCEPT !.open = FALSE].id \in 1 .. 3
        BY <1>0, <2>3 DEF AtMostOne
      <4> QED BY Zenon, <2>3, <3>2, <4>1 DEF AtMostOne
    <3> QED BY Zenon, <2>4, <3>1, <3>2
  <2>6. issues # {}
    BY Zenon, <2>3
  <2> QED BY Zenon, <1>0, <2>1, <2>5, <2>6, OthersKeep, PostsStay
<1> QED BY Zenon, <1>1, <1>2, <1>3

LEMMA NotifyInvInit ==
    ASSUME NotifierSetting, Init
    PROVE  NotifyInv
<1>1. PICK g \in Groups : g = CHOOSE h \in Groups : TRUE
  BY Zenon DEF NotifierSetting
<1>2. kind \in KnownKinds /\ todo = [h \in Groups |-> << >>]
  BY Zenon DEF Init, NotifierSetting
<1>3. users = Groups \/ users = {g}
  BY Zenon, <1>1 DEF Init
<1>4. kind \in JiraKinds => users = {g}
  BY <1>1 DEF Init, JiraKinds
<1>5. users \subseteq Groups /\ DOMAIN todo = Groups
  BY <1>2, <1>3
<1>6. UsersGood
  BY Zenon, <1>1, <1>2, <1>4, <1>5 DEF UsersGood
<1>7. AtMostOne(issues, kind) /\ PostsGood
  BY Zenon DEF Init, AtMostOne, PostsGood
<1>8. \A h \in users : todo[h] = << >>
  BY <1>2, <1>5
<1> QED BY Zenon, <1>6, <1>7, <1>8, DoneFits DEF NotifyInv

\* Notifying again makes no doubles: every call of Notify for Jira creates an issue only
\* after a search of the same call has found none, so a group never has two, whatever
\* requests and answers are lost and whenever issues are closed or age; and Slack with
\* update_message posts once while no answer and no log entry is lost.  For any groups,
\* texts and any of the integrations.
THEOREM NoDoublesThm ==
    ASSUME NotifierSetting
    PROVE  Spec => []NoDoubles
<1>1. Init => NotifyInv
  BY Zenon, NotifyInvInit
<1>2. NotifyInv /\ [Next]_vars => NotifyInv'
  BY Zenon, CallStep, OtherStep DEF Next
<1>3. NotifyInv => NoDoubles
  <2>1. SUFFICES ASSUME NotifyInv PROVE NoDoubles
    BY Zenon
  <2>2. \A i, k \in issues : i.open /\ k.open => i = k
    BY Zenon, <2>1 DEF NotifyInv, AtMostOne
  <2>3. ~missed => posts <= 1
    BY <2>1 DEF NotifyInv, PostsGood
  <2> QED BY Zenon, <2>2, <2>3 DEF NoDoubles
<1> QED BY <1>1, <1>2, <1>3, PTL DEF Spec

-----------------------------------------------------------------------------
(* The event recorder: the inductive invariant *)

\* An event waits in the queue; an output was given it.
Queued(e) == \E i \in DOMAIN queue : queue[i] = e
Handed(e) == \E v \in Version : e \in out[v].handed

OutGood == DOMAIN out = Version /\ \A v \in Version : "handed" \in DOMAIN out[v]

CountGood ==
    /\ recorded.n \in Nat /\ recorded.before \in Nat /\ recorded.before <= recorded.n
    /\ done \/ recorded.before = recorded.n
    /\ loop \in {"drain", "close", "ended"} => done

OutsGood == outs \subseteq Version /\ outs # {} /\ update \in Version \cup {0}

\* Every event is somewhere, also while the outputs are replaced; and once the loop has left
\* its queue, only events that were recorded after Close are still in it.
Somewhere == \A e \in 1 .. recorded.n : e \in dropped \/ Queued(e) \/ Handed(e)
LeftBehind == loop \in {"close", "ended"} => \A i \in DOMAIN queue : queue[i] > recorded.before

RecInv == OutGood /\ CountGood /\ OutsGood /\ queue \in Seq(Nat) /\ Somewhere /\ LeftBehind

\* What no step of an output does: to forget what it was handed.
OutKept == OutGood' /\ \A v \in Version : out[v].handed \subseteq out'[v].handed

\* A step of one output.
LEMMA OneOutput ==
    ASSUME OutGood, NEW v \in Version, NEW o, out' = [out EXCEPT ![v] = o], "handed" \in DOMAIN o,
           out[v].handed \subseteq o.handed
    PROVE  OutKept
BY Zenon DEF OutGood, OutKept

LEMMA ReopenKept == ASSUME OutGood, NEW v \in Version, reopen(v) PROVE OutKept
BY DEF OutGood, OutKept, reopen

LEMMA BatchAddKept == ASSUME OutGood, NEW v \in Version, BatchAdd(v) PROVE OutKept
<1> DEFINE o == [Added(out[v], Head(out[v].work)) EXCEPT !.work = Tail(out[v].work)]
<1>1. out' = [out EXCEPT ![v] = o]
  BY Zenon DEF BatchAdd
<1>2. "handed" \in DOMAIN out[v]
  BY Zenon DEF OutGood
<1>3. "handed" \in DOMAIN Added(out[v], Head(out[v].work)) /\ Added(out[v], Head(out[v].work)).handed = out[v].handed
  BY <1>2 DEF Added
<1>4. "handed" \in DOMAIN o /\ o.handed = out[v].handed
  BY <1>3
<1> HIDE DEF o
<1>5. out[v].handed \subseteq o.handed
  BY Zenon, <1>4
<1> QED BY Zenon, <1>1, <1>4, <1>5, OneOutput

LEMMA BatchFlushKept == ASSUME OutGood, NEW v \in Version, BatchFlush(v) PROVE OutKept
BY DEF OutGood, OutKept, BatchFlush

LEMMA TakeKept == ASSUME OutGood, NEW v \in Version, NEW w \in Worker, Take(v, w) PROVE OutKept
BY DEF OutGood, OutKept, Take

LEMMA PostKept == ASSUME OutGood, NEW v \in Version, NEW w \in Worker, postWithRetry(v, w) PROVE OutKept
<1>1. CASE out' = [out EXCEPT ![v].delivered = @ \o out[v].busy[w].data, ![v].busy[w] = NoWork]
  BY <1>1 DEF OutGood, OutKept
<1>2. CASE out' = [out EXCEPT ![v].busy[w].tries = @ + 1]
  BY <1>2 DEF OutGood, OutKept
<1>3. CASE out' = [out EXCEPT ![v].lost = @ \o out[v].busy[w].data, ![v].busy[w] = NoWork]
  BY <1>3 DEF OutGood, OutKept
<1> QED BY Zenon, <1>1, <1>2, <1>3 DEF postWithRetry

LEMMA CancelledKept == ASSUME OutGood, NEW v \in Version, NEW w \in Worker, Cancelled(v, w) PROVE OutKept
BY DEF OutGood, OutKept, Cancelled

LEMMA CancelKept == ASSUME OutGood, NEW v \in Version, Cancel(v) PROVE OutKept
BY DEF OutGood, OutKept, Cancel

LEMMA WorkerEndsKept == ASSUME OutGood, NEW v \in Version, NEW w \in Worker, WorkerEnds(v, w) PROVE OutKept
BY DEF OutGood, OutKept, WorkerEnds

LEMMA ProduceKept == ASSUME OutGood, NEW v \in Version, Produce(v) PROVE OutKept
BY DEF OutGood, OutKept, Produce

LEMMA ProducedKept == ASSUME OutGood, NEW v \in Version, Produced(v) PROVE OutKept
<1>1. CASE out' = [out EXCEPT ![v].batches = Tail(@), ![v].delivered = @ \o Head(out[v].batches)]
  BY <1>1 DEF OutGood, OutKept
<1>2. CASE out' = [out EXCEPT ![v].batches = Tail(@), ![v].lost = @ \o Head(out[v].batches)]
  BY <1>2 DEF OutGood, OutKept
<1> QED BY Zenon, <1>1, <1>2 DEF Produced

LEMMA DispatchEndsKept == ASSUME OutGood, NEW v \in Version, DispatchEnds(v) PROVE OutKept
BY DEF OutGood, OutKept, DispatchEnds

LEMMA OutputClosesKept == ASSUME OutGood, NEW v \in Version, OutputCloses(v) PROVE OutKept
<1>1. \/ out' = [out EXCEPT ![v].open = FALSE]
      \/ \E l : out' = [out EXCEPT ![v].open = FALSE, ![v].batches = << >>, ![v].lost = l]
  BY Zenon DEF OutputCloses
<1>2. CASE out' = [out EXCEPT ![v].open = FALSE]
  BY <1>2 DEF OutGood, OutKept
<1>3. ASSUME NEW l, out' = [out EXCEPT ![v].open = FALSE, ![v].batches = << >>, ![v].lost = l] PROVE OutKept
  BY <1>3 DEF OutGood, OutKept
<1> QED BY Zenon, <1>1, <1>2, <1>3

LEMMA SwapKept == ASSUME OutGood, SwapOutputs PROVE OutKept
BY DEF OutGood, OutKept, SwapOutputs

LEMMA DrainedKept == ASSUME OutGood, Drained PROVE OutKept
BY DEF OutGood, OutKept, Drained

\* The events that are recorded, queued and dropped, and the write loop.
Events == <<queue, recorded, dropped, done>>

\* A step that touches no event and keeps the loop in its queue, or out of it.
LEMMA RecorderStep ==
    ASSUME RecInv, OutKept, UNCHANGED Events, OutsGood', CountGood',
           loop' \in {"close", "ended"} => loop \in {"close", "ended"} \/ queue = << >>
    PROVE  RecInv'
<1>1. Somewhere'
  BY Zenon DEF RecInv, Somewhere, Events, Queued, Handed, OutKept
<1>2. LeftBehind'
  <2>1. CASE loop \in {"close", "ended"}
    BY Zenon, <2>1 DEF RecInv, LeftBehind, Events
  <2>2. CASE queue = << >>
    BY <2>2 DEF LeftBehind, Events
  <2> QED BY Zenon, <2>1, <2>2 DEF LeftBehind
<1> QED BY Zenon, <1>1, <1>2 DEF RecInv, OutKept, Events

\* The queue and the loop stay as they are.
LEMMA OutputStep ==
    ASSUME RecInv, OutKept, UNCHANGED <<queue, recorded, dropped, loop, outs, update, done>>
    PROVE  RecInv'
<1>1. OutsGood' /\ CountGood' /\ UNCHANGED Events
  BY Zenon DEF RecInv, OutsGood, CountGood, Events
<1> QED BY Zenon, <1>1, RecorderStep

LEMMA SameOut == ASSUME OutGood, UNCHANGED out PROVE OutKept
BY Zenon DEF OutGood, OutKept

LEMMA RecordEventStep == ASSUME RecInv, RecordEvent PROVE RecInv'
<1>1. /\ recorded'.n = recorded.n + 1
      /\ recorded'.before = IF done THEN recorded.before ELSE recorded.n + 1
      /\ UNCHANGED <<loop, outs, update, done, out>>
  BY DEF RecordEvent
<1>2. OutGood' /\ OutsGood' /\ CountGood'
  BY <1>1 DEF RecInv, OutGood, OutsGood, CountGood
<1>3. CASE Len(queue) < QueueSize
  <2>1. queue' = Append(queue, recorded.n + 1) /\ dropped' = dropped
    BY <1>3 DEF RecordEvent
  <2>2. queue' \in Seq(Nat) /\ recorded.n \in Nat
    BY <2>1 DEF RecInv, CountGood
  <2>3. /\ DOMAIN queue' = 1 .. (Len(queue) + 1) /\ DOMAIN queue = 1 .. Len(queue) /\ Len(queue) \in Nat
        /\ queue'[Len(queue) + 1] = recorded.n + 1
        /\ \A i \in DOMAIN queue : i \in DOMAIN queue' /\ queue'[i] = queue[i]
    BY <2>1 DEF RecInv, CountGood
  <2>4. Somewhere'
    <3> SUFFICES ASSUME NEW e \in 1 .. (recorded.n + 1) PROVE e \in dropped' \/ Queued(e)' \/ Handed(e)'
      BY <1>1 DEF Somewhere
    <3>1. CASE e = recorded.n + 1
      BY <2>3, <3>1 DEF Queued
    <3>2. CASE e \in 1 .. recorded.n
      BY Zenon, <1>1, <2>1, <2>3, <3>2 DEF RecInv, Somewhere, Queued, Handed
    <3> QED BY <2>2, <3>1, <3>2
  <2>5. LeftBehind'
    <3> SUFFICES ASSUME loop \in {"close", "ended"}, NEW i \in DOMAIN queue' PROVE queue'[i] > recorded'.before
      BY <1>1 DEF LeftBehind
    <3>1. done /\ recorded'.before = recorded.before /\ recorded.before < recorded.n + 1
      BY <1>1 DEF RecInv, CountGood
    <3>2. CASE i \in DOMAIN queue
      BY Zenon, <2>3, <3>1, <3>2 DEF RecInv, LeftBehind
    <3>3. CASE i = Len(queue) + 1
      BY <2>3, <3>1, <3>3 DEF RecInv, CountGood
    <3> QED BY <2>3, <3>2, <3>3
  <2> QED BY Zenon, <1>2, <2>2, <2>4, <2>5 DEF RecInv
<1>4. CASE ~(Len(queue) < QueueSize)
  <2>1. queue' = queue /\ dropped' = dropped \cup {recorded.n + 1} /\ recorded.n \in Nat
    BY <1>4 DEF RecordEvent, RecInv, CountGood
  <2>2. Somewhere'
    <3> SUFFICES ASSUME NEW e \in 1 .. (recorded.n + 1) PROVE e \in dropped' \/ Queued(e)' \/ Handed(e)'
      BY <1>1 DEF Somewhere
    <3>1. CASE e = recorded.n + 1
      BY <2>1, <3>1
    <3>2. CASE e \in 1 .. recorded.n
      BY Zenon, <1>1, <2>1, <3>2 DEF RecInv, Somewhere, Queued, Handed
    <3> QED BY <2>1, <3>1, <3>2
  <2>3. LeftBehind'
    BY <1>1, <2>1 DEF RecInv, LeftBehind, CountGood
  <2> QED BY Zenon, <1>2, <2>1, <2>2, <2>3 DEF RecInv
<1> QED BY Zenon, <1>3, <1>4

LEMMA SendEventHands ==
    ASSUME NEW o, NEW e, "handed" \in DOMAIN o
    PROVE  "handed" \in DOMAIN SendEvent(o, e) /\ SendEvent(o, e).handed = o.handed \cup {e}
BY DEF SendEvent

LEMMA WriteEventStep == ASSUME RecInv, WriteEvent PROVE RecInv'
<1>1. /\ loop \in {"run", "drain"} /\ queue # << >> /\ queue' = Tail(queue)
      /\ out' = [v \in Version |-> IF v \in outs THEN SendEvent(out[v], Head(queue)) ELSE out[v]]
      /\ UNCHANGED <<recorded, dropped, loop, outs, update, done>>
  BY Zenon DEF WriteEvent
<1>2. OutKept /\ \A v \in outs : Head(queue) \in out'[v].handed
  <2>1. \A v \in Version : "handed" \in DOMAIN out[v] /\ outs \subseteq Version
    BY Zenon DEF RecInv, OutGood, OutsGood
  <2>2. ASSUME NEW v \in Version
        PROVE  /\ "handed" \in DOMAIN out'[v] /\ out[v].handed \subseteq out'[v].handed
               /\ v \in outs => Head(queue) \in out'[v].handed
    <3>1. CASE v \in outs
      <4>1. out'[v] = SendEvent(out[v], Head(queue))
        BY Zenon, <1>1, <3>1
      <4>2. "handed" \in DOMAIN out'[v] /\ out'[v].handed = out[v].handed \cup {Head(queue)}
        BY Zenon, <2>1, <4>1, SendEventHands
      <4> QED BY Zenon, <4>2
    <3>2. CASE v \notin outs
      BY Zenon, <1>1, <2>1, <3>2
    <3> QED BY Zenon, <3>1, <3>2
  <2>3. DOMAIN out' = Version
    BY Zenon, <1>1
  <2>4. OutKept
    BY Zenon, <2>2, <2>3 DEF OutKept, OutGood
  <2>5. outs \subseteq Version
    BY Zenon DEF RecInv, OutsGood
  <2> QED BY Zenon, <2>2, <2>4, <2>5
<1>3. OutsGood' /\ CountGood'
  BY Zenon, <1>1 DEF RecInv, OutsGood, CountGood
<1>4. /\ queue' \in Seq(Nat) /\ Len(queue) \in Nat
      /\ \A i \in DOMAIN queue :
            (i = 1 /\ queue[i] = Head(queue)) \/ (i - 1 \in DOMAIN queue' /\ queue'[i - 1] = queue[i])
  BY <1>1 DEF RecInv
<1>5. Somewhere'
  <2> SUFFICES ASSUME NEW e \in 1 .. recorded.n PROVE e \in dropped \/ Queued(e)' \/ Handed(e)'
    BY Zenon, <1>1 DEF Somewhere
  <2>1. CASE Queued(e)
    <3>1. PICK i \in DOMAIN queue : queue[i] = e
      BY Zenon, <2>1 DEF Queued
    <3>2. CASE queue[i] = Head(queue)
      <4>1. PICK v \in outs : v \in Version
        BY Zenon DEF RecInv, OutsGood
      <4> QED BY Zenon, <1>2, <3>1, <3>2, <4>1 DEF Handed
    <3>3. CASE i - 1 \in DOMAIN queue' /\ queue'[i - 1] = queue[i]
      BY Zenon, <3>1, <3>3 DEF Queued
    <3> QED BY Zenon, <1>4, <3>2, <3>3
  <2>2. CASE Handed(e)
    BY Zenon, <1>2, <2>2 DEF Handed, OutKept
  <2> QED BY Zenon, <2>1, <2>2 DEF RecInv, Somewhere
<1>6. LeftBehind'
  BY Zenon, <1>1 DEF LeftBehind
<1> QED BY Zenon, <1>2, <1>3, <1>4, <1>5, <1>6 DEF RecInv, OutKept

\* The steps of the write loop that touch no event.
LEMMA LoopStep ==
    ASSUME RecInv, ApplyIgnored \/ SwapOutputs \/ Swapped \/ Close \/ WriteDone \/ Drained \/ CloseReturns
    PROVE  RecInv'
<1>1. CASE ApplyIgnored
  BY <1>1, SameOut, RecorderStep DEF ApplyIgnored, RecInv, OutsGood, CountGood, Events
<1>2. CASE SwapOutputs
  <2>1. OutsGood' /\ CountGood' /\ UNCHANGED Events /\ loop' \notin {"close", "ended"}
    <3>1. UNCHANGED Events /\ loop = "run" /\ update # 0
      BY Zenon, <1>2 DEF SwapOutputs, Events
    <3>2. (loop' = loop /\ outs' = outs /\ update' = 0) \/ (loop' = "swap" /\ outs' = {update} /\ update' = update)
      BY Zenon, <1>2 DEF SwapOutputs
    <3>3. loop' \notin {"drain", "close", "ended"} /\ loop' \notin {"close", "ended"}
      BY <3>1, <3>2
    <3>4. OutsGood'
      BY Zenon, <3>1, <3>2 DEF RecInv, OutsGood
    <3> QED BY Zenon, <3>1, <3>3, <3>4 DEF RecInv, CountGood, Events
  <2> QED BY Zenon, <1>2, <2>1, SwapKept, RecorderStep DEF RecInv
<1>3. CASE Swapped
  BY <1>3, SameOut, RecorderStep DEF Swapped, RecInv, OutsGood, CountGood, Events
<1>4. CASE Close
  <2>1. OutsGood' /\ CountGood' /\ UNCHANGED <<queue, recorded, dropped, loop, out>>
    BY Zenon, <1>4 DEF Close, RecInv, OutsGood, CountGood
  <2>2. Somewhere' /\ LeftBehind' /\ OutGood'
    BY Zenon, <2>1 DEF RecInv, Somewhere, LeftBehind, OutGood, Queued, Handed
  <2> QED BY Zenon, <2>1, <2>2 DEF RecInv
<1>5. CASE WriteDone
  BY <1>5, SameOut, RecorderStep DEF WriteDone, RecInv, OutsGood, CountGood, Events
<1>6. CASE Drained
  <2>1. OutsGood' /\ CountGood' /\ UNCHANGED Events /\ queue = << >>
    BY <1>6 DEF Drained, RecInv, OutsGood, CountGood, Events
  <2> QED BY Zenon, <1>6, <2>1, DrainedKept, RecorderStep DEF RecInv
<1>7. CASE CloseReturns
  BY <1>7, SameOut, RecorderStep DEF CloseReturns, RecInv, OutsGood, CountGood, Events
<1> QED BY Zenon, <1>1, <1>2, <1>3, <1>4, <1>5, <1>6, <1>7

\* The steps of one output, and a caller that asks for other outputs.
LEMMA VersionStep ==
    ASSUME RecInv, NEW v \in Version,
           \/ ApplyConfig(v) \/ reopen(v) \/ BatchAdd(v) \/ BatchFlush(v) \/ Cancel(v)
           \/ Produce(v) \/ Produced(v) \/ DispatchEnds(v) \/ OutputCloses(v)
           \/ \E w \in Worker : Take(v, w) \/ postWithRetry(v, w) \/ Cancelled(v, w) \/ WorkerEnds(v, w)
    PROVE  RecInv'
<1>0. OutGood
  BY Zenon DEF RecInv
<1>1. CASE ApplyConfig(v)
  <2>1. OutsGood' /\ CountGood' /\ UNCHANGED Events /\ UNCHANGED <<out, loop>>
    BY Zenon, <1>1 DEF ApplyConfig, RecInv, OutsGood, CountGood, Events
  <2> QED BY Zenon, <1>0, <2>1, SameOut, RecorderStep
<1>2. ASSUME OutKept, UNCHANGED <<queue, recorded, dropped, loop, outs, update, done>> PROVE RecInv'
  BY Zenon, <1>2, OutputStep
<1>3. CASE reopen(v)
  BY Zenon, <1>0, <1>2, <1>3, ReopenKept DEF reopen
<1>4. CASE BatchAdd(v)
  BY Zenon, <1>0, <1>2, <1>4, BatchAddKept DEF BatchAdd
<1>5. CASE BatchFlush(v)
  BY Zenon, <1>0, <1>2, <1>5, BatchFlushKept DEF BatchFlush
<1>6. CASE Cancel(v)
  BY Zenon, <1>0, <1>2, <1>6, CancelKept DEF Cancel
<1>7. CASE Produce(v)
  BY Zenon, <1>0, <1>2, <1>7, ProduceKept DEF Produce
<1>8. CASE Produced(v)
  BY Zenon, <1>0, <1>2, <1>8, ProducedKept DEF Produced
<1>9. CASE DispatchEnds(v)
  BY Zenon, <1>0, <1>2, <1>9, DispatchEndsKept DEF DispatchEnds
<1>10. CASE OutputCloses(v)
  BY Zenon, <1>0, <1>2, <1>10, OutputClosesKept DEF OutputCloses
<1>11. ASSUME NEW w \in Worker, Take(v, w) \/ postWithRetry(v, w) \/ Cancelled(v, w) \/ WorkerEnds(v, w) PROVE RecInv'
  <2>1. CASE Take(v, w)
    BY Zenon, <1>0, <1>2, <2>1, TakeKept DEF Take
  <2>2. CASE postWithRetry(v, w)
    BY Zenon, <1>0, <1>2, <2>2, PostKept DEF postWithRetry
  <2>3. CASE Cancelled(v, w)
    BY Zenon, <1>0, <1>2, <2>3, CancelledKept DEF Cancelled
  <2>4. CASE WorkerEnds(v, w)
    BY Zenon, <1>0, <1>2, <2>4, WorkerEndsKept DEF WorkerEnds
  <2> QED BY Zenon, <1>11, <2>1, <2>2, <2>3, <2>4
<1> QED BY Zenon, <1>1, <1>3, <1>4, <1>5, <1>6, <1>7, <1>8, <1>9, <1>10, <1>11

LEMMA RecStarts == ASSUME RecInit PROVE RecInv
<1>1. /\ queue = << >> /\ recorded = [n |-> 0, before |-> 0] /\ loop = "run" /\ outs = {1} /\ update = 0
      /\ out = [v \in Version |-> [NewOutput EXCEPT !.open = v = 1]]
  BY Zenon DEF RecInit
<1>2. OutGood
  BY <1>1 DEF OutGood, NewOutput
<1>3. CountGood /\ OutsGood /\ queue \in Seq(Nat)
  BY <1>1 DEF CountGood, OutsGood, Version
<1>4. Somewhere /\ LeftBehind
  BY <1>1 DEF Somewhere, LeftBehind
<1> QED BY Zenon, <1>2, <1>3, <1>4 DEF RecInv

\* writeLoop, Close: for any kind of output, any sizes of queues and any reloads, when the
\* recorder has ended every event recorded before Close was handed to an output or was
\* counted as dropped.
THEOREM NothingForgottenThm == RecSpec => []NothingForgotten
<1>1. RecInv /\ [RecNext]_recVars => RecInv'
  <2> SUFFICES ASSUME RecInv, [RecNext]_recVars PROVE RecInv'
    OBVIOUS
  <2>1. CASE RecordEvent
    BY Zenon, <2>1, RecordEventStep
  <2>2. CASE WriteEvent
    BY Zenon, <2>2, WriteEventStep
  <2>3. CASE ApplyIgnored \/ SwapOutputs \/ Swapped \/ Close \/ WriteDone \/ Drained \/ CloseReturns
    BY Zenon, <2>3, LoopStep
  <2>4. ASSUME NEW v \in Version,
               \/ ApplyConfig(v) \/ reopen(v) \/ BatchAdd(v) \/ BatchFlush(v) \/ Cancel(v)
               \/ Produce(v) \/ Produced(v) \/ DispatchEnds(v) \/ OutputCloses(v)
               \/ \E w \in Worker : Take(v, w) \/ postWithRetry(v, w) \/ Cancelled(v, w) \/ WorkerEnds(v, w)
        PROVE  RecInv'
    BY Zenon, <2>4, VersionStep
  <2>5. CASE UNCHANGED recVars
    <3>1. OutKept /\ UNCHANGED <<queue, recorded, dropped, loop, outs, update, done>>
      BY Zenon, <2>5, SameOut DEF recVars, RecInv
    <3> QED BY Zenon, <3>1, OutputStep
  <2> QED BY Zenon, <2>1, <2>2, <2>3, <2>4, <2>5 DEF RecNext
<1>2. RecInv => NothingForgotten
  <2> SUFFICES ASSUME RecInv, loop = "ended", NEW e \in 1 .. recorded.before PROVE e \in dropped \/ Handed(e)
    BY Zenon DEF NothingForgotten, Handed
  <2>1. e \in 1 .. recorded.n /\ e \in Nat /\ ~(e > recorded.before)
    BY DEF RecInv, CountGood
  <2>2. ~Queued(e)
    BY Zenon, <2>1 DEF RecInv, LeftBehind, Queued
  <2> QED BY Zenon, <2>1, <2>2 DEF RecInv, Somewhere
<1>3. RecInit => RecInv
  BY Zenon, RecStarts
<1> QED BY <1>1, <1>2, <1>3, PTL DEF RecSpec
=============================================================================

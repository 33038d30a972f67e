----------------------------- MODULE ApiCompat -----------------------------
(***************************************************************************)
(* What the handlers of api/v2/api.go and api/v2/compat.go compute: the     *)
(* conversions between the models of the API and the types of the stores,   *)
(* the filters and the order of silences.                                   *)
(*                                                                          *)
(* A label set of the stores is a function from names to values.  A silence *)
(* of the store has a sequence of matcher sets, which are sequences.        *)
(***************************************************************************)
EXTENDS RestApi

\* labels.Matcher.Matches; "any" stands for a regular expression that matches
\* every text, all others match themselves only.  External: regexp.
Matches(m, v) ==
  CASE m.type = "=" -> v = m.value
    [] m.type = "!=" -> v # m.value
    [] m.type = "=~" -> m.value = "any" \/ v = m.value
    [] m.type = "!~" -> ~(m.value = "any" \/ v = m.value)

-----------------------------------------------------------------------------
(* Conversions. *)

\* isEqual is true unless it is given, isRegex is false.
MatcherType(m) ==
  CASE m.isEqual # FALSE /\ m.isRegex # TRUE -> "="
    [] m.isEqual = FALSE /\ m.isRegex # TRUE -> "!="
    [] m.isEqual # FALSE /\ m.isRegex = TRUE -> "=~"
    [] m.isEqual = FALSE /\ m.isRegex = TRUE -> "!~"

PostableSilenceToProto(s) ==
  [id |-> s.id, startsAt |-> s.startsAt, endsAt |-> s.endsAt, comment |-> s.comment, createdBy |-> s.createdBy,
   annotations |-> IF s.annotations = Nil THEN {} ELSE s.annotations,
   matcherSets |-> <<[i \in 1..Len(s.matchers) |->
     [name |-> s.matchers[i].name, pattern |-> s.matchers[i].value, type |-> MatcherType(s.matchers[i])]]>>]

\* silence.CurrentState
CurrentState(start, end, now) ==
  IF now < start THEN "pending" ELSE IF now < end THEN "active" ELSE "expired"

\* Several sets of matchers cannot be shown.
GettableSilenceFromProto(s, now) ==
  IF Len(s.matcherSets) > 1 THEN Bad ELSE
  LET ms == IF s.matcherSets = <<>> THEN <<>> ELSE s.matcherSets[1] IN
  [id |-> s.id, updatedAt |-> s.updatedAt, status |-> [state |-> CurrentState(s.startsAt, s.endsAt, now)],
   startsAt |-> s.startsAt, endsAt |-> s.endsAt, comment |-> s.comment, createdBy |-> s.createdBy,
   annotations |-> s.annotations,
   matchers |-> [i \in 1..Len(ms) |->
     [name |-> ms[i].name, value |-> ms[i].pattern,
      isEqual |-> ms[i].type \in {"=", "=~"}, isRegex |-> ms[i].type \in {"=~", "!~"}]]]

ModelLabelSetToAPILabelSet(ls) == IF ls = Nil THEN {} ELSE ls

OrEmpty(s) == IF s = Nil THEN <<>> ELSE s

AlertToOpenAPIAlert(source, status, receivers, mutedBy) ==
  [labels |-> ModelLabelSetToAPILabelSet(source.labels), generatorURL |-> source.generatorURL,
   annotations |-> ModelLabelSetToAPILabelSet(source.annotations),
   startsAt |-> source.startsAt, endsAt |-> source.endsAt, updatedAt |-> source.updatedAt,
   fingerprint |-> source.labels,
   receivers |-> [i \in 1..Len(receivers) |-> [name |-> receivers[i]]],
   status |-> [state |-> IF mutedBy \notin {Nil, <<>>} THEN "suppressed" ELSE status.state,
               silencedBy |-> OrEmpty(status.silencedBy), inhibitedBy |-> OrEmpty(status.inhibitedBy),
               mutedBy |-> OrEmpty(mutedBy)]]

(* The marker of alerts, a map from fingerprints to their status. *)

Marked(m, fp) == IF fp \in DOMAIN m THEN m[fp] ELSE [silencedBy |-> <<>>, inhibitedBy |-> <<>>]
SetSilenced(m, fp, by) == (fp :> [Marked(m, fp) EXCEPT !.silencedBy = by]) @@ m
SetInhibited(m, fp, by) == (fp :> [Marked(m, fp) EXCEPT !.inhibitedBy = by]) @@ m
MarkerStatus(m, fp) ==
  [silencedBy |-> Marked(m, fp).silencedBy, inhibitedBy |-> Marked(m, fp).inhibitedBy,
   state |-> CASE fp \notin DOMAIN m -> "unprocessed"
               [] Marked(m, fp).silencedBy # <<>> \/ Marked(m, fp).inhibitedBy # <<>> -> "suppressed"
               [] OTHER -> "active"]

\* setAlertStatus lets the inhibitor and the silencer write to a fresh marker.
predictAlertStatus(fp, silencedBy, inhibitedBy) ==
  MarkerStatus(SetSilenced(SetInhibited(<<>>, fp, inhibitedBy), fp, silencedBy), fp)

\* A group of an answer.
apiAlertGroup(group, alerts) ==
  [receiver |-> [name |-> group.receiver], labels |-> ModelLabelSetToAPILabelSet(group.labels),
   routeLabels |-> ModelLabelSetToAPILabelSet(group.routeLabels), alerts |-> alerts]

configReceiverToAPIReceiver(rcv) == [name |-> rcv.name, labels |-> rcv.labels]

\* Peers are sorted by name, which is a number here.  Without a cluster there is no peer.
apiStatus(config, peer) ==
  [uptime |-> 0, config |-> [original |-> config],
   versionInfo |-> [f \in {"branch", "buildDate", "buildUser", "goVersion", "revision", "version"} |-> f],
   cluster |-> IF peer = Nil THEN [name |-> "", status |-> "disabled", peers |-> <<>>]
               ELSE [name |-> peer.name, status |-> peer.status,
                     peers |-> SortSeq(peer.peers, LAMBDA a, b : a.name < b.name)]]

-----------------------------------------------------------------------------
(* Filters. *)

removeEmptyLabels(ls) == {l \in ls : l.value # ""}

matchFilterLabels(matchers, sms) ==
  \A m \in matchers :
    LET prs == m.name \in DOMAIN sms
        v == IF prs THEN sms[m.name] ELSE "" IN
    \/ m.value = "" /\ prs = (m.type \in {"!~", "!="})
    \/ Matches(m, v)

\* Mutant: an alert that is silenced and inhibited is shown when either of
\* them is asked for.
alertFilterEither(a, matchers, silenced, inhibited, active, status, now) ==
  /\ a.endsAt = 0 \/ a.endsAt >= now
  /\ matchFilterLabels(matchers, a.labels)
  /\ active \/ status.state # "active"
  /\ \/ status.silencedBy = <<>> /\ status.inhibitedBy = <<>>
     \/ silenced /\ status.silencedBy # <<>>
     \/ inhibited /\ status.inhibitedBy # <<>>

\* An alert that has ended (0: never) is not shown; the others depend on the
\* labels and on the predicted status.
alertFilter(a, matchers, silenced, inhibited, active, status, now) ==
  /\ a.endsAt = 0 \/ a.endsAt >= now
  /\ matchFilterLabels(matchers, a.labels)
  /\ active \/ status.state # "active"
  /\ silenced \/ status.silencedBy = <<>>
  /\ inhibited \/ status.inhibitedBy = <<>>

checkMatcherSetMatchesFilterLabels(ms, matchers) ==
  \A f \in matchers : \E i \in 1..Len(ms) : ms[i].name = f.name /\ ms[i].type = f.type /\ ms[i].pattern = f.value

CheckSilenceMatchesFilterLabels(s, matchers) ==
  \E i \in 1..Len(s.matcherSets) : checkMatcherSetMatchesFilterLabels(s.matcherSets[i], matchers)

-----------------------------------------------------------------------------
(* SortSilences: the comparison it gives to sort.Slice. *)

silenceStateOrder == [active |-> 1, pending |-> 2, expired |-> 3]

SilenceLess(a, b) ==
  IF a.status.state # b.status.state
    THEN silenceStateOrder[a.status.state] < silenceStateOrder[b.status.state]
    ELSE CASE a.status.state = "active" -> a.endsAt < b.endsAt
           [] a.status.state = "pending" -> a.startsAt < b.startsAt
           [] a.status.state = "expired" -> a.endsAt > b.endsAt
=============================================================================

SPECIFICATION MCSpec
CONSTANTS
  w1 = w1
  w2 = w2
  x1 = x1
  x2 = x2
  Idle = Idle
  Nothing = Nothing
  Groups = {g1, g2}
  Texts = {t1, t2}
  Kinds = {"webhook", "discord", "msteams", "msteamsv2", "mattermost", "incidentio", "pushover", "victorops", "webex", "telegram", "sns", "pagerdutyv1", "pagerduty", "rocketchat", "slack", "slackupdate", "opsgenie", "opsgenieupdate", "wechat", "wechatshared", "jira", "jiraplain", "email", "smtps", "emailplain"}
INVARIANTS NoDoubles  TreeAsConfigured DaysAsNamed
PROPERTIES VerdictIsRight SucceedsAfterRecovery 
CHECK_DEADLOCK FALSE

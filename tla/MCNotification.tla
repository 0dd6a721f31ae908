--------------------------- MODULE MCNotification ---------------------------
EXTENDS Notification

\* An alert is left alone, so that its endless evaluations stay few: what a
\* change does to it, taking the lease away, an expired lease does as well.
\* Once a rule is deleted its channels may be.
MCMaxChanges == [kind \in Kinds \cup {"none"} |->
  CASE kind = "scheduled_report" -> 1 [] kind = "threshold_alert" -> 0 [] OTHER -> 2]
=============================================================================

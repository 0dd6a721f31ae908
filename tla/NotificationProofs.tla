------------------------- MODULE NotificationProofs -------------------------
(***************************************************************************)
(* Theorems about Notification: the types, that a delivery is sent again   *)
(* only after an error its sender saw, and that the windows of a report    *)
(* leave no time out.                                                      *)
(***************************************************************************)
EXTENDS Notification, TLAPS

-----------------------------------------------------------------------------
(* Deliveries: a row, its task and whether it is sent without an error.    *)

\* DeliveryInv for a row d and its task t, the delivery x and those sent.
RowOK(d, t, x, A) ==
  /\ (d.status = "sending") <=> (d.owner # Nobody)
  /\ (t.stage = "none") <=> (t.by = Nobody)
  /\ t.stage # "none" => d.owner = t.by
  /\ x \in A => d.status \in {"sending", "succeeded"} /\ t.stage \in {"none", "sending", "ok"}

\* The cells of a state, one for a slot and a channel.
Cells == \A s \in Slots, c \in Channels :
  RowOK(runs[s].delivery[c], task[s][c], <<s, c>>, sent)

LEMMA CellsAreDeliveryInv == DeliveryInv <=> Cells
  BY DEF DeliveryInv, Cells, RowOK

Sender(i) == [NoTask EXCEPT !.by = i, !.stage = "sending"]

LEMMA NoTaskType == NoTask \in Tasks /\ NoTask.by = Nobody /\ NoTask.stage = "none"
  BY DEF NoTask, Tasks

LEMMA SenderType ==
  ASSUME NEW i \in Instances
  PROVE  Sender(i) \in Tasks /\ Sender(i).by = i /\ Sender(i).stage = "sending"
  BY DEF Sender, NoTask, Tasks

\* A claim takes a row without a lease, so one without a task, and not sent
\* since the last error (notification_claim_delivery).
LEMMA ClaimRow ==
  ASSUME NEW i \in Instances, NEW d \in DeliveryRows, NEW t \in Tasks, NEW x, NEW A,
         RowOK(d, t, x, A), claimable_delivery(d)
  PROVE  /\ notification_claim_delivery(d, i) \in DeliveryRows
         /\ RowOK(notification_claim_delivery(d, i), NoTask, x, A)
         /\ RowOK(notification_claim_delivery(d, i), Sender(i), x, A \cup {x})
         /\ x \notin A
  <1>1. x \notin A /\ d.status = "pending"
    BY DEF RowOK, claimable_delivery
  <1>2. LET e == notification_claim_delivery(d, i)
        IN e \in DeliveryRows /\ e.status = "sending" /\ e.owner = i
    <2>1. d.attempts + 1 \in Nat
      BY DEF DeliveryRows
    <2> QED
      BY <2>1 DEF notification_claim_delivery, DeliveryRows, Owners
  <1>3. i # Nobody
    BY InstancesAssumption
  <1> QED
    BY <1>1, <1>2, <1>3, NoTaskType, SenderType DEF RowOK

\* What the sender hears: the row is still its task's.
LEMMA AnswerRow ==
  ASSUME NEW d \in DeliveryRows, NEW t \in Tasks, NEW x, NEW A, RowOK(d, t, x, A),
         t.stage = "sending", NEW answer \in {"ok", "retryable", "permanent"}
  PROVE  /\ [t EXCEPT !.stage = answer] \in Tasks
         /\ RowOK(d, [t EXCEPT !.stage = answer], x, IF answer = "ok" THEN A ELSE A \ {x})
  <1>1. LET u == [t EXCEPT !.stage = answer]
        IN u \in Tasks /\ u.stage = answer /\ u.by = t.by
    BY DEF Tasks
  <1>2. t.by # Nobody /\ d.owner = t.by /\ d.status = "sending"
    BY DEF RowOK
  <1> QED
    BY <1>1, <1>2 DEF RowOK

\* A settled row is no longer leased.
LEMMA SettledRow ==
  ASSUME NEW d \in DeliveryRows, NEW status \in {"pending", "succeeded", "failed"}
  PROVE  LET e == Settled(d, status)
         IN e \in DeliveryRows /\ e.status = status /\ e.owner = Nobody
  BY DEF Settled, DeliveryRows, Owners

\* The results that deliver_one records: an error has been seen of what failed.
LEMMA FinishRow ==
  ASSUME NEW d \in DeliveryRows, NEW t \in Tasks, NEW x, NEW A, RowOK(d, t, x, A),
         t.stage \in {"ok", "retryable", "permanent"}, NEW e,
         e = IF t.stage = "ok" THEN notification_finish_delivery_success(d, t.by)
             ELSE notification_finish_delivery_failure(d, t.by, t.stage = "retryable")
  PROVE  e \in DeliveryRows /\ RowOK(e, NoTask, x, A)
  <1>1. d.owner = t.by /\ (t.stage # "ok" => x \notin A)
    BY DEF RowOK
  <1>2. CASE t.stage = "ok"
    <2>1. e = Settled(d, "succeeded")
      BY <1>1, <1>2 DEF notification_finish_delivery_success
    <2> QED
      BY <2>1, SettledRow, NoTaskType DEF RowOK
  <1>3. CASE t.stage # "ok"
    <2>1. PICK status \in {"pending", "failed"} : e = Settled(d, status)
      BY <1>1, <1>3 DEF notification_finish_delivery_failure
    <2> QED
      BY <1>1, <1>3, <2>1, SettledRow, NoTaskType DEF RowOK
  <1> QED
    BY <1>2, <1>3

\* A task that ends without a record leaves its row leased.
LEMMA DropRow ==
  ASSUME NEW d, NEW t, NEW x, NEW A, RowOK(d, t, x, A)
  PROVE  RowOK(d, NoTask, x, A)
  BY NoTaskType DEF RowOK

\* The administrator retries what has failed, of which an error was seen.
LEMMA RetryRow ==
  ASSUME NEW d \in DeliveryRows, NEW t \in Tasks, NEW x, NEW A, RowOK(d, t, x, A),
         d.status = "failed"
  PROVE  /\ notification_retry_delivery(d) \in DeliveryRows
         /\ RowOK(notification_retry_delivery(d), t, x, A)
  <1>1. LET e == notification_retry_delivery(d)
        IN e \in DeliveryRows /\ e.status = "pending" /\ e.owner = Nobody
    BY DEF notification_retry_delivery, DeliveryRows, Owners
  <1> QED
    BY <1>1 DEF RowOK

LEMMA DueRow ==
  ASSUME NEW d \in DeliveryRows, NEW t, NEW x, NEW A, RowOK(d, t, x, A)
  PROVE  /\ [d EXCEPT !.due = TRUE] \in DeliveryRows
         /\ RowOK([d EXCEPT !.due = TRUE], t, x, A)
  <1>1. LET e == [d EXCEPT !.due = TRUE]
        IN e \in DeliveryRows /\ e.status = d.status /\ e.owner = d.owner
    BY DEF DeliveryRows
  <1> QED
    BY <1>1 DEF RowOK

\* The row and the task of a cell when instance i dies.
RowAfter(d, i)  == [d EXCEPT !.owner = Disowned(@, i)]
TaskAfter(t, i) == IF t.by = i THEN NoTask ELSE t

LEMMA CrashRow ==
  ASSUME NEW i \in Instances, NEW d \in DeliveryRows, NEW t \in Tasks, NEW x, NEW A,
         RowOK(d, t, x, A)
  PROVE  /\ RowAfter(d, i) \in DeliveryRows /\ TaskAfter(t, i) \in Tasks
         /\ RowOK(RowAfter(d, i), TaskAfter(t, i), x, A)
  <1>1. LET e == RowAfter(d, i)
        IN /\ e \in DeliveryRows /\ e.status = d.status
           /\ e.owner = IF d.owner = i THEN Gone ELSE d.owner
    BY DEF RowAfter, Disowned, DeliveryRows, Owners
  <1>2. i # Nobody /\ Gone # Nobody
    BY InstancesAssumption DEF Gone, Nobody
  <1>3. CASE t.by = i
    BY <1>1, <1>2, <1>3, NoTaskType DEF RowOK, TaskAfter
  <1>4. CASE t.by # i
    BY <1>1, <1>2, <1>4 DEF RowOK, TaskAfter
  <1> QED
    BY <1>3, <1>4

\* A new run's deliveries are leased to nobody.
LEMMA NewRun ==
  ASSUME NEW event \in AlertEvents \cup {"none", "test", "manual_report", "scheduled_report"},
         NEW window \in [from : Int, to : Int], NEW linked \in BOOLEAN, NEW ids \in SUBSET Channels,
         NEW ch \in [Channels -> {"enabled", "disabled", "deleted"}]
  PROVE  LET r == notification_create_run(event, window, linked, ids, ch)
         IN /\ r \in RunRows
            /\ r.event = event /\ r.sched = window.to /\ r.from = window.from
            /\ \A c \in Channels : RowOK(r.delivery[c], NoTask, c, {})
  <1> DEFINE r == notification_create_run(event, window, linked, ids, ch)
             d(c) == CASE c \in ids /\ ch[c] = "enabled" ->
                              [NoDelivery EXCEPT !.status = "pending", !.due = TRUE]
                       [] c \in ids /\ ch[c] = "disabled" -> [NoDelivery EXCEPT !.status = "skipped"]
                       [] OTHER -> NoDelivery
  <1>1. ASSUME NEW c \in Channels
        PROVE  d(c) \in DeliveryRows /\ d(c).status # "sending" /\ d(c).owner = Nobody
    BY DEF NoDelivery, DeliveryRows, Owners
  <1>2. r = [event |-> event, sched |-> window.to, from |-> window.from, linked |-> linked,
             delivery |-> [c \in Channels |-> d(c)]]
    BY DEF notification_create_run
  <1> HIDE DEF r, d
  <1>3. r \in RunRows /\ r.event = event /\ r.sched = window.to /\ r.from = window.from
    BY <1>1, <1>2 DEF RunRows
  <1>4. ASSUME NEW c \in Channels PROVE RowOK(r.delivery[c], NoTask, c, {})
    BY <1>1, <1>2, NoTaskType DEF RowOK
  <1> QED
    BY <1>3, <1>4 DEF r

LEMMA NoRunType == NoRun \in RunRows /\ NoRun.event = "none"
  BY DEF NoRun, NoDelivery, RunRows, DeliveryRows, Owners, Null

\* The slot of a run that is not there has no task, and nothing sent.
LEMMA FreeCell ==
  ASSUME NEW t \in Tasks, NEW x, NEW A, NEW c \in Channels,
         RowOK(NoRun.delivery[c], t, x, A)
  PROVE  x \notin A /\ t.stage = "none" /\ t.by = Nobody
  <1>1. NoRun.delivery[c].status = "none"
    BY DEF NoRun, NoDelivery
  <1> QED
    BY <1>1 DEF RowOK

-----------------------------------------------------------------------------
(* The other rows.                                                         *)

LEMMA NoAlertType == NoAlert \in AlertRows
  BY DEF NoAlert, AlertRows

LEMMA NoRuleType ==
  NoRule \in RuleRows /\ NoRule.kind = "none" /\ ~NoRule.enabled /\ NoRule.owner = Nobody
  BY DEF NoRule, RuleRows, Owners, Null

LEMMA IdleType == Idle \in Loops /\ Idle.pc = "idle"
  BY NoAlertType DEF Idle, Loops, Working, AlertEvents, Null

Verdicts == [row : AlertRows, event : AlertEvents \cup {"none"}]

LEMMA StayType ==
  ASSUME NEW a \in AlertRows, NEW event \in AlertEvents \cup {"none"}
  PROVE  Stay(a, event) \in Verdicts
  BY DEF Stay, Verdicts

\* What the alert automaton returns is a row and an event.
LEMMA EvaluateType ==
  ASSUME NEW a \in AlertRows, NEW seen \in Observations
  PROVE  evaluate_alert(a, seen) \in Verdicts
  <1>1. /\ [a EXCEPT !.recovery = 0] \in AlertRows
        /\ [a EXCEPT !.recovery = 0, !.notified = "recent"] \in AlertRows
        /\ [NoAlert EXCEPT !.notified = a.notified] \in AlertRows
        /\ [NoAlert EXCEPT !.notified = IF SendRecovery THEN "recent" ELSE a.notified] \in AlertRows
    BY DEF AlertRows, NoAlert
  <1>2. a.recovery + 1 \in Nat /\ a.breach + 1 \in Nat
    BY DEF AlertRows
  <1>3. /\ [a EXCEPT !.recovery = a.recovery + 1] \in AlertRows
        /\ [NoAlert EXCEPT !.state = "pending", !.breach = a.breach + 1] \in AlertRows
        /\ [state |-> "firing", breach |-> a.breach + 1, recovery |-> 0,
            notified |-> "recent"] \in AlertRows
    BY <1>2 DEF AlertRows, NoAlert
  <1>4. {"none", "alert_reminder", "alert_recovered", "alert_triggered"}
          \subseteq AlertEvents \cup {"none"}
    BY DEF AlertEvents
  <1>5. still_firing(a) \in Verdicts
    BY <1>1, <1>4, StayType DEF still_firing
  <1>6. recovering(a) \in Verdicts
    BY <1>1, <1>3, <1>4, StayType DEF recovering
  <1>7. breaching(a) \in Verdicts
    BY <1>3, <1>4, StayType DEF breaching
  <1>8. Stay(a, "none") \in Verdicts /\ Stay([NoAlert EXCEPT !.notified = a.notified], "none") \in Verdicts
    BY <1>1, <1>4, StayType
  <1>9. CASE seen \in {"none", "few", "partial"}
    BY <1>8, <1>9 DEF evaluate_alert
  <1>10. CASE seen = "breached"
    BY <1>5, <1>7, <1>10 DEF evaluate_alert
  <1>11. CASE seen = "fine"
    BY <1>6, <1>8, <1>11 DEF evaluate_alert
  <1> QED
    BY <1>9, <1>10, <1>11 DEF Observations

LEMMA ScheduleType ==
  ASSUME NEW t \in Int
  PROVE  next_occurrence(t) \in Int /\ previous_occurrence(t) \in Int
  <1>1. Period \in Int /\ Period > 0
    BY NotificationAssumption
  <1>2. t \div Period \in Int /\ (t + Period - 1) \div Period \in Int
    BY <1>1
  <1> QED
    BY <1>1, <1>2 DEF next_occurrence, previous_occurrence

\* An occurrence before t is earlier than t.
LEMMA PreviousIsEarlier ==
  ASSUME NEW t \in Int
  PROVE  previous_occurrence(t) < t
  <1>1. Period \in Int /\ Period > 0
    BY NotificationAssumption
  <1> DEFINE n == t + Period - 1
             q == n \div Period
  <1>2. n \in Int /\ q \in Int
    BY <1>1
  <1>3. Period * q <= n
    BY <1>1, <1>2
  <1>4. previous_occurrence(t) = Period * q - Period
    BY <1>1, <1>2 DEF previous_occurrence
  <1>5. Period * q \in Int
    BY <1>1, <1>2
  <1> QED
    BY <1>1, <1>3, <1>4, <1>5

\* A report ends at its boundary and starts no later than the end recorded
\* before it.
LEMMA WindowStarts ==
  ASSUME NEW last_end \in Int, NEW now \in Int
  PROVE  LET w == report_window(last_end, now)
         IN /\ w \in [from : Int, to : Int]
            /\ last_end # Null => w.from <= last_end
  <1> DEFINE b == previous_occurrence(now + 1)
             w == report_window(last_end, now)
  <1>1. b \in Int /\ previous_occurrence(b) \in Int /\ previous_occurrence(b) < b
    BY ScheduleType, PreviousIsEarlier
  <1>2. w = [from |-> IF last_end # Null /\ last_end < b THEN last_end ELSE previous_occurrence(b),
             to |-> b]
    BY DEF report_window
  <1> HIDE DEF b, w
  <1>3. w \in [from : Int, to : Int]
    BY <1>1, <1>2
  <1>4. ASSUME last_end # Null PROVE w.from <= last_end
    BY <1>1, <1>2, <1>4
  <1> QED
    BY <1>3, <1>4 DEF w

\* What a statement on a rule keeps.
RuleKept(r, u) == u.kind = r.kind /\ u.last_end = r.last_end

LEMMA UpdateRuleType ==
  ASSUME NEW r \in RuleRows, NEW enabled \in BOOLEAN, NEW ids \in SUBSET Channels, NEW now \in Int
  PROVE  LET u == notification_update_rule(r, enabled, ids, now)
         IN u \in RuleRows /\ RuleKept(r, u)
  <1>1. initial_next_run(r.kind, now) \in Int
    BY ScheduleType DEF initial_next_run
  <1> QED
    BY <1>1 DEF notification_update_rule, RuleRows, Owners, RuleKept

LEMMA ClaimRuleType ==
  ASSUME NEW r \in RuleRows, NEW i \in Instances
  PROVE  LET u == notification_claim_rule(r, i)
         IN u \in RuleRows /\ RuleKept(r, u)
  BY DEF notification_claim_rule, RuleRows, Owners, RuleKept

LEMMA ReleaseRuleType ==
  ASSUME NEW r \in RuleRows, NEW i \in Instances, NEW at \in Int
  PROVE  LET u == notification_release_rule(r, i, at)
         IN u \in RuleRows /\ RuleKept(r, u) /\ (r = NoRule => u = NoRule)
  <1>1. NoRule.owner # i
    BY NoRuleType, InstancesAssumption
  <1> QED
    BY <1>1 DEF notification_release_rule, RuleRows, Owners, RuleKept

\* Completing a rule records the end of its window or keeps the recorded one.
LEMMA CompleteRuleType ==
  ASSUME NEW r \in RuleRows, NEW i \in Instances, NEW next \in Int, NEW end \in Int
  PROVE  LET u == notification_complete_rule(r, i, next, end)
         IN /\ u \in RuleRows /\ u.kind = r.kind /\ (r = NoRule => u = NoRule)
            /\ u.last_end = r.last_end \/ (u.last_end = end /\ end # Null)
  <1>1. NoRule.owner # i
    BY NoRuleType, InstancesAssumption
  <1>2. CASE r.owner # i
    BY <1>2 DEF notification_complete_rule
  <1>3. CASE r.owner = i
    <2> DEFINE u == [r EXCEPT !.next = next, !.owner = Nobody, !.live = FALSE,
                              !.last_end = IF end = Null THEN r.last_end ELSE end]
    <2>1. notification_complete_rule(r, i, next, end) = u
      BY <1>3 DEF notification_complete_rule
    <2>2. u \in RuleRows /\ u.kind = r.kind /\ u.last_end = IF end = Null THEN r.last_end ELSE end
      BY DEF RuleRows, Owners
    <2> QED
      BY <1>1, <1>3, <2>1, <2>2
  <1> QED
    BY <1>2, <1>3

-----------------------------------------------------------------------------
(* How a step may change runs, tasks and what is sent.                     *)

\* The three tables have their types.
Typed == /\ runs \in [Slots -> RunRows]
         /\ task \in [Slots -> [Channels -> Tasks]]
         /\ sent \subseteq Slots \X Channels

\* No report appears: what is one was one before.
NoNewReport ==
  \A s \in Slots : runs'[s].event = "scheduled_report" =>
                     runs[s].event = "scheduled_report" /\ runs[s].sched = runs'[s].sched

\* What a step on the deliveries guarantees.
Sound == Typed' /\ Cells' /\ NoNewReport

LEMMA KeptTables ==
  ASSUME Typed, Cells, UNCHANGED <<runs, task, sent>>
  PROVE  Sound
  BY DEF Sound, Typed, Cells, NoNewReport

\* Only the row and the task of one cell change.
OneRow(s, c, d) ==
  \A s2 \in Slots : /\ runs'[s2].event = runs[s2].event /\ runs'[s2].sched = runs[s2].sched
                     /\ \A c2 \in Channels : runs'[s2].delivery[c2] =
                          IF s2 = s /\ c2 = c THEN d ELSE runs[s2].delivery[c2]

OneTask(s, c, t) ==
  \A s2 \in Slots, c2 \in Channels :
    task'[s2][c2] = IF s2 = s /\ c2 = c THEN t ELSE task[s2][c2]

LEMMA SetDeliveryStep ==
  ASSUME Typed, NEW s \in Slots, NEW c \in Channels, NEW d \in DeliveryRows, SetDelivery(s, c, d)
  PROVE  runs' \in [Slots -> RunRows] /\ OneRow(s, c, d)
  <1> DEFINE r == [runs[s] EXCEPT !.delivery[c] = d]
  <1>1. runs[s] \in RunRows
    BY DEF Typed
  <1>2. /\ r \in RunRows /\ r.event = runs[s].event /\ r.sched = runs[s].sched
        /\ \A c2 \in Channels : r.delivery[c2] = IF c2 = c THEN d ELSE runs[s].delivery[c2]
    BY <1>1 DEF RunRows
  <1>3. runs' = [runs EXCEPT ![s] = r]
    BY DEF SetDelivery
  <1> HIDE DEF r
  <1> QED
    BY <1>2, <1>3 DEF Typed, OneRow

LEMMA KeptRuns ==
  ASSUME Typed, NEW s, NEW c, UNCHANGED runs
  PROVE  runs' \in [Slots -> RunRows] /\ OneRow(s, c, runs[s].delivery[c])
  BY DEF Typed, OneRow

LEMMA SetTaskStep ==
  ASSUME Typed, NEW s \in Slots, NEW c \in Channels, NEW t \in Tasks, SetTask(s, c, t)
  PROVE  task' \in [Slots -> [Channels -> Tasks]] /\ OneTask(s, c, t)
  BY DEF Typed, SetTask, OneTask

LEMMA KeptTasks ==
  ASSUME Typed, NEW s, NEW c, UNCHANGED task
  PROVE  task' \in [Slots -> [Channels -> Tasks]] /\ OneTask(s, c, task[s][c])
  BY DEF Typed, OneTask

\* A step on one cell keeps the others.
LEMMA OneCell ==
  ASSUME Typed, Cells, NEW s \in Slots, NEW c \in Channels, NEW d, NEW t, NEW A,
         runs' \in [Slots -> RunRows], OneRow(s, c, d),
         task' \in [Slots -> [Channels -> Tasks]], OneTask(s, c, t),
         A \in {sent, sent \cup {<<s, c>>}, sent \ {<<s, c>>}}, sent' = A,
         RowOK(d, t, <<s, c>>, A)
  PROVE  Sound
  <1>1. sent' \subseteq Slots \X Channels
    BY DEF Typed
  <1>2. ASSUME NEW s2 \in Slots, NEW c2 \in Channels
        PROVE  RowOK(runs'[s2].delivery[c2], task'[s2][c2], <<s2, c2>>, sent')
    <2>1. CASE s2 = s /\ c2 = c
      BY <2>1 DEF OneRow, OneTask
    <2>2. CASE ~(s2 = s /\ c2 = c)
      <3>1. <<s2, c2>> \in sent' <=> <<s2, c2>> \in sent
        BY <2>2
      <3> QED
        BY <2>2, <3>1 DEF OneRow, OneTask, Cells, RowOK
    <2> QED
      BY <2>1, <2>2
  <1>3. NoNewReport
    BY DEF NoNewReport, OneRow
  <1> QED
    BY <1>1, <1>2, <1>3 DEF Sound, Typed, Cells

\* The cell of a step, before it.
LEMMA CellFacts ==
  ASSUME Typed, Cells, NEW s \in Slots, NEW c \in Channels
  PROVE  /\ runs[s].delivery[c] \in DeliveryRows /\ task[s][c] \in Tasks
         /\ RowOK(runs[s].delivery[c], task[s][c], <<s, c>>, sent)
  BY DEF Typed, Cells, RunRows

LEMMA ClaimDeliveryStep ==
  ASSUME Typed, Cells, NEW i \in Instances, NEW s \in Slots, NEW c \in Channels,
         ClaimDelivery(i, s, c)
  PROVE  Sound
  <1> DEFINE d == runs[s].delivery[c]
             e == notification_claim_delivery(d, i)
             t == IF channel[c] = "deleted" THEN NoTask ELSE Sender(i)
             A == IF channel[c] = "deleted" THEN sent ELSE sent \cup {<<s, c>>}
  <1>1. e \in DeliveryRows /\ t \in Tasks /\ RowOK(e, t, <<s, c>>, A)
    <2>1. /\ e \in DeliveryRows /\ RowOK(e, NoTask, <<s, c>>, sent)
          /\ RowOK(e, Sender(i), <<s, c>>, sent \cup {<<s, c>>})
      BY CellFacts, ClaimRow DEF ClaimDelivery
    <2> HIDE DEF e
    <2>2. CASE channel[c] = "deleted"
      BY <2>1, <2>2, NoTaskType
    <2>3. CASE channel[c] # "deleted"
      BY <2>1, <2>3, SenderType
    <2> QED
      BY <2>2, <2>3
  <1>2. SetDelivery(s, c, e) /\ SetTask(s, c, t) /\ sent' = A
    BY DEF ClaimDelivery, Sender
  <1>3. A \in {sent, sent \cup {<<s, c>>}, sent \ {<<s, c>>}}
    OBVIOUS
  <1> HIDE DEF e, t, A
  <1>4. runs' \in [Slots -> RunRows] /\ OneRow(s, c, e)
    BY <1>1, <1>2, SetDeliveryStep
  <1>5. task' \in [Slots -> [Channels -> Tasks]] /\ OneTask(s, c, t)
    BY <1>1, <1>2, SetTaskStep
  <1> QED
    BY <1>1, <1>2, <1>3, <1>4, <1>5, OneCell

LEMMA AnswerStep ==
  ASSUME Typed, Cells, NEW s \in Slots, NEW c \in Channels,
         NEW answer \in {"ok", "retryable", "permanent"}, Answer(s, c, answer)
  PROVE  Sound
  <1> DEFINE t == [task[s][c] EXCEPT !.stage = answer]
  <1>1. t \in Tasks /\ RowOK(runs[s].delivery[c], t, <<s, c>>,
                     IF answer = "ok" THEN sent ELSE sent \ {<<s, c>>})
    BY CellFacts, AnswerRow DEF Answer
  <1>2. SetTask(s, c, t) /\ UNCHANGED runs
    BY CellFacts DEF Answer, SetTask, Typed
  <1>3. sent' = IF answer = "ok" THEN sent ELSE sent \ {<<s, c>>}
    BY DEF Answer
  <1> HIDE DEF t
  <1> QED
    BY <1>1, <1>2, <1>3, KeptRuns, SetTaskStep, OneCell

LEMMA FinishDeliveryStep ==
  ASSUME Typed, Cells, NEW s \in Slots, NEW c \in Channels, FinishDelivery(s, c)
  PROVE  Sound
  <1> DEFINE d == runs[s].delivery[c]
             t == task[s][c]
             e == IF t.stage = "ok" THEN notification_finish_delivery_success(d, t.by)
                  ELSE notification_finish_delivery_failure(d, t.by, t.stage = "retryable")
  <1>1. e \in DeliveryRows /\ RowOK(e, NoTask, <<s, c>>, sent)
    BY CellFacts, FinishRow DEF FinishDelivery
  <1>2. SetDelivery(s, c, e) /\ SetTask(s, c, NoTask) /\ UNCHANGED sent
    BY DEF FinishDelivery, histories
  <1> HIDE DEF e
  <1> QED
    BY <1>1, <1>2, NoTaskType, SetDeliveryStep, SetTaskStep, OneCell

LEMMA UpdateFailsStep ==
  ASSUME Typed, Cells, NEW s \in Slots, NEW c \in Channels, UpdateFails(s, c)
  PROVE  Sound
  <1>1. RowOK(runs[s].delivery[c], NoTask, <<s, c>>, sent)
    BY CellFacts, DropRow
  <1>2. SetTask(s, c, NoTask) /\ UNCHANGED <<runs, sent>>
    BY DEF UpdateFails, histories
  <1> QED
    BY <1>1, <1>2, NoTaskType, KeptRuns, SetTaskStep, OneCell

LEMMA RetryDeliveryStep ==
  ASSUME Typed, Cells, NEW s \in Slots, NEW c \in Channels, retry_delivery(s, c)
  PROVE  Sound
  <1> DEFINE e == notification_retry_delivery(runs[s].delivery[c])
  <1>1. e \in DeliveryRows /\ RowOK(e, task[s][c], <<s, c>>, sent)
    BY CellFacts, RetryRow DEF retry_delivery
  <1>2. SetDelivery(s, c, e) /\ UNCHANGED <<task, sent>>
    BY DEF retry_delivery, histories
  <1> HIDE DEF e
  <1> QED
    BY <1>1, <1>2, SetDeliveryStep, KeptTasks, OneCell

LEMMA DeliveryDueStep ==
  ASSUME Typed, Cells, NEW s \in Slots, NEW c \in Channels, DeliveryDue(s, c)
  PROVE  Sound
  <1> DEFINE e == [runs[s].delivery[c] EXCEPT !.due = TRUE]
  <1>1. e \in DeliveryRows /\ RowOK(e, task[s][c], <<s, c>>, sent)
    BY CellFacts, DueRow
  <1>2. SetDelivery(s, c, e) /\ UNCHANGED <<task, sent>>
    BY CellFacts DEF DeliveryDue, SetDelivery, histories, Typed, RunRows
  <1> HIDE DEF e
  <1> QED
    BY <1>1, <1>2, SetDeliveryStep, KeptTasks, OneCell

\* Old runs go with their deliveries.
LEMMA CleanupHistoryStep ==
  ASSUME Typed, Cells, NEW s \in Slots, CleanupHistory(s)
  PROVE  Sound
  <1>1. Typed'
    BY NoRunType DEF CleanupHistory, Typed
  <1>2. ASSUME NEW s2 \in Slots, NEW c2 \in Channels
        PROVE  RowOK(runs'[s2].delivery[c2], task'[s2][c2], <<s2, c2>>, sent')
    <2>1. CASE s2 = s
      <3>1. runs'[s2].delivery[c2].status = "none" /\ runs'[s2].delivery[c2].owner = Nobody
        BY <2>1 DEF CleanupHistory, Typed, NoRun, NoDelivery
      <3>2. task'[s2][c2] = NoTask /\ <<s2, c2>> \notin sent'
        BY <2>1 DEF CleanupHistory
      <3> QED
        BY <3>1, <3>2, NoTaskType DEF RowOK
    <2>2. CASE s2 # s
      <3>1. /\ runs'[s2] = runs[s2] /\ task'[s2] = task[s2]
            /\ <<s2, c2>> \in sent' <=> <<s2, c2>> \in sent
        BY <2>2 DEF CleanupHistory, Typed
      <3> QED
        BY <3>1 DEF Cells, RowOK
    <2> QED
      BY <2>1, <2>2
  <1>3. NoNewReport
    BY NoRunType DEF NoNewReport, CleanupHistory, Typed
  <1> QED
    BY <1>1, <1>2, <1>3 DEF Sound, Cells

\* A run takes a free slot.
LEMMA NewRunStep ==
  ASSUME Typed, Cells, NEW s \in Slots, FreeSlot(s), NEW r \in RunRows,
         \A c \in Channels : RowOK(r.delivery[c], NoTask, c, {}),
         runs' = [runs EXCEPT ![s] = r], UNCHANGED <<task, sent>>
  PROVE  Typed' /\ Cells'
  <1>1. Typed'
    BY DEF Typed
  <1>2. ASSUME NEW s2 \in Slots, NEW c2 \in Channels
        PROVE  RowOK(runs'[s2].delivery[c2], task'[s2][c2], <<s2, c2>>, sent')
    <2>1. CASE s2 = s
      <3>1. runs[s] = NoRun
        BY DEF FreeSlot, Free
      <3>2. <<s, c2>> \notin sent /\ task[s][c2].stage = "none" /\ task[s][c2].by = Nobody
        BY <3>1, CellFacts, FreeCell
      <3>3. runs'[s2] = r
        BY <2>1 DEF Typed
      <3> QED
        BY <2>1, <3>2, <3>3, NoTaskType DEF RowOK
    <2>2. CASE s2 # s
      BY <2>2 DEF Cells, Typed
    <2> QED
      BY <2>1, <2>2
  <1> QED
    BY <1>1, <1>2 DEF Cells

LEMMA DeleteRuleStep ==
  ASSUME Typed, Cells, delete_rule
  PROVE  Sound
  <1>1. ASSUME NEW s \in Slots
        PROVE  /\ [runs[s] EXCEPT !.linked = FALSE] \in RunRows
               /\ runs'[s] = [runs[s] EXCEPT !.linked = FALSE]
               /\ runs'[s].event = runs[s].event /\ runs'[s].sched = runs[s].sched
               /\ runs'[s].delivery = runs[s].delivery
    BY DEF delete_rule, Typed, RunRows
  <1>2. runs' = [s \in Slots |-> [runs[s] EXCEPT !.linked = FALSE]] /\ UNCHANGED <<task, sent>>
    BY DEF delete_rule
  <1>3. Typed'
    BY <1>1, <1>2 DEF Typed
  <1>4. Cells' /\ NoNewReport
    BY <1>1, <1>2 DEF Cells, NoNewReport
  <1> QED
    BY <1>3, <1>4 DEF Sound

LEMMA CrashStep ==
  ASSUME Typed, Cells, NEW i \in Instances, Crash(i)
  PROVE  Sound
  <1> DEFINE r(s) == [runs[s] EXCEPT !.delivery =
                        [c \in Channels |-> RowAfter(runs[s].delivery[c], i)]]
             k(s) == [c \in Channels |-> TaskAfter(task[s][c], i)]
  <1>1. /\ runs' = [s \in Slots |-> r(s)] /\ task' = [s \in Slots |-> k(s)]
        /\ UNCHANGED sent
    BY DEF Crash, RowAfter, TaskAfter, histories
  <1>2. ASSUME NEW s \in Slots, NEW c \in Channels
        PROVE  /\ RowAfter(runs[s].delivery[c], i) \in DeliveryRows
               /\ TaskAfter(task[s][c], i) \in Tasks
               /\ RowOK(RowAfter(runs[s].delivery[c], i), TaskAfter(task[s][c], i),
                        <<s, c>>, sent)
    BY CellFacts, CrashRow
  <1>3. ASSUME NEW s \in Slots
        PROVE  /\ r(s) \in RunRows /\ k(s) \in [Channels -> Tasks]
               /\ r(s).event = runs[s].event /\ r(s).sched = runs[s].sched
               /\ r(s).delivery = [c \in Channels |-> RowAfter(runs[s].delivery[c], i)]
    BY <1>2 DEF Typed, RunRows
  <1>4. ASSUME NEW s \in Slots, NEW c \in Channels
        PROVE  k(s)[c] = TaskAfter(task[s][c], i)
    OBVIOUS
  <1> HIDE DEF r, k
  <1>5. Typed'
    BY <1>1, <1>3 DEF Typed
  <1>6. Cells'
    BY <1>1, <1>2, <1>3, <1>4 DEF Cells
  <1>7. NoNewReport
    BY <1>1, <1>3 DEF NoNewReport
  <1> QED
    BY <1>5, <1>6, <1>7 DEF Sound

-----------------------------------------------------------------------------
(* The rule, the loops and the reported time.                              *)

\* The other variables have their types.
Books == /\ clock \in Nat /\ covered \in Int /\ announced \in BOOLEAN
         /\ rule \in RuleRows /\ alert \in AlertRows
         /\ channel \in [Channels -> {"enabled", "disabled", "deleted"}]
         /\ inst \in [Instances -> Loops]

LEMMA TypeParts == TypeOK <=> Books /\ Typed
  BY DEF TypeOK, Books, Typed

\* What NoGap says of one step.
ReportStarts ==
  \A s \in Slots :
    (runs[s] # runs'[s] /\ Free(s) /\ runs'[s].event = "scheduled_report" /\ covered # Null)
      => runs'[s].from <= covered

\* What every step guarantees.
Good == Books' /\ Typed' /\ Cells' /\ (ReportInv => ReportInv' /\ ReportStarts)

\* A step that neither records the end of a window nor moves a loop forward.
QuietRule == /\ rule = NoRule => rule' = NoRule
             /\ rule' = NoRule \/ RuleKept(rule, rule')

QuietLoops == \A i \in Instances :
  \/ inst'[i].pc = "idle"
  \/ /\ inst'[i].pc = inst[i].pc /\ inst'[i].now = inst[i].now
     /\ inst'[i].last_end = inst[i].last_end

LEMMA QuietStep ==
  ASSUME Books', Sound, QuietRule, QuietLoops, UNCHANGED covered
  PROVE  Good
  <1> SUFFICES ASSUME ReportInv PROVE ReportInv' /\ ReportStarts
    BY DEF Good, Sound
  <1>1. /\ rule'.kind = "none" => rule' = NoRule
        /\ rule'.kind # "none" => rule'.last_end # Null /\ rule'.last_end <= covered'
        /\ rule'.kind # "none" => rule'.kind = rule.kind
    BY NoRuleType DEF QuietRule, RuleKept, ReportInv
  <1>2. \A s \in Slots : runs'[s].event = "scheduled_report" => runs'[s].sched <= covered'
    BY DEF Sound, NoNewReport, ReportInv
  <1>3. ASSUME NEW i \in Instances
        PROVE  /\ inst'[i].pc # "idle" => inst'[i].last_end # Null /\ inst'[i].last_end <= covered'
               /\ inst'[i].pc = "report" => rule'.kind # "threshold_alert"
               /\ inst'[i].pc \in {"evaluate", "store", "announce"} => rule'.kind # "scheduled_report"
               /\ (inst'[i].pc = "complete" /\ rule'.kind = "scheduled_report") =>
                    report_window(inst'[i].last_end, inst'[i].now).to <= covered'
    <2>1. CASE inst'[i].pc = "idle"
      BY <2>1
    <2>2. CASE inst'[i].pc # "idle"
      <3>1. /\ inst'[i].pc = inst[i].pc /\ inst'[i].now = inst[i].now
            /\ inst'[i].last_end = inst[i].last_end
        BY <2>2 DEF QuietLoops
      <3> QED
        BY <1>1, <2>2, <3>1 DEF ReportInv
    <2> QED
      BY <2>1, <2>2
  <1>4. ReportInv'
    BY <1>1, <1>2, <1>3 DEF ReportInv
  <1>5. ReportStarts
    BY NoRunType DEF ReportStarts, Sound, NoNewReport, Free
  <1> QED
    BY <1>4, <1>5

LEMMA KeptRule ==
  ASSUME UNCHANGED rule
  PROVE  QuietRule
  BY DEF QuietRule, RuleKept

LEMMA KeptLoops ==
  ASSUME UNCHANGED inst
  PROVE  QuietLoops
  BY DEF QuietLoops

\* A loop returns to its start.
LEMMA IdleLoop ==
  ASSUME Books, NEW i \in Instances, inst' = [inst EXCEPT ![i] = Idle]
  PROVE  inst' \in [Instances -> Loops] /\ QuietLoops
  BY IdleType DEF Books, QuietLoops

\* Steps that change nothing but the rows of deliveries.
LEMMA OnlyDeliveries ==
  ASSUME Books, Sound, UNCHANGED <<clock, rule, alert, channel, inst, covered, announced>>
  PROVE  Good
  <1>1. Books'
    BY DEF Books
  <1> QED
    BY <1>1, QuietStep, KeptRule, KeptLoops

-----------------------------------------------------------------------------
(* The loop over the rules, step by step.                                  *)

LEMMA ListDueRulesStep ==
  ASSUME Books, Typed, Cells, NEW i \in Instances, ListDueRules(i)
  PROVE  Good
  <1> DEFINE e == [Idle EXCEPT !.pc = "listed", !.now = clock, !.last_end = rule.last_end]
  <1>1. /\ e \in Loops /\ e.pc = "listed" /\ e.last_end = rule.last_end
    <2>1. clock \in Int /\ rule.last_end \in Int
      BY DEF Books, RuleRows
    <2> QED
      BY <2>1, IdleType DEF Loops
  <1>2. inst' = [inst EXCEPT ![i] = e] /\ UNCHANGED <<rule, runs, covered, task, sent>>
    BY DEF ListDueRules, histories
  <1> HIDE DEF e
  <1>3. Books'
    BY <1>1, <1>2 DEF Books, ListDueRules, histories
  <1>4. Sound
    BY <1>2, KeptTables
  <1>5. ASSUME ReportInv PROVE ReportInv'
    <2>1. rule.kind # "none"
      BY <1>5, NoRuleType DEF ReportInv, ListDueRules, due_rule
    <2>2. ASSUME NEW j \in Instances
          PROVE  inst'[j] = IF j = i THEN e ELSE inst[j]
      BY <1>2 DEF Books
    <2> QED
      BY <1>1, <1>2, <1>5, <2>1, <2>2 DEF ReportInv
  <1>6. ReportStarts
    BY <1>2 DEF ReportStarts
  <1> QED
    BY <1>3, <1>4, <1>5, <1>6 DEF Good, Sound

LEMMA ClaimRuleStep ==
  ASSUME Books, Typed, Cells, NEW i \in Instances, ClaimRule(i)
  PROVE  Good
  <1>0. Sound /\ UNCHANGED <<clock, alert, channel, runs, task, covered, announced, sent>>
    BY KeptTables DEF ClaimRule, histories
  <1>1. CASE ~due_rule(rule, inst[i].now)
    <2>1. inst' = [inst EXCEPT ![i] = Idle] /\ UNCHANGED rule
      BY <1>1 DEF ClaimRule
    <2>2. inst' \in [Instances -> Loops] /\ QuietLoops
      BY <2>1, IdleLoop
    <2>3. Books'
      BY <1>0, <2>1, <2>2 DEF Books
    <2> QED
      BY <1>0, <2>1, <2>2, <2>3, KeptRule, QuietStep
  <1>2. CASE due_rule(rule, inst[i].now)
    <2> DEFINE pc == IF rule.kind = "scheduled_report" THEN "report" ELSE "evaluate"
               e  == [inst[i] EXCEPT !.pc = pc]
    <2>1. inst' = [inst EXCEPT ![i] = e] /\ rule' = notification_claim_rule(rule, i)
      BY <1>2 DEF ClaimRule
    <2>2. e \in Loops /\ e.pc = pc /\ e.last_end = inst[i].last_end /\ e.now = inst[i].now
      BY DEF Books, Loops, Working
    <2>3. rule' \in RuleRows /\ RuleKept(rule, rule')
      BY <2>1, ClaimRuleType DEF Books
    <2> HIDE DEF e
    <2>4. Books'
      BY <1>0, <2>1, <2>2, <2>3 DEF Books
    <2>5. ASSUME ReportInv PROVE ReportInv'
      <3>1. rule.kind # "none"
        BY <1>2, <2>5, NoRuleType DEF ReportInv, due_rule
      <3>2. ASSUME NEW j \in Instances
            PROVE  inst'[j] = IF j = i THEN e ELSE inst[j]
        BY <2>1 DEF Books
      <3>3. inst[i].pc = "listed"
        BY DEF ClaimRule
      <3> QED
        BY <1>0, <2>2, <2>3, <2>5, <3>1, <3>2, <3>3 DEF ReportInv, RuleKept
    <2>6. ReportStarts
      BY <1>0 DEF ReportStarts
    <2> QED
      BY <1>0, <2>4, <2>5, <2>6 DEF Good, Sound
  <1> QED
    BY <1>1, <1>2

\* process_rule ends with an error: the lease is given up, the window is not
\* recorded.
LEMMA ReleaseRuleStep ==
  ASSUME Books, Typed, Cells, NEW i \in Instances, ReleaseRule(i)
  PROVE  Good
  <1>1. inst[i].now + 1 \in Int
    BY DEF Books, Loops
  <1>2. rule' \in RuleRows /\ QuietRule
    BY <1>1, ReleaseRuleType DEF ReleaseRule, Books, QuietRule
  <1>3. inst' \in [Instances -> Loops] /\ QuietLoops
    BY IdleLoop DEF ReleaseRule
  <1>4. Sound /\ UNCHANGED covered
    BY KeptTables DEF ReleaseRule, histories
  <1>5. Books'
    BY <1>2, <1>3 DEF Books, ReleaseRule, histories
  <1> QED
    BY <1>2, <1>3, <1>4, <1>5, QuietStep

LEMMA EvaluateAlertStep ==
  ASSUME Books, Typed, Cells, NEW i \in Instances, NEW seen \in Observations,
         EvaluateAlert(i, seen)
  PROVE  Good
  <1> DEFINE next == evaluate_alert(alert, seen)
             e == [inst[i] EXCEPT !.pc = "store", !.alert = next.row, !.event = next.event,
                                  !.seen = (seen = "breached")]
  <1>1. next.row \in AlertRows /\ next.event \in AlertEvents \cup {"none"}
    BY EvaluateType DEF Books, Verdicts
  <1>2. inst' = [inst EXCEPT ![i] = e]
    BY DEF EvaluateAlert, Books
  <1> HIDE DEF next
  <1>3. e \in Loops /\ e.pc = "store" /\ e.last_end = inst[i].last_end
    BY <1>1 DEF Books, Loops, Working
  <1> HIDE DEF e
  <1>4. /\ Sound /\ inst[i].pc = "evaluate"
        /\ UNCHANGED <<clock, rule, alert, channel, runs, covered, announced>>
    BY KeptTables DEF EvaluateAlert, histories
  <1>5. Books'
    BY <1>2, <1>3, <1>4 DEF Books
  <1>6. ASSUME ReportInv PROVE ReportInv'
    <2>1. ASSUME NEW j \in Instances PROVE inst'[j] = IF j = i THEN e ELSE inst[j]
      BY <1>2 DEF Books
    <2> QED
      BY <1>3, <1>4, <1>6, <2>1 DEF ReportInv
  <1>7. ReportStarts
    BY <1>4 DEF ReportStarts
  <1> QED
    BY <1>4, <1>5, <1>6, <1>7 DEF Good, Sound

LEMMA StoreAlertStep ==
  ASSUME Books, Typed, Cells, NEW i \in Instances, StoreAlert(i)
  PROVE  Good
  <1> DEFINE pc == IF inst[i].event = "none" THEN "complete" ELSE "announce"
             e == [inst[i] EXCEPT !.alert = NoAlert, !.seen = FALSE, !.pc = pc]
  <1>1. inst' = [inst EXCEPT ![i] = e] /\ alert' = inst[i].alert
    BY DEF StoreAlert, Books
  <1>2. e \in Loops /\ e.pc = pc /\ e.last_end = inst[i].last_end
    BY NoAlertType DEF Books, Loops, Working
  <1> HIDE DEF e
  <1>3. Sound /\ UNCHANGED <<clock, rule, channel, runs, covered>> /\ inst[i].pc = "store"
    BY KeptTables DEF StoreAlert
  <1>4. announced' \in BOOLEAN /\ alert' \in AlertRows
    BY <1>1 DEF StoreAlert, Books, Loops
  <1>5. Books'
    BY <1>1, <1>2, <1>3, <1>4 DEF Books
  <1>6. ASSUME ReportInv PROVE ReportInv'
    <2>1. ASSUME NEW j \in Instances PROVE inst'[j] = IF j = i THEN e ELSE inst[j]
      BY <1>1 DEF Books
    <2> QED
      BY <1>2, <1>3, <1>6, <2>1 DEF ReportInv
  <1>7. ReportStarts
    BY <1>3 DEF ReportStarts
  <1> QED
    BY <1>3, <1>5, <1>6, <1>7 DEF Good, Sound

LEMMA CreateAlertRunStep ==
  ASSUME Books, Typed, Cells, NEW i \in Instances, CreateAlertRun(i)
  PROVE  Good
  <1> DEFINE w == [from |-> Null, to |-> Null]
             r == notification_create_run(inst[i].event, w, TRUE, rule.channels, channel)
             e == [inst[i] EXCEPT !.pc = "complete", !.event = "none"]
  <1>1. PICK s \in Slots : FreeSlot(s) /\ runs' = [runs EXCEPT ![s] = r]
    BY DEF CreateAlertRun
  <1>2. w \in [from : Int, to : Int] /\ inst[i].event \in AlertEvents \cup {"none"}
        /\ rule.channels \in SUBSET Channels
    BY DEF Null, Books, Loops, RuleRows
  <1>3. /\ r \in RunRows /\ r.event = inst[i].event
        /\ \A c \in Channels : RowOK(r.delivery[c], NoTask, c, {})
    <2>1. PICK linked \in BOOLEAN : linked
      OBVIOUS
    <2>2. r = notification_create_run(inst[i].event, w, linked, rule.channels, channel)
      BY <2>1 DEF notification_create_run
    <2>3. inst[i].event \in AlertEvents \cup {"none", "test", "manual_report", "scheduled_report"}
      BY <1>2
    <2>4. channel \in [Channels -> {"enabled", "disabled", "deleted"}]
      BY DEF Books
    <2> HIDE DEF r, w
    <2> QED
      BY <1>2, <2>2, <2>3, <2>4, NewRun, SMTT(30)
  <1>4. inst' = [inst EXCEPT ![i] = e]
    BY DEF CreateAlertRun, Books
  <1>5. e \in Loops /\ e.pc = "complete" /\ e.last_end = inst[i].last_end
    BY DEF Books, Loops, Working
  <1> HIDE DEF r, e, w
  <1>6. UNCHANGED <<clock, rule, alert, channel, task, covered, sent>> /\ inst[i].pc = "announce"
    BY DEF CreateAlertRun
  <1>7. Typed' /\ Cells'
    BY <1>1, <1>3, <1>6, NewRunStep
  <1>8. announced' \in BOOLEAN
    BY DEF CreateAlertRun, Books
  <1>9. Books'
    BY <1>4, <1>5, <1>6, <1>8 DEF Books
  <1>10. NoNewReport
    BY <1>1, <1>2, <1>3 DEF NoNewReport, Typed, AlertEvents
  <1>11. ASSUME ReportInv PROVE ReportInv'
    <2>1. ASSUME NEW j \in Instances PROVE inst'[j] = IF j = i THEN e ELSE inst[j]
      BY <1>4 DEF Books
    <2> QED
      BY <1>5, <1>6, <1>10, <1>11, <2>1 DEF ReportInv, NoNewReport
  <1>12. ReportStarts
    BY <1>10, NoRunType DEF ReportStarts, NoNewReport, Free
  <1> QED
    BY <1>7, <1>9, <1>11, <1>12 DEF Good

\* A new report starts within the reported time and extends it to its end; one
\* that is there already lies in it.
LEMMA CreateReportStep ==
  ASSUME Books, Typed, Cells, NEW i \in Instances, CreateReport(i)
  PROVE  Good
  <1> DEFINE w == report_window(inst[i].last_end, inst[i].now)
             r == notification_create_run("scheduled_report", w, TRUE, rule.channels, channel)
             e == [inst[i] EXCEPT !.pc = "complete"]
  <1>1. w \in [from : Int, to : Int] /\ (inst[i].last_end # Null => w.from <= inst[i].last_end)
    BY WindowStarts DEF Books, Loops
  <1>2. inst' = [inst EXCEPT ![i] = e]
    BY DEF CreateReport
  <1>3. e \in Loops /\ e.pc = "complete" /\ e.last_end = inst[i].last_end /\ e.now = inst[i].now
    BY DEF Books, Loops, Working
  <1>4. ASSUME NEW j \in Instances PROVE inst'[j] = IF j = i THEN e ELSE inst[j]
    BY <1>2 DEF Books
  <1> HIDE DEF e
  <1>5. UNCHANGED <<clock, rule, alert, channel, task, announced, sent>> /\ inst[i].pc = "report"
    BY DEF CreateReport
  <1>6. CASE \E s \in Slots : same_event(runs[s], "scheduled_report", w.to)
    <2>1. UNCHANGED <<runs, covered>>
      BY <1>6 DEF CreateReport
    <2>2. Books'
      BY <1>2, <1>3, <1>5, <2>1 DEF Books
    <2>3. Sound
      BY <1>5, <2>1, KeptTables
    <2>4. ASSUME ReportInv PROVE ReportInv'
      <3>1. w.to <= covered
        BY <1>6, <2>4 DEF same_event, ReportInv
      <3>2. report_window(e.last_end, e.now).to <= covered
        BY <1>3, <3>1
      <3> QED
        BY <1>3, <1>4, <1>5, <2>1, <2>4, <3>2 DEF ReportInv
    <2>5. ReportStarts
      BY <2>1 DEF ReportStarts
    <2> QED
      BY <2>2, <2>3, <2>4, <2>5 DEF Good, Sound
  <1>7. CASE ~\E s \in Slots : same_event(runs[s], "scheduled_report", w.to)
    <2>1. PICK s \in Slots : /\ FreeSlot(s) /\ runs' = [runs EXCEPT ![s] = r]
                             /\ covered' = IF w.to > covered THEN w.to ELSE covered
      BY <1>7 DEF CreateReport
    <2>2. /\ r \in RunRows /\ r.event = "scheduled_report" /\ r.sched = w.to /\ r.from = w.from
          /\ \A c \in Channels : RowOK(r.delivery[c], NoTask, c, {})
      <3>1. PICK linked \in BOOLEAN : linked
        OBVIOUS
      <3>2. r = notification_create_run("scheduled_report", w, linked, rule.channels, channel)
        BY <3>1 DEF notification_create_run
      <3>3. rule.channels \in SUBSET Channels
        BY DEF Books, RuleRows
      <3> HIDE DEF r, w
      <3> QED
        BY <1>1, <3>2, <3>3, NewRun DEF Books
    <2> HIDE DEF r
    <2>3. covered' \in Int /\ covered <= covered' /\ w.to <= covered'
      BY <1>1, <2>1 DEF Books
    <2>4. Books'
      BY <1>2, <1>3, <1>5, <2>3 DEF Books
    <2>5. Typed' /\ Cells'
      BY <1>5, <2>1, <2>2, NewRunStep
    <2>6. ASSUME NEW t \in Slots PROVE runs'[t] = IF t = s THEN r ELSE runs[t]
      BY <2>1 DEF Typed
    <2>7. ASSUME ReportInv PROVE ReportInv'
      <3>1. report_window(e.last_end, e.now).to <= covered'
        BY <1>3, <2>3
      <3>2. \A t \in Slots : runs'[t].event = "scheduled_report" => runs'[t].sched <= covered'
        BY <2>2, <2>3, <2>6, <2>7 DEF ReportInv, Typed, RunRows, Books
      <3>3. rule.kind # "none" => rule.last_end <= covered'
        BY <2>3, <2>7 DEF ReportInv, Books, RuleRows
      <3>4. ASSUME NEW j \in Instances
            PROVE  /\ inst'[j].pc # "idle" =>
                        inst'[j].last_end # Null /\ inst'[j].last_end <= covered'
                   /\ inst'[j].pc = "report" => rule'.kind # "threshold_alert"
                   /\ inst'[j].pc \in {"evaluate", "store", "announce"} =>
                        rule'.kind # "scheduled_report"
                   /\ (inst'[j].pc = "complete" /\ rule'.kind = "scheduled_report") =>
                        report_window(inst'[j].last_end, inst'[j].now).to <= covered'
        <4>1. inst[j].last_end \in Int /\ inst[j].now \in Int
          BY DEF Books, Loops
        <4>2. report_window(inst[j].last_end, inst[j].now).to \in Int
          BY <4>1, WindowStarts
        <4> QED
          BY <1>3, <1>4, <1>5, <2>3, <2>7, <3>1, <4>1, <4>2 DEF ReportInv, Books
      <3> QED
        BY <1>5, <2>7, <3>2, <3>3, <3>4 DEF ReportInv
    <2>8. ASSUME ReportInv PROVE ReportStarts
      <3>1. r.from <= covered
        <4>1. inst[i].last_end # Null /\ inst[i].last_end <= covered
          BY <1>5, <2>8 DEF ReportInv
        <4>2. inst[i].last_end \in Int /\ w.from \in Int /\ covered \in Int
          BY <1>1 DEF Books, Loops
        <4> HIDE DEF w
        <4> QED
          BY <1>1, <2>2, <4>1, <4>2
      <3> QED
        BY <2>6, <3>1 DEF ReportStarts
    <2> QED
      BY <2>4, <2>5, <2>7, <2>8 DEF Good
  <1> QED
    BY <1>6, <1>7

LEMMA CompleteRuleStep ==
  ASSUME Books, Typed, Cells, NEW i \in Instances, CompleteRule(i)
  PROVE  Good
  <1> DEFINE end  == IF rule.kind = "scheduled_report"
                     THEN report_window(inst[i].last_end, inst[i].now).to ELSE Null
             next == IF rule.kind = "scheduled_report"
                     THEN next_occurrence(inst[i].now) ELSE inst[i].now + 1
  <1>1. rule' = notification_complete_rule(rule, i, next, end)
    BY DEF CompleteRule
  <1>2. end \in Int /\ next \in Int
    <2>1. inst[i].last_end \in Int /\ inst[i].now \in Int /\ inst[i].now + 1 \in Int
      BY DEF Books, Loops
    <2>2. report_window(inst[i].last_end, inst[i].now).to \in Int
      BY <2>1, WindowStarts
    <2>3. next_occurrence(inst[i].now) \in Int
      BY <2>1, ScheduleType
    <2> QED
      BY <2>1, <2>2, <2>3 DEF Null
  <1>3. end # Null => rule.kind = "scheduled_report"
                       /\ end = report_window(inst[i].last_end, inst[i].now).to
    OBVIOUS
  <1> HIDE DEF end, next
  <1>4. /\ rule' \in RuleRows /\ rule'.kind = rule.kind /\ (rule = NoRule => rule' = NoRule)
        /\ rule'.last_end = rule.last_end \/ (rule'.last_end = end /\ end # Null)
    BY <1>1, <1>2, CompleteRuleType DEF Books
  <1>5. inst' \in [Instances -> Loops] /\ QuietLoops /\ inst' = [inst EXCEPT ![i] = Idle]
    BY IdleLoop DEF CompleteRule
  <1>6. Sound /\ UNCHANGED <<runs, covered>> /\ inst[i].pc = "complete"
    BY KeptTables DEF CompleteRule, histories
  <1>7. Books'
    BY <1>4, <1>5 DEF Books, CompleteRule, histories
  <1>8. ASSUME ReportInv PROVE ReportInv'
    <2>1. rule.kind # "none" => rule'.last_end # Null /\ rule'.last_end <= covered
      BY <1>3, <1>4, <1>6, <1>8 DEF ReportInv
    <2>2. ASSUME NEW j \in Instances PROVE inst'[j] = IF j = i THEN Idle ELSE inst[j]
      BY <1>5 DEF Books
    <2> QED
      BY <1>4, <1>6, <1>8, <2>1, <2>2, IdleType DEF ReportInv
  <1>9. ReportStarts
    BY <1>6 DEF ReportStarts
  <1> QED
    BY <1>6, <1>7, <1>8, <1>9 DEF Good, Sound

-----------------------------------------------------------------------------
(* The administrator, time and failures.                                   *)

LEMMA EnqueueStep ==
  ASSUME Books, Typed, Cells, NEW event \in {"test", "manual_report"}, NEW linked \in BOOLEAN,
         NEW ids \in SUBSET Channels, Enqueue(event, linked, ids)
  PROVE  Good
  <1> DEFINE w == [from |-> Null, to |-> Null]
             r == notification_create_run(event, w, linked, ids, channel)
  <1>1. PICK s \in Slots : FreeSlot(s) /\ runs' = [runs EXCEPT ![s] = r]
    BY DEF Enqueue
  <1>2. w \in [from : Int, to : Int]
    BY DEF Null
  <1> HIDE DEF w
  <1>3. /\ r \in RunRows /\ r.event = event
        /\ \A c \in Channels : RowOK(r.delivery[c], NoTask, c, {})
    <2>1. event \in AlertEvents \cup {"none", "test", "manual_report", "scheduled_report"}
      OBVIOUS
    <2>2. channel \in [Channels -> {"enabled", "disabled", "deleted"}]
      BY DEF Books
    <2> QED
      BY <1>2, <2>1, <2>2, NewRun, SMTT(30)
  <1> HIDE DEF r
  <1>4. UNCHANGED <<clock, rule, alert, channel, inst, task, covered, announced, sent>>
    BY DEF Enqueue, histories
  <1>5. Typed' /\ Cells'
    BY <1>1, <1>3, <1>4, NewRunStep
  <1>6. NoNewReport
    BY <1>1, <1>3 DEF NoNewReport, Typed
  <1> QED
    BY <1>4, <1>5, <1>6, OnlyDeliveries DEF Sound

LEMMA UpdateRuleStep ==
  ASSUME Books, Typed, Cells, NEW enabled \in BOOLEAN, NEW ids \in SUBSET Channels,
         update_rule(enabled, ids)
  PROVE  Good
  <1>1. rule' \in RuleRows /\ QuietRule
    BY UpdateRuleType DEF update_rule, Books, QuietRule
  <1>2. /\ UNCHANGED <<clock, alert, channel, inst, covered, announced>>
        /\ Sound
    BY KeptTables DEF update_rule, histories
  <1>3. Books'
    BY <1>1, <1>2 DEF Books
  <1> QED
    BY <1>1, <1>2, <1>3, KeptLoops, QuietStep

LEMMA DeleteRuleGood ==
  ASSUME Books, Typed, Cells, delete_rule
  PROVE  Good
  <1>1. rule' = NoRule /\ alert' = NoAlert /\ announced' = FALSE
        /\ UNCHANGED <<clock, channel, inst, covered>>
    BY DEF delete_rule
  <1>2. Books' /\ QuietRule
    BY <1>1, NoRuleType, NoAlertType DEF Books, QuietRule
  <1> QED
    BY <1>1, <1>2, DeleteRuleStep, KeptLoops, QuietStep

\* A channel takes one of its three states.
LEMMA ChannelStep ==
  ASSUME Books, Typed, Cells, NEW c \in Channels, NEW value \in {"enabled", "disabled", "deleted"},
         channel' = [channel EXCEPT ![c] = value],
         UNCHANGED <<clock, rule, alert, runs, inst, task, histories>>
  PROVE  Good
  <1>1. Sound
    BY KeptTables DEF histories
  <1>2. Books'
    BY DEF Books, histories
  <1> QED
    BY <1>1, <1>2, KeptRule, KeptLoops, QuietStep DEF histories

LEMMA TickStep ==
  ASSUME Books, Typed, Cells, Tick
  PROVE  Good
  <1>1. Sound /\ UNCHANGED <<rule, inst, covered>>
    BY KeptTables DEF Tick, histories
  <1>2. Books'
    BY DEF Books, Tick, histories
  <1> QED
    BY <1>1, <1>2, KeptRule, KeptLoops, QuietStep

\* Steps of time that change one field of the rule.
LEMMA RuleFieldStep ==
  ASSUME Books, Typed, Cells, rule' \in RuleRows, QuietRule,
         UNCHANGED <<clock, alert, channel, runs, inst, task, histories>>
  PROVE  Good
  <1>1. Sound
    BY KeptTables DEF histories
  <1>2. Books'
    BY DEF Books, histories
  <1> QED
    BY <1>1, <1>2, KeptLoops, QuietStep DEF histories

LEMMA RuleDueStep ==
  ASSUME Books, Typed, Cells, RuleDue
  PROVE  Good
  <1>1. clock \in Int /\ rule \in RuleRows /\ rule # NoRule
    BY NoRuleType DEF RuleDue, Books
  <1>2. rule' \in RuleRows /\ RuleKept(rule, rule')
    BY <1>1 DEF RuleDue, RuleRows, RuleKept
  <1> QED
    BY <1>1, <1>2, RuleFieldStep DEF RuleDue, QuietRule, bounds

LEMMA LeaseExpiresStep ==
  ASSUME Books, Typed, Cells, LeaseExpires
  PROVE  Good
  <1>1. rule \in RuleRows /\ rule # NoRule
    BY DEF LeaseExpires, Books, NoRule
  <1>2. rule' \in RuleRows /\ RuleKept(rule, rule')
    BY <1>1 DEF LeaseExpires, RuleRows, RuleKept
  <1> QED
    BY <1>1, <1>2, RuleFieldStep DEF LeaseExpires, QuietRule

LEMMA CooldownOverStep ==
  ASSUME Books, Typed, Cells, CooldownOver
  PROVE  Good
  <1> DEFINE e(i) == IF inst[i].pc = "store" /\ inst[i].event = "none" /\ inst[i].alert.notified = "recent"
                     THEN [inst[i] EXCEPT !.alert.notified = "old"] ELSE inst[i]
  <1>1. ASSUME NEW i \in Instances
        PROVE  /\ e(i) \in Loops /\ e(i).pc = inst[i].pc /\ e(i).now = inst[i].now
               /\ e(i).last_end = inst[i].last_end
    <2>1. inst[i] \in Loops
      BY DEF Books
    <2>2. [inst[i].alert EXCEPT !.notified = "old"] \in AlertRows
      BY <2>1 DEF Loops, AlertRows
    <2> QED
      BY <2>1, <2>2 DEF Loops
  <1>2. inst' = [i \in Instances |-> e(i)] /\ alert' = [alert EXCEPT !.notified = "old"]
    BY DEF CooldownOver
  <1> HIDE DEF e
  <1>3. Sound /\ UNCHANGED <<clock, rule, channel, covered, announced>>
    BY KeptTables DEF CooldownOver, histories
  <1>4. alert' \in AlertRows
    BY <1>2 DEF Books, AlertRows
  <1>5. Books' /\ QuietLoops
    BY <1>1, <1>2, <1>3, <1>4 DEF Books, QuietLoops
  <1> QED
    BY <1>3, <1>5, KeptRule, QuietStep

LEMMA CrashGood ==
  ASSUME Books, Typed, Cells, NEW i \in Instances, Crash(i)
  PROVE  Good
  <1>1. rule' = [rule EXCEPT !.owner = Disowned(rule.owner, i)] /\ inst' = [inst EXCEPT ![i] = Idle]
        /\ UNCHANGED <<clock, alert, channel, covered, announced>>
    BY DEF Crash, histories
  <1>2. Disowned(rule.owner, i) \in Owners
    BY DEF Disowned, Owners, Books, RuleRows
  <1>3. rule' \in RuleRows /\ RuleKept(rule, rule')
    BY <1>1, <1>2 DEF Books, RuleRows, RuleKept
  <1>4. ASSUME rule = NoRule PROVE rule' = NoRule
    <2>1. Disowned(rule.owner, i) = Nobody
      BY <1>4, NoRuleType, InstancesAssumption DEF Disowned
    <2> QED
      BY <1>1, <1>4, <2>1 DEF NoRule
  <1>5. inst' \in [Instances -> Loops] /\ QuietLoops
    BY <1>1, IdleLoop
  <1>6. Books' /\ QuietRule
    BY <1>1, <1>3, <1>4, <1>5 DEF Books, QuietRule
  <1> QED
    BY <1>1, <1>5, <1>6, CrashStep, QuietStep

-----------------------------------------------------------------------------
(* The theorems.                                                           *)

LEMMA InitGood == Init => Books /\ Typed /\ Cells
  <1> SUFFICES ASSUME Init PROVE Books /\ Typed /\ Cells
    OBVIOUS
  <1>1. PICK kind \in Kinds :
          rule = [notification_insert_rule(kind, Channels, Period - 1) EXCEPT !.last_end = FirstEnd]
    BY DEF Init
  <1>2. Period - 1 \in Nat /\ FirstEnd \in Int
    BY NotificationAssumption, RunsAssumption DEF Null
  <1>3. initial_next_run(kind, Period - 1) \in Int
    BY <1>2, ScheduleType DEF initial_next_run
  <1>4. rule \in RuleRows
    BY <1>1, <1>2, <1>3, NoRuleType DEF notification_insert_rule, RuleRows
  <1>5. Books
    BY <1>2, <1>4, NoAlertType, IdleType DEF Init, Books
  <1>6. Typed
    BY NoRunType, NoTaskType DEF Init, Typed
  <1>7. ASSUME NEW s \in Slots, NEW c \in Channels
        PROVE  RowOK(runs[s].delivery[c], task[s][c], <<s, c>>, sent)
    <2>1. /\ runs[s].delivery[c].status = "none" /\ runs[s].delivery[c].owner = Nobody
          /\ task[s][c] = NoTask /\ sent = {}
      BY DEF Init, NoRun, NoDelivery
    <2> QED
      BY <2>1, NoTaskType DEF RowOK
  <1> QED
    BY <1>5, <1>6, <1>7 DEF Cells

LEMMA InitReports ==
  ASSUME Init, FirstEnd # Null
  PROVE  ReportInv
  <1>1. PICK kind \in Kinds :
          rule = [notification_insert_rule(kind, Channels, Period - 1) EXCEPT !.last_end = FirstEnd]
    BY DEF Init
  <1>2. rule.kind = kind /\ rule.last_end = FirstEnd /\ kind # "none"
    BY <1>1, RunsAssumption DEF notification_insert_rule, NoRule
  <1>3. FirstEnd <= FirstEnd
    BY RunsAssumption DEF Null
  <1>4. covered = FirstEnd /\ \A s \in Slots : runs[s].event # "scheduled_report"
    BY NoRunType DEF Init
  <1>5. \A i \in Instances : inst[i].pc = "idle"
    BY IdleType DEF Init
  <1> QED
    BY <1>2, <1>3, <1>4, <1>5 DEF ReportInv

\* Every step of the runtime, the administrator, time and failures.
LEMMA NextGood ==
  ASSUME Books, Typed, Cells, [Next]_vars
  PROVE  Good
  <1>1. ASSUME NEW i \in Instances, Rules(i) PROVE Good
    <2>1. CASE RuleIsGone(i)
      BY <2>1, ReleaseRuleStep DEF RuleIsGone
    <2> QED
      BY <1>1, <2>1, ListDueRulesStep, ClaimRuleStep, EvaluateAlertStep, StoreAlertStep,
         CreateReportStep, CreateAlertRunStep, CompleteRuleStep DEF Rules
  <1>2. ASSUME NEW i \in Instances, ProcessFails(i) PROVE Good
    BY <1>2, ReleaseRuleStep DEF ProcessFails
  <1>3. ASSUME NEW s \in Slots, NEW c \in Channels, Delivery(s, c) \/ UpdateFails(s, c) PROVE Good
    <2>1. ASSUME NEW i \in Instances, ClaimDelivery(i, s, c) PROVE Good
      BY <2>1, ClaimDeliveryStep, OnlyDeliveries DEF ClaimDelivery, histories
    <2>2. ASSUME NEW answer \in {"ok", "retryable", "permanent"}, Answer(s, c, answer) PROVE Good
      BY <2>2, AnswerStep, OnlyDeliveries DEF Answer
    <2>3. CASE FinishDelivery(s, c)
      BY <2>3, FinishDeliveryStep, OnlyDeliveries DEF FinishDelivery, histories
    <2>4. CASE UpdateFails(s, c)
      BY <2>4, UpdateFailsStep, OnlyDeliveries DEF UpdateFails, histories
    <2> QED
      BY <1>3, <2>1, <2>2, <2>3, <2>4 DEF Delivery
  <1>4. ASSUME NEW s \in Slots, CleanupHistory(s) PROVE Good
    BY <1>4, CleanupHistoryStep, OnlyDeliveries DEF CleanupHistory
  <1>5. CASE Admin
    <2>1. ASSUME NEW c \in Channels, NEW value \in {"enabled", "disabled"}, update_channel(c, value)
          PROVE  Good
      BY <2>1, ChannelStep DEF update_channel
    <2>2. ASSUME NEW c \in Channels, delete_channel(c) PROVE Good
      <3>1. PICK value \in {"enabled", "disabled", "deleted"} : value = "deleted"
        OBVIOUS
      <3>2. channel' = [channel EXCEPT ![c] = value]
        BY <2>2, <3>1 DEF delete_channel
      <3> QED
        BY <2>2, <3>2, ChannelStep DEF delete_channel
    <2>3. ASSUME NEW c \in Channels, test_channel(c) PROVE Good
      <3>1. PICK linked \in BOOLEAN : ~linked
        OBVIOUS
      <3>2. Enqueue("test", linked, {c})
        BY <2>3, <3>1 DEF test_channel, Enqueue, notification_create_run
      <3> QED
        BY <2>3, <3>2, EnqueueStep
    <2>4. CASE run_rule
      <3>1. PICK linked \in BOOLEAN : linked
        OBVIOUS
      <3>2. Enqueue("manual_report", linked, rule.channels) /\ rule.channels \in SUBSET Channels
        BY <2>4, <3>1 DEF run_rule, Enqueue, notification_create_run, Books, RuleRows
      <3> QED
        BY <3>2, EnqueueStep
    <2>5. ASSUME NEW s \in Slots, NEW c \in Channels, retry_delivery(s, c) PROVE Good
      BY <2>5, RetryDeliveryStep, OnlyDeliveries DEF retry_delivery, histories
    <2> QED
      BY <1>5, <2>1, <2>2, <2>3, <2>4, <2>5, UpdateRuleStep, DeleteRuleGood DEF Admin
  <1>6. CASE Time
    <2>1. ASSUME NEW s \in Slots, NEW c \in Channels, DeliveryDue(s, c) PROVE Good
      BY <2>1, DeliveryDueStep, OnlyDeliveries DEF DeliveryDue, histories
    <2> QED
      BY <1>6, <2>1, TickStep, RuleDueStep, CooldownOverStep, LeaseExpiresStep DEF Time
  <1>7. CASE UNCHANGED vars
    BY <1>7, KeptTables, OnlyDeliveries DEF vars
  <1> QED
    BY <1>1, <1>2, <1>3, <1>4, <1>5, <1>6, <1>7, CrashGood DEF Next

\* A task begins to send in a claim, and no other step.
LEMMA OnlyClaimsSend ==
  ASSUME Typed, Cells, [Next]_vars, NEW s \in Slots, NEW c \in Channels,
         task[s][c] # task'[s][c], task'[s][c].stage = "sending"
  PROVE  \E i \in Instances : ClaimDelivery(i, s, c)
  <1>1. ASSUME NEW i \in Instances, NEW s2 \in Slots, NEW c2 \in Channels, ClaimDelivery(i, s2, c2)
        PROVE  s2 = s /\ c2 = c
    <2>1. PICK t \in Tasks : SetTask(s2, c2, t)
      BY <1>1, NoTaskType, SenderType DEF ClaimDelivery, Sender
    <2> QED
      BY <2>1, SetTaskStep DEF OneTask
  <1>2. ASSUME NEW s2 \in Slots, NEW c2 \in Channels,
               NEW answer \in {"ok", "retryable", "permanent"}, Answer(s2, c2, answer)
        PROVE  FALSE
    <2> DEFINE t == [task[s2][c2] EXCEPT !.stage = answer]
    <2>1. t \in Tasks /\ t.stage = answer
      BY CellFacts DEF Tasks
    <2>2. SetTask(s2, c2, t)
      BY <1>2 DEF SetTask, Typed, Answer
    <2> HIDE DEF t
    <2> QED
      BY <1>2, <2>1, <2>2, SetTaskStep DEF OneTask
  <1>3. ASSUME NEW s2 \in Slots, NEW c2 \in Channels, SetTask(s2, c2, NoTask)
        PROVE  FALSE
    BY <1>3, NoTaskType, SetTaskStep DEF OneTask
  <1>4. ASSUME NEW i \in Instances, Crash(i)
        PROVE  FALSE
    <2>1. task'[s][c] = IF task[s][c].by = i THEN NoTask ELSE task[s][c]
      BY <1>4 DEF Crash
    <2> QED
      BY <2>1, NoTaskType
  <1>5. ASSUME UNCHANGED task
        PROVE  FALSE
    BY <1>5
  <1>6. ASSUME NEW i \in Instances, Rules(i) \/ ProcessFails(i)
        PROVE  FALSE
    BY <1>5, <1>6 DEF Rules, ProcessFails, ListDueRules, ClaimRule, RuleIsGone, ReleaseRule,
       EvaluateAlert, StoreAlert, CreateReport, CreateAlertRun, CompleteRule
  <1>7. ASSUME Admin \/ Time \/ \E s2 \in Slots : CleanupHistory(s2)
        PROVE  FALSE
    BY <1>5, <1>7 DEF Admin, Time, CleanupHistory, update_rule, delete_rule, update_channel,
       delete_channel, Enqueue, test_channel, run_rule, retry_delivery, Tick, RuleDue,
       CooldownOver, LeaseExpires, DeliveryDue
  <1>8. CASE UNCHANGED vars
    BY <1>5, <1>8 DEF vars
  <1>9. ASSUME NEW s2 \in Slots, NEW c2 \in Channels, FinishDelivery(s2, c2) \/ UpdateFails(s2, c2)
        PROVE  FALSE
    BY <1>3, <1>9 DEF FinishDelivery, UpdateFails
  <1>10. ASSUME NEW s2 \in Slots, NEW c2 \in Channels, Delivery(s2, c2)
         PROVE  \E i \in Instances : ClaimDelivery(i, s, c)
    BY <1>1, <1>2, <1>9, <1>10 DEF Delivery
  <1> QED
    BY <1>4, <1>6, <1>7, <1>8, <1>9, <1>10 DEF Next

\* A claim takes what was not sent since the last error.
LEMMA NextSends ==
  ASSUME Typed, Cells, [Next]_vars, NEW s \in Slots, NEW c \in Channels,
         task[s][c] # task'[s][c], task'[s][c].stage = "sending"
  PROVE  <<s, c>> \notin sent
  <1>1. PICK i \in Instances : ClaimDelivery(i, s, c)
    BY OnlyClaimsSend
  <1> QED
    BY <1>1, CellFacts, ClaimRow DEF ClaimDelivery

\* The rows, loops and tasks keep their types, and every delivery, its task and
\* what is sent agree, under any interleaving of the instances of the gateway,
\* their crashes and the administrator.
THEOREM DeliveryInvariant == Spec => [](TypeOK /\ DeliveryInv)
  <1>1. Init => TypeOK /\ DeliveryInv
    BY InitGood, TypeParts, CellsAreDeliveryInv
  <1>2. TypeOK /\ DeliveryInv /\ [Next]_vars => (TypeOK /\ DeliveryInv)'
    <2> SUFFICES ASSUME TypeOK, DeliveryInv, [Next]_vars PROVE (TypeOK /\ DeliveryInv)'
      OBVIOUS
    <2>1. Good
      BY TypeParts, CellsAreDeliveryInv, NextGood
    <2>2. Books' /\ Typed' /\ Cells'
      BY <2>1 DEF Good
    <2>3. TypeOK'
      BY <2>2 DEF TypeOK, Books, Typed
    <2>4. DeliveryInv'
      BY <2>2 DEF DeliveryInv, Cells, RowOK
    <2> QED
      BY <2>3, <2>4
  <1> QED
    BY <1>1, <1>2, PTL DEF Spec

\* The variables of the notification runtime keep their types.
THEOREM TypeCorrect == Spec => []TypeOK
  BY DeliveryInvariant, PTL

\* notification_claim_delivery: each sending of a delivery after the first
\* follows an error that the sender of the one before saw, whatever dies, fails,
\* expires or is retried.
THEOREM ResentAfterErrorHolds == Spec => ResentAfterError
  <1> DEFINE Resend == \A s \in Slots, c \in Channels :
               (task[s][c] # task'[s][c] /\ task'[s][c].stage = "sending")
                 => <<s, c>> \notin sent
  <1>1. TypeOK /\ DeliveryInv /\ [Next]_vars => Resend
    BY TypeParts, CellsAreDeliveryInv, NextSends
  <1>2. Resend => [Resend]_vars
    OBVIOUS
  <1> QED
    BY <1>1, <1>2, DeliveryInvariant, PTL DEF Spec, ResentAfterError

\* For a rule that has recorded the end of a window, what NoGap rests on.
THEOREM ReportInvariant ==
  ASSUME FirstEnd # Null
  PROVE  Spec => []ReportInv
  <1>1. Init => ReportInv
    BY InitReports
  <1>2. TypeOK /\ DeliveryInv /\ ReportInv /\ [Next]_vars => ReportInv'
    BY TypeParts, CellsAreDeliveryInv, NextGood DEF Good
  <1> QED
    BY <1>1, <1>2, DeliveryInvariant, PTL DEF Spec

\* report_window and notification_complete_rule: once a rule has recorded the
\* end of a window, a new report starts no later than the last one ended, for
\* any schedule and any crashes, failures, expired leases and changes.
THEOREM NoGapHolds ==
  ASSUME FirstEnd # Null
  PROVE  Spec => NoGap
  <1>1. TypeOK /\ DeliveryInv /\ ReportInv /\ [Next]_vars => ReportStarts
    BY TypeParts, CellsAreDeliveryInv, NextGood DEF Good
  <1>2. ReportStarts => [\A s \in Slots :
          (runs[s] # runs'[s] /\ Free(s) /\ runs'[s].event = "scheduled_report" /\ covered # Null)
            => runs'[s].from <= covered]_vars
    BY DEF ReportStarts
  <1> QED
    BY <1>1, <1>2, DeliveryInvariant, ReportInvariant, PTL DEF Spec, NoGap
=============================================================================

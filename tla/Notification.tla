---------------------------- MODULE Notification ----------------------------
(***************************************************************************)
(* The notification runtime of backend/src/notification: instances of the  *)
(* gateway on one database, each with the loop of runtime.rs that works on *)
(* due rules and the tasks that send deliveries, and the administrator of  *)
(* notification/admin.rs.                                                  *)
(*                                                                         *)
(* There is one rule, a scheduled report or a threshold alert.  Every      *)
(* database statement is a step, and so is what a sender hears of a        *)
(* sending; when a receiver takes it in, before that or after, is open.    *)
(* `clock` counts the minutes a report's schedule is about; for an alert   *)
(* time is what it is compared for: RuleDue, CooldownOver, LeaseExpires    *)
(* and DeliveryDue say that some minutes have passed.  An instance that    *)
(* dies starts again under a new instance_id.                              *)
(***************************************************************************)
EXTENDS NotificationStore

CONSTANTS
  Instances,   \* gateways
  Kinds,       \* the kinds of rule considered
  FirstEnd,    \* last_window_end_ms at the start: Null for a rule that never reported
  MaxClock,    \* bound on the clock
  Slots,       \* bound on the rows of notification_runs at a time
  MaxFaults,   \* bound on crashes and failed queries
  MaxChanges   \* bound on the administrator's changes, for each kind of rule and none

\* An instance_id is a fresh UUID, neither empty nor one of a process that died.
ASSUME InstancesAssumption == Nobody \notin Instances /\ Gone \notin Instances

ASSUME RunsAssumption ==
  /\ Kinds \subseteq {"scheduled_report", "threshold_alert"}
  /\ FirstEnd \in Nat \cup {Null}

VARIABLES
  clock, rule, alert,
  channel,     \* [Channels -> "enabled" | "disabled" | "deleted"]
  runs,        \* [Slots -> run or NoRun]
  inst,        \* [Instances -> where process_rules is]
  task,        \* [Slots -> [Channels -> the task of deliver_one]]
  faults, changes,
  covered,     \* history: end of the reported time, Null before the first report
  announced,   \* history: the firing alert has produced a run
  sent         \* history: deliveries sent, and no error seen of the sending since

vars == <<clock, rule, alert, channel, runs, inst, task, faults, changes, covered,
          announced, sent>>

Idle == [pc |-> "idle", now |-> Null, last_end |-> Null, alert |-> NoAlert, event |-> "none",
         seen |-> FALSE]

NoTask == [by |-> Nobody, stage |-> "none"]

Init ==
  /\ clock = Period - 1
  /\ \E kind \in Kinds :
       rule = [notification_insert_rule(kind, Channels, Period - 1) EXCEPT !.last_end = FirstEnd]
  /\ alert = NoAlert
  /\ channel = [c \in Channels |-> "enabled"]
  /\ runs = [s \in Slots |-> NoRun]
  /\ inst = [i \in Instances |-> Idle]
  /\ task = [s \in Slots |-> [c \in Channels |-> NoTask]]
  /\ faults = 0 /\ changes = 0
  /\ covered = FirstEnd /\ announced = FALSE /\ sent = {}

histories == <<covered, announced, sent>>
bounds    == <<faults, changes>>

Free(s) == runs[s] = NoRun

\* The id of a new run; which slot it takes makes no difference.
FreeSlot(s) == Free(s) /\ \A t \in Slots : Free(t) => s <= t

-----------------------------------------------------------------------------
(* process_rules and process_rule.                                         *)

\* The due rule is read; the time of the reading is used to the end.
ListDueRules(i) ==
  /\ inst[i] = Idle
  /\ due_rule(rule, clock)
  /\ inst' = [inst EXCEPT ![i] = [Idle EXCEPT !.pc = "listed", !.now = clock,
                                              !.last_end = rule.last_end]]
  /\ UNCHANGED <<clock, rule, alert, channel, runs, task, bounds, histories>>

ClaimRule(i) ==
  /\ inst[i].pc = "listed"
  /\ IF due_rule(rule, inst[i].now)
     THEN /\ rule' = notification_claim_rule(rule, i)
          /\ inst' = [inst EXCEPT ![i].pc =
                        IF rule.kind = "scheduled_report" THEN "report" ELSE "evaluate"]
     ELSE /\ inst' = [inst EXCEPT ![i] = Idle]
          /\ UNCHANGED rule
  /\ UNCHANGED <<clock, alert, channel, runs, task, bounds, histories>>

Working == {"report", "evaluate", "store", "announce", "complete"}

\* process_rule returns an error: a query failed, or the rule is gone and its
\* foreign key with it.
ReleaseRule(i) ==
  /\ inst[i].pc \in Working
  /\ rule' = notification_release_rule(rule, i, inst[i].now + 1)
  /\ inst' = [inst EXCEPT ![i] = Idle]
  /\ UNCHANGED <<clock, alert, channel, runs, task, changes, histories>>

ProcessFails(i) == faults < MaxFaults /\ faults' = faults + 1 /\ ReleaseRule(i)

RuleIsGone(i) ==
  /\ rule = NoRule
  /\ inst[i].pc # "complete"
  /\ ReleaseRule(i)
  /\ UNCHANGED faults

\* notification_get_alert_state, and what the payload says about the metric.
EvaluateAlert(i, seen) ==
  /\ inst[i].pc = "evaluate"
  /\ LET next == evaluate_alert(alert, seen)
     IN inst' = [inst EXCEPT ![i].pc = "store", ![i].alert = next.row, ![i].event = next.event,
                             ![i].seen = (seen = "breached")]
  /\ UNCHANGED <<clock, rule, alert, channel, runs, task, bounds, histories>>

\* notification_upsert_alert_state: whoever holds the lease by now.
StoreAlert(i) ==
  /\ inst[i].pc = "store" /\ rule # NoRule
  /\ alert' = inst[i].alert
  /\ inst' = [inst EXCEPT ![i].alert = NoAlert, ![i].seen = FALSE,
                          ![i].pc = IF inst[i].event = "none" THEN "complete" ELSE "announce"]
  /\ announced' = (announced /\ alert.state = "firing" /\ alert'.state = "firing")
  /\ UNCHANGED <<clock, rule, channel, runs, task, bounds, covered, sent>>

\* notification_create_run for a report or an alert's event.
CreateReport(i) ==
  LET window == report_window(inst[i].last_end, inst[i].now)
      event  == "scheduled_report"
  IN /\ inst[i].pc = "report" /\ rule # NoRule
     /\ IF \E s \in Slots : same_event(runs[s], event, window.to)
        THEN UNCHANGED <<runs, covered>>
        ELSE \E s \in Slots :
               /\ FreeSlot(s)
               /\ runs' = [runs EXCEPT ![s] =
                     notification_create_run(event, window, TRUE, rule.channels, channel)]
               /\ covered' = IF window.to > covered THEN window.to ELSE covered
     /\ inst' = [inst EXCEPT ![i].pc = "complete"]
     /\ UNCHANGED <<clock, rule, alert, channel, task, bounds, announced, sent>>

CreateAlertRun(i) ==
  /\ inst[i].pc = "announce" /\ rule # NoRule
  /\ \E s \in Slots :
       /\ FreeSlot(s)
       /\ runs' = [runs EXCEPT ![s] = notification_create_run(inst[i].event,
              [from |-> Null, to |-> Null], TRUE, rule.channels, channel)]
  /\ announced' = (announced \/ inst[i].event \in {"alert_triggered", "alert_reminder"})
  /\ inst' = [inst EXCEPT ![i].pc = "complete", ![i].event = "none"]
  /\ UNCHANGED <<clock, rule, alert, channel, task, bounds, covered, sent>>

CompleteRule(i) ==
  /\ inst[i].pc = "complete"
  /\ rule' = IF rule.kind = "scheduled_report"
             THEN notification_complete_rule(rule, i, next_occurrence(inst[i].now),
                     report_window(inst[i].last_end, inst[i].now).to)
             ELSE notification_complete_rule(rule, i, inst[i].now + 1, Null)
  /\ inst' = [inst EXCEPT ![i] = Idle]
  /\ UNCHANGED <<clock, alert, channel, runs, task, bounds, histories>>

-----------------------------------------------------------------------------
(* dispatch_deliveries and deliver_one.                                    *)

SetTask(s, c, t) == task' = [task EXCEPT ![s][c] = t]

SetDelivery(s, c, d) == runs' = [runs EXCEPT ![s].delivery[c] = d]

\* The claim takes the row; the work item is read through its channel.  If
\* that is gone the task ends there and the row stays as it is.
ClaimDelivery(i, s, c) ==
  LET d == runs[s].delivery[c]
  IN /\ claimable_delivery(d)
     /\ SetDelivery(s, c, notification_claim_delivery(d, i))
     /\ SetTask(s, c, IF channel[c] = "deleted" THEN NoTask
                      ELSE [NoTask EXCEPT !.by = i, !.stage = "sending"])
     /\ sent' = IF channel[c] = "deleted" THEN sent ELSE sent \cup {<<s, c>>}
     /\ UNCHANGED <<clock, rule, alert, channel, inst, bounds, covered, announced>>

\* What send_delivery returns.  The receiver has accepted what succeeded; after
\* an error it may have done so, or do so yet: webhook_timeout, smtp_timeout and
\* a lost connection are retryable, and the request was on its way.  Settings
\* that cannot be decrypted are a permanent error without any request.
Answer(s, c, answer) ==
  /\ task[s][c].stage = "sending"
  /\ task' = [task EXCEPT ![s][c].stage = answer]
  /\ sent' = IF answer = "ok" THEN sent ELSE sent \ {<<s, c>>}
  /\ UNCHANGED <<clock, rule, alert, channel, runs, inst, bounds, covered, announced>>

FinishDelivery(s, c) ==
  LET t == task[s][c]
      d == runs[s].delivery[c]
  IN /\ t.stage \in {"ok", "retryable", "permanent"}
     /\ SetDelivery(s, c, IF t.stage = "ok" THEN notification_finish_delivery_success(d, t.by)
                          ELSE notification_finish_delivery_failure(d, t.by, t.stage = "retryable"))
     /\ SetTask(s, c, NoTask)
     /\ UNCHANGED <<clock, rule, alert, channel, inst, bounds, histories>>

\* A task ends without recording its result: an update fails.
UpdateFails(s, c) ==
  /\ task[s][c] # NoTask
  /\ faults < MaxFaults /\ faults' = faults + 1
  /\ SetTask(s, c, NoTask)
  /\ UNCHANGED <<clock, rule, alert, channel, runs, inst, changes, histories>>

\* notification_cleanup_history: a run of HISTORY_RETENTION_MS ago and its
\* deliveries; no task is as old as that.
CleanupHistory(s) ==
  /\ ~Free(s) /\ \A c \in Channels : task[s][c] = NoTask
  /\ runs' = [runs EXCEPT ![s] = NoRun]
  /\ sent' = {a \in sent : a[1] # s}
  /\ UNCHANGED <<clock, rule, alert, channel, inst, task, bounds, covered, announced>>

-----------------------------------------------------------------------------
(* The administrator.                                                      *)

Change ==
  /\ changes < MaxChanges[rule.kind]
  /\ changes' = changes + 1

update_rule(enabled, ids) ==
  /\ Change /\ rule # NoRule
  /\ ids # {} /\ \A c \in ids : channel[c] # "deleted"
  /\ rule' = notification_update_rule(rule, enabled, ids, clock)
  /\ UNCHANGED <<clock, alert, channel, runs, inst, task, faults, histories>>

\* The alert state goes with the rule, its runs stay without it.
delete_rule ==
  /\ Change /\ rule # NoRule
  /\ rule' = NoRule /\ alert' = NoAlert /\ announced' = FALSE
  /\ runs' = [s \in Slots |-> [runs[s] EXCEPT !.linked = FALSE]]
  /\ UNCHANGED <<clock, channel, inst, task, faults, covered, sent>>

update_channel(c, value) ==
  /\ Change /\ channel[c] # "deleted"
  /\ channel' = [channel EXCEPT ![c] = value]
  /\ UNCHANGED <<clock, rule, alert, runs, inst, task, faults, histories>>

\* Refused while a rule refers to the channel.
delete_channel(c) ==
  /\ Change /\ channel[c] # "deleted" /\ c \notin rule.channels
  /\ channel' = [channel EXCEPT ![c] = "deleted"]
  /\ UNCHANGED <<clock, rule, alert, runs, inst, task, faults, histories>>

Enqueue(event, linked, ids) ==
  /\ Change
  /\ \E s \in Slots :
       /\ FreeSlot(s)
       /\ runs' = [runs EXCEPT ![s] = notification_create_run(event,
              [from |-> Null, to |-> Null], linked, ids, channel)]
  /\ UNCHANGED <<clock, rule, alert, channel, inst, task, faults, histories>>

test_channel(c) == channel[c] # "deleted" /\ Enqueue("test", FALSE, {c})

run_rule == rule.kind = "scheduled_report" /\ Enqueue("manual_report", TRUE, rule.channels)

retry_delivery(s, c) ==
  /\ Change
  /\ runs[s].delivery[c].status = "failed"
  /\ SetDelivery(s, c, notification_retry_delivery(runs[s].delivery[c]))
  /\ UNCHANGED <<clock, rule, alert, channel, inst, task, faults, histories>>

-----------------------------------------------------------------------------
(* Time and failures.                                                      *)

Tick ==
  /\ rule.kind = "scheduled_report" /\ clock < MaxClock
  /\ clock' = clock + 1
  /\ UNCHANGED <<rule, alert, channel, runs, inst, task, bounds, histories>>

\* next_run_at_ms of an alert arrives.
RuleDue ==
  /\ rule.kind = "threshold_alert" /\ rule.next > clock
  /\ rule' = [rule EXCEPT !.next = clock]
  /\ UNCHANGED <<clock, alert, channel, runs, inst, task, bounds, histories>>

\* The row's time is also the one of a row an evaluation has left as it was.
CooldownOver ==
  /\ alert.notified = "recent"
  /\ alert' = [alert EXCEPT !.notified = "old"]
  /\ inst' = [i \in Instances |->
       IF inst[i].pc = "store" /\ inst[i].event = "none" /\ inst[i].alert.notified = "recent"
       THEN [inst[i] EXCEPT !.alert.notified = "old"] ELSE inst[i]]
  /\ UNCHANGED <<clock, rule, channel, runs, task, bounds, histories>>

\* The lease of an instance that died, or (a fault) of one that is slow.
LeaseExpires ==
  /\ rule.live
  /\ IF rule.owner = Gone THEN UNCHANGED faults
     ELSE faults < MaxFaults /\ faults' = faults + 1
  /\ rule' = [rule EXCEPT !.live = FALSE]
  /\ UNCHANGED <<clock, alert, channel, runs, inst, task, changes, histories>>

DeliveryDue(s, c) ==
  /\ runs[s].delivery[c].status = "pending" /\ ~runs[s].delivery[c].due
  /\ runs' = [runs EXCEPT ![s].delivery[c].due = TRUE]
  /\ UNCHANGED <<clock, rule, alert, channel, inst, task, bounds, histories>>

Disowned(owner, i) == IF owner = i THEN Gone ELSE owner

Crash(i) ==
  /\ faults < MaxFaults /\ faults' = faults + 1
  /\ rule' = [rule EXCEPT !.owner = Disowned(@, i)]
  /\ inst' = [inst EXCEPT ![i] = Idle]
  /\ runs' = [s \in Slots |-> [runs[s] EXCEPT !.delivery =
                [c \in Channels |-> [runs[s].delivery[c] EXCEPT !.owner = Disowned(@, i)]]]]
  /\ task' = [s \in Slots |-> [c \in Channels |->
                IF task[s][c].by = i THEN NoTask ELSE task[s][c]]]
  /\ UNCHANGED <<clock, alert, channel, changes, histories>>

Rules(i) ==
  \/ ListDueRules(i) \/ ClaimRule(i) \/ RuleIsGone(i)
  \/ \E seen \in Observations : EvaluateAlert(i, seen)
  \/ StoreAlert(i) \/ CreateReport(i) \/ CreateAlertRun(i) \/ CompleteRule(i)

Delivery(s, c) ==
  \/ \E i \in Instances : ClaimDelivery(i, s, c)
  \/ \E answer \in {"ok", "retryable", "permanent"} : Answer(s, c, answer)
  \/ FinishDelivery(s, c)

Admin ==
  \/ \E enabled \in BOOLEAN, ids \in SUBSET Channels : update_rule(enabled, ids)
  \/ delete_rule \/ run_rule
  \/ \E c \in Channels :
       \/ \E value \in {"enabled", "disabled"} : update_channel(c, value)
       \/ delete_channel(c) \/ test_channel(c)
       \/ \E s \in Slots : retry_delivery(s, c)

Time ==
  \/ Tick \/ RuleDue \/ CooldownOver \/ LeaseExpires
  \/ \E s \in Slots, c \in Channels : DeliveryDue(s, c)

\* A lease of one that has died ends.
AbandonedLeaseExpires == rule.owner = Gone /\ LeaseExpires

Next ==
  \/ \E i \in Instances : Rules(i) \/ ProcessFails(i) \/ Crash(i)
  \/ \E s \in Slots, c \in Channels : Delivery(s, c) \/ UpdateFails(s, c)
  \/ \E s \in Slots : CleanupHistory(s)
  \/ Admin \/ Time

\* A loop that runs every POLL_INTERVAL, tasks with a timeout, and time.
\* Crashes, failures and the administrator are not fair.
Fairness ==
  /\ \A i \in Instances : WF_vars(Rules(i))
  /\ \A s \in Slots, c \in Channels : WF_vars(Delivery(s, c))
  /\ \A s \in Slots : WF_vars(CleanupHistory(s))
  /\ \A s \in Slots, c \in Channels : WF_vars(DeliveryDue(s, c))
  /\ WF_vars(Tick) /\ WF_vars(RuleDue) /\ WF_vars(CooldownOver) /\ WF_vars(AbandonedLeaseExpires)

Spec == Init /\ [][Next]_vars /\ Fairness

-----------------------------------------------------------------------------
(* Properties.                                                             *)

Owners == Instances \cup {Nobody, Gone}

RuleRows == [kind : Kinds \cup {"none"}, enabled : BOOLEAN, channels : SUBSET Channels, next : Int,
             last_end : Int, owner : Owners, live : BOOLEAN]

AlertRows == [state : {"normal", "pending", "firing"}, breach : Nat, recovery : Nat,
              notified : {"never", "recent", "old"}]

DeliveryRows == [status : {"none", "pending", "sending", "succeeded", "failed", "skipped"},
                 attempts : Nat, due : BOOLEAN, owner : Owners]

AlertEvents == {"alert_triggered", "alert_reminder", "alert_recovered"}

RunRows == [event : AlertEvents \cup {"none", "test", "manual_report", "scheduled_report"},
            sched : Int, from : Int, linked : BOOLEAN, delivery : [Channels -> DeliveryRows]]

Loops == [pc : Working \cup {"idle", "listed"}, now : Int, last_end : Int, alert : AlertRows,
          event : AlertEvents \cup {"none"}, seen : BOOLEAN]

Tasks == [by : Instances \cup {Nobody},
          stage : {"none", "sending", "ok", "retryable", "permanent"}]

\* The rows, the loops and the tasks stay in their types.
TypeOK ==
  /\ clock \in Nat /\ covered \in Int
  /\ rule \in RuleRows
  /\ alert \in AlertRows
  /\ channel \in [Channels -> {"enabled", "disabled", "deleted"}]
  /\ runs \in [Slots -> RunRows]
  /\ inst \in [Instances -> Loops]
  /\ task \in [Slots -> [Channels -> Tasks]]
  /\ announced \in BOOLEAN
  /\ sent \subseteq Slots \X Channels

\* A task has a sender exactly while it is at work, and then its row is being
\* sent and leased to that sender.  A row that was sent without an error being
\* seen of it is being sent or has succeeded.
DeliveryInv ==
  \A s \in Slots, c \in Channels :
    LET d == runs[s].delivery[c]
        t == task[s][c]
    IN /\ (d.status = "sending") <=> (d.owner # Nobody)
       /\ (t.stage = "none") <=> (t.by = Nobody)
       /\ t.stage # "none" => d.owner = t.by
       /\ <<s, c>> \in sent =>
            d.status \in {"sending", "succeeded"} /\ t.stage \in {"none", "sending", "ok"}

\* What the reports of a rule that has recorded the end of a window rest on:
\* the recorded end, and the copy of it a loop works with, lie in the reported
\* time, and a report is recorded as complete only when its run is there.
ReportInv ==
  /\ rule.kind = "none" => rule = NoRule
  /\ rule.kind # "none" => rule.last_end # Null /\ rule.last_end <= covered
  /\ \A s \in Slots : runs[s].event = "scheduled_report" => runs[s].sched <= covered
  /\ \A i \in Instances :
       /\ inst[i].pc # "idle" => inst[i].last_end # Null /\ inst[i].last_end <= covered
       /\ inst[i].pc = "report" => rule.kind # "threshold_alert"
       /\ inst[i].pc \in {"evaluate", "store", "announce"} => rule.kind # "scheduled_report"
       /\ (inst[i].pc = "complete" /\ rule.kind = "scheduled_report") =>
            report_window(inst[i].last_end, inst[i].now).to <= covered

\* docs/notifications.md: the windows of a report are adjacent, and the time a
\* process was down is part of one report.  For a rule that has recorded the
\* end of a window, the windows leave no time out, whatever crashes, failures,
\* expired leases and changes of the rule come between them: a new report
\* starts no later than the last one ended (report_window,
\* notification_complete_rule).
NoGap ==
  [][\A s \in Slots :
       (runs[s] # runs'[s] /\ Free(s) /\ runs'[s].event = "scheduled_report" /\ covered # Null)
         => runs'[s].from <= covered]_vars

\* Delivery is at least once: an error, such as a timeout, may follow what the
\* receiver sent, and the next attempt repeats its Message-ID and
\* Idempotency-Key (docs/notifications.md).  But nothing else repeats it: each
\* sending after the first follows an error that the sender of the one before
\* saw.  A sender that dies, an update that fails, or a second instance does not
\* make a delivery go out again, although its receiver may not have it
\* (notification_claim_delivery takes pending rows only).
ResentAfterError ==
  [][\A s \in Slots, c \in Channels :
       (task[s][c] # task'[s][c] /\ task'[s][c].stage = "sending")
         => <<s, c>> \notin sent]_vars

Unannounced == alert.state = "firing" /\ ~announced /\ rule.enabled

\* process_rule stores the new alert state before it creates the run that
\* announces it.  If it dies in between, the reminder announces the alert, as
\* long as the metric is seen above the threshold.
AlertAnnounced ==
  ([]<>(\E i \in Instances : inst[i].pc = "store" /\ inst[i].seen))
    => (Unannounced ~> ~Unannounced)
=============================================================================

-------------------------- MODULE NotificationStore --------------------------
(***************************************************************************)
(* The rows of backend/src/notification: what a statement of store.rs      *)
(* makes of a row, the schedule of mod.rs and the alert automaton of       *)
(* runtime.rs.  Each operator on rows is one statement, for SQLite and     *)
(* PostgreSQL alike.                                                       *)
(*                                                                         *)
(* A cron expression is the multiples of Period.  Leases keep their owner  *)
(* and whether lease_until_ms lies ahead.  Payloads, names, encrypted      *)
(* settings, diagnostics and the status of a run as a whole, which only    *)
(* the console shows, are left out.                                        *)
(***************************************************************************)
EXTENDS Integers, FiniteSets

CONSTANTS
  Channels,      \* notification_channels.id
  Period,        \* distance of two occurrences of the schedule
  TriggerAfter, RecoverAfter, SendRecovery,  \* of ThresholdAlertConfig
  MaxAttempts    \* attempts after which a delivery is not retried by itself

ASSUME NotificationAssumption ==
  /\ Period \in Nat \ {0}
  /\ TriggerAfter \in Nat \ {0} /\ RecoverAfter \in Nat \ {0} /\ MaxAttempts \in Nat \ {0}
  /\ SendRecovery \in BOOLEAN

Null   == -1
Nobody == "nobody"     \* lease_owner IS NULL
Gone   == "gone"       \* an instance that has died: its id is not used again

-----------------------------------------------------------------------------
(* Schedules.                                                              *)

next_occurrence(t)     == Period * (t \div Period + 1)
previous_occurrence(t) == Period * ((t + Period - 1) \div Period - 1)

\* process_rule: the window of the report due at `now`.
report_window(last_end, now) ==
  LET boundary == previous_occurrence(now + 1)
  IN [from |-> IF last_end # Null /\ last_end < boundary THEN last_end
               ELSE previous_occurrence(boundary),
      to |-> boundary]

-----------------------------------------------------------------------------
(* notification_rules.                                                     *)

NoRule == [kind |-> "none", enabled |-> FALSE, channels |-> {}, next |-> Null,
           last_end |-> Null, owner |-> Nobody, live |-> FALSE]

initial_next_run(kind, now) ==
  IF kind = "scheduled_report" THEN next_occurrence(now) ELSE now

notification_insert_rule(kind, channels, now) ==
  [NoRule EXCEPT !.kind = kind, !.enabled = TRUE, !.channels = channels,
                 !.next = initial_next_run(kind, now)]

\* A change of a rule takes its lease away, whoever is working on it.
notification_update_rule(r, enabled, channels, now) ==
  [r EXCEPT !.enabled = enabled, !.channels = channels,
            !.next = initial_next_run(r.kind, now), !.owner = Nobody, !.live = FALSE]

due_rule(r, now) == r.enabled /\ r.next <= now /\ ~r.live

notification_claim_rule(r, owner) == [r EXCEPT !.owner = owner, !.live = TRUE]

notification_complete_rule(r, owner, next, window_end) ==
  IF r.owner # owner THEN r
  ELSE [r EXCEPT !.next = next, !.owner = Nobody, !.live = FALSE,
                 !.last_end = IF window_end = Null THEN @ ELSE window_end]

\* Mutant: the release of a failed rule records its window, as completing does.
release_with_window(r, owner, retry_at) ==
  notification_complete_rule(r, owner, retry_at, previous_occurrence(retry_at))

notification_release_rule(r, owner, retry_at) ==
  IF r.owner # owner THEN r
  ELSE [r EXCEPT !.next = retry_at, !.owner = Nobody, !.live = FALSE]

-----------------------------------------------------------------------------
(* notification_alert_states.  `notified` is last_notified_at_ms: never,   *)
(* within the cooldown ("recent") or before it ("old").                    *)

NoAlert == [state |-> "normal", breach |-> 0, recovery |-> 0, notified |-> "never"]

Observations == {"none", "few", "partial", "fine", "breached"}

Stay(a, event) == [row |-> a, event |-> event]

\* Mutant: an alert that was announced once is not announced again.
remind_never(a) ==
  IF a.notified # "never" THEN Stay([a EXCEPT !.recovery = 0], "none")
  ELSE Stay([a EXCEPT !.recovery = 0, !.notified = "recent"], "alert_reminder")

still_firing(a) ==
  IF a.notified = "recent" THEN Stay([a EXCEPT !.recovery = 0], "none")
  ELSE Stay([a EXCEPT !.recovery = 0, !.notified = "recent"], "alert_reminder")

recovering(a) ==
  IF a.recovery + 1 < RecoverAfter THEN Stay([a EXCEPT !.recovery = @ + 1], "none")
  ELSE Stay([NoAlert EXCEPT !.notified = IF SendRecovery THEN "recent" ELSE a.notified],
            IF SendRecovery THEN "alert_recovered" ELSE "none")

breaching(a) ==
  IF a.breach + 1 < TriggerAfter
  THEN Stay([NoAlert EXCEPT !.state = "pending", !.breach = a.breach + 1], "none")
  ELSE Stay([state |-> "firing", breach |-> a.breach + 1, recovery |-> 0,
             notified |-> "recent"], "alert_triggered")

\* Without a value, with too few requests, or within the threshold on
\* incomplete data, nothing changes.
evaluate_alert(a, seen) ==
  CASE seen \in {"none", "few", "partial"} -> Stay(a, "none")
    [] seen = "breached" /\ a.state = "firing" -> still_firing(a)
    [] seen = "breached" /\ a.state # "firing" -> breaching(a)
    [] seen = "fine" /\ a.state = "firing" -> recovering(a)
    [] seen = "fine" /\ a.state # "firing" -> Stay([NoAlert EXCEPT !.notified = a.notified], "none")

-----------------------------------------------------------------------------
(* notification_runs and notification_deliveries.  A run's deliveries are  *)
(* kept with it, one per channel: UNIQUE(run_id, channel_id).  `due` says  *)
(* that next_attempt_at_ms has passed, `linked` that rule_id is not NULL.  *)

NoDelivery == [status |-> "none", attempts |-> 0, due |-> FALSE, owner |-> Nobody]

NoRun == [event |-> "none", sched |-> Null, from |-> Null, linked |-> FALSE,
          delivery |-> [c \in Channels |-> NoDelivery]]

\* idx_notification_runs_unique_rule_event.  Events other than a scheduled
\* report carry the time of their evaluation, which does not repeat.
same_event(run, event, sched) ==
  run.linked /\ run.event = event /\ event = "scheduled_report" /\ run.sched = sched

\* notification_create_run: one delivery for every channel that exists.
notification_create_run(event, window, linked, ids, channel) ==
  [event |-> event, sched |-> window.to, from |-> window.from, linked |-> linked,
   delivery |-> [c \in Channels |->
     CASE c \in ids /\ channel[c] = "enabled" ->
            [NoDelivery EXCEPT !.status = "pending", !.due = TRUE]
       [] c \in ids /\ channel[c] = "disabled" -> [NoDelivery EXCEPT !.status = "skipped"]
       [] OTHER -> NoDelivery]]

\* Mutant: a delivery whose sender has died is claimed again.
claim_abandoned(d) ==
  (d.status = "pending" /\ d.due) \/ (d.status = "sending" /\ d.owner = Gone)

\* notification_list_due_deliveries and the condition of the claim.  A pending
\* row has no lease: every statement that makes it pending clears it.
claimable_delivery(d) == d.status = "pending" /\ d.due

notification_claim_delivery(d, owner) ==
  [d EXCEPT !.status = "sending", !.owner = owner, !.attempts = @ + 1]

Settled(d, status) == [d EXCEPT !.status = status, !.due = FALSE, !.owner = Nobody]

notification_finish_delivery_success(d, owner) ==
  IF d.owner = owner THEN Settled(d, "succeeded") ELSE d

\* With the retry_at_ms that deliver_one computes.
notification_finish_delivery_failure(d, owner, retryable) ==
  IF d.owner # owner THEN d
  ELSE Settled(d, IF retryable /\ d.attempts < MaxAttempts THEN "pending" ELSE "failed")

notification_retry_delivery(d) == [d EXCEPT !.status = "pending", !.due = TRUE, !.owner = Nobody]
=============================================================================

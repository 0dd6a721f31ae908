----------------------------- MODULE Telemetry -----------------------------
(***************************************************************************)
(* The telemetry of one gateway: the bounded queue requests submit to, the *)
(* worker of backend/src/telemetry.rs with its aggregates and buffers, the *)
(* tables it writes, and retention with the archive of log_archive.rs.     *)
(*                                                                         *)
(* An event is a finished request that is counted and logged.  A row of    *)
(* statistics is the events it counts; api keys, tokens and latencies of   *)
(* an event go with it.  Every statement, the archive file and every       *)
(* choice of the worker's select is a step; `then` is what the worker does *)
(* after a flush.  Days are the only time: retention keeps one day.        *)
(*                                                                         *)
(* Texts are left out but for one thing: on_event cuts an error text at    *)
(* byte 512 and panics when that is inside a character.  The worker is     *)
(* gone then, and the process goes on without it.                          *)
(***************************************************************************)
EXTENDS Naturals, Sequences, FiniteSets, FiniteSetsExt

CONSTANTS
  Events,        \* numbers of requests, in the order of their time within a day
  QueueCapacity, \* of the channel, and log_batch_max
  DeleteBatch,   \* RetentionPolicy.delete_batch
  MaxBatches,    \* RETENTION_MAX_BATCHES_PER_RUN
  MaxDay,        \* bound on the days
  MaxFaults      \* bound on failed steps and crashes

ASSUME TelemetryAssumption ==
  /\ Events \subseteq Nat
  /\ {QueueCapacity, DeleteBatch, MaxBatches, MaxDay} \subseteq Nat \ {0}

Days == 1..MaxDay

VARIABLES
  archiving, \* REQUEST_LOG_ARCHIVE_ENABLED, read when the process starts
  day,
  request,   \* [Events -> "new" | "permit" | "queued" | "received" | "gone"]
  date,      \* [Events -> day of time_ms, 0 before it is known]
  queue,
  worker,
  daily,     \* stats_daily: [Days -> set of events, as far as they are counted]
  hourly,    \* stats_hourly: [Events -> how often the event is counted]
  logs,      \* request_logs
  events,    \* stats_events
  archive,   \* events in a complete archive file
  barrier,   \* a caller of Telemetry::flush: "none" or "waiting"
  faults,
  lost       \* history: received events that memory lost before they were counted

vars == <<archiving, day, request, date, queue, worker, daily, hourly, logs, events, archive,
          barrier, faults, lost>>

tables == <<daily, hourly, logs, events, archive>>
inputs == <<archiving, day, request, date, queue, barrier>>

\* TelemetryWorker: with today's rows, and nothing else.
new_worker(today, rows) ==
  [pc |-> "idle", then |-> "none", current_date |-> today, stats_by_key |-> rows,
   hourly_stats |-> {}, to_write |-> {}, dirty |-> FALSE, log_buffer |-> {},
   stats_event_buffer |-> {}, rows |-> {}, batches |-> 0, cutoff |-> 0]

Init ==
  /\ archiving \in BOOLEAN
  /\ day = 1
  /\ request = [e \in Events |-> "new"] /\ date = [e \in Events |-> 0]
  /\ queue = <<>>
  /\ worker = new_worker(1, {})
  /\ daily = [d \in Days |-> {}] /\ hourly = [e \in Events |-> 0]
  /\ logs = {} /\ events = {} /\ archive = {}
  /\ barrier = "none" /\ faults = 0 /\ lost = {}

-----------------------------------------------------------------------------
(* Requests.                                                               *)

Permits == {e \in Events : request[e] = "permit"}

Dead == worker.pc = "dead"

\* try_reserve_permit: without a free place, or with the channel closed, the
\* request goes on without a permit.
try_reserve_permit(e) ==
  /\ request[e] = "new"
  /\ request' = [request EXCEPT ![e] =
       IF ~Dead /\ Len(queue) + Cardinality(Permits) < QueueCapacity THEN "permit" ELSE "gone"]
  /\ UNCHANGED <<archiving, day, date, queue, worker, tables, barrier, faults, lost>>

\* The request ends and sends its event, or is dropped with its permit.  Without
\* a receiver the event is dropped as well.
submit(e) ==
  /\ request[e] = "permit" /\ ~Dead
  /\ request' = [request EXCEPT ![e] = "queued"]
  /\ date' = [date EXCEPT ![e] = day]
  /\ queue' = Append(queue, e)
  /\ UNCHANGED <<archiving, day, worker, tables, barrier, faults, lost>>

drop_permit(e) ==
  /\ request[e] = "permit"
  /\ request' = [request EXCEPT ![e] = "gone"]
  /\ UNCHANGED <<archiving, day, date, queue, worker, tables, barrier, faults, lost>>

\* Telemetry::flush; its caller gives up after a while, and at once without a worker.
ask_flush ==
  /\ barrier = "none" /\ ~Dead
  /\ barrier' = "waiting"
  /\ UNCHANGED <<archiving, day, request, date, queue, worker, tables, faults, lost>>

-----------------------------------------------------------------------------
(* The worker's loop.  A flush request is served before an event, an event *)
(* before the ticker (biased).                                             *)

To(pc) == [worker EXCEPT !.pc = pc]

Flush(then) == [worker EXCEPT !.pc = "daily", !.then = then]

serve_flush ==
  /\ worker.pc = "idle" /\ barrier = "waiting"
  /\ worker' = Flush("answer")
  /\ UNCHANGED <<inputs, tables, faults, lost>>

\* StatsAgg::add and HourlyStatsAgg::add
add(agg, e) == agg \cup {e}

\* A full buffer is flushed at once, the events' before the logs'.  A text that
\* truncate would cut inside a character panics after the first of the two.
on_event(panics) ==
  /\ worker.pc = "idle" /\ barrier = "none" /\ queue # <<>>
  /\ LET e == Head(queue)
         full == Cardinality(worker.stats_event_buffer) + 1 >= QueueCapacity
     IN /\ worker' = [worker EXCEPT
             !.stats_by_key = add(@, e), !.hourly_stats = add(@, e), !.dirty = TRUE,
             !.stats_event_buffer = @ \cup {e},
             !.log_buffer = IF panics THEN @ ELSE @ \cup {e},
             !.then = IF panics THEN "panic" ELSE "none",
             !.pc = IF full THEN "full_events" ELSE IF panics THEN "panic" ELSE "idle"]
        /\ request' = [request EXCEPT ![e] = "received"]
  /\ queue' = Tail(queue)
  /\ UNCHANGED <<archiving, day, date, barrier, tables, faults, lost>>

tick ==
  /\ worker.pc = "idle" /\ barrier = "none" /\ queue = <<>>
  /\ worker' = IF worker.current_date # day THEN Flush("rotate") ELSE Flush("retention")
  /\ UNCHANGED <<inputs, tables, faults, lost>>

-----------------------------------------------------------------------------
(* flush: daily rows, hourly rows, logs, events.                           *)

\* Mutant: a failed write of the daily rows is not tried again.
daily_outcome_forgotten(ok) == [To("hourly") EXCEPT !.dirty = FALSE]

daily_outcome(ok) == [To("hourly") EXCEPT !.dirty = ~ok]

\* A transaction that sets the day's rows to the aggregate.
upsert_stats_daily(rows) == [daily EXCEPT ![worker.current_date] = rows]

flush_daily(ok) ==
  /\ worker.pc = "daily"
  /\ IF ~worker.dirty THEN ok /\ worker' = To("logs") /\ UNCHANGED daily
     ELSE /\ worker' = [daily_outcome(ok) EXCEPT !.to_write = worker.hourly_stats]
          /\ daily' = IF ok THEN upsert_stats_daily(worker.stats_by_key) ELSE daily
  /\ UNCHANGED <<inputs, hourly, logs, events, archive, lost>>

\* A statement for each row, which adds to the row.
upsert_stats_hourly(e) == [hourly EXCEPT ![e] = @ + 1]

\* After a failure all rows are kept for the next flush, the written ones as well.
flush_hourly(ok) ==
  /\ worker.pc = "hourly"
  /\ IF worker.to_write = {}
     THEN /\ ok /\ worker' = [To("logs") EXCEPT !.hourly_stats = {}]
          /\ UNCHANGED hourly
     ELSE IF ok
     THEN LET e == Min(worker.to_write)
          IN /\ hourly' = upsert_stats_hourly(e)
             /\ worker' = [worker EXCEPT !.to_write = @ \ {e}]
     ELSE /\ worker' = [To("logs") EXCEPT !.to_write = {}, !.dirty = TRUE]
          /\ UNCHANGED hourly
  /\ UNCHANGED <<inputs, daily, logs, events, archive, lost>>

insert_request_logs(rows) == logs \cup rows
insert_stats_events(rows) == events \cup rows

\* flush_logs and flush_stats_events: the batch is taken from the buffer and
\* dropped if it cannot be written.
flush_logs(ok) ==
  /\ worker.pc \in {"logs", "full_logs"}
  /\ worker.log_buffer = {} => ok
  /\ worker' = [To(IF worker.pc = "logs" THEN "events" ELSE "idle") EXCEPT !.log_buffer = {}]
  /\ logs' = IF ok THEN insert_request_logs(worker.log_buffer) ELSE logs
  /\ UNCHANGED <<inputs, daily, hourly, events, archive, lost>>

flush_stats_events(ok) ==
  /\ worker.pc \in {"events", "full_events"}
  /\ worker.stats_event_buffer = {} => ok
  /\ worker' = [To(IF worker.pc = "events" \/ worker.then = "panic" THEN worker.then
                    ELSE "full_logs")
                  EXCEPT !.stats_event_buffer = {}]
  /\ events' = IF ok THEN insert_stats_events(worker.stats_event_buffer) ELSE events
  /\ UNCHANGED <<inputs, daily, hourly, logs, archive, lost>>

\* done_tx: the caller hears of the flush.
answer ==
  /\ worker.pc = "answer"
  /\ barrier' = "none"
  /\ worker' = [To("idle") EXCEPT !.then = "none"]
  /\ UNCHANGED <<archiving, day, request, date, queue, tables, faults, lost>>

\* What the worker has received and not written.
Uncounted == worker.hourly_stats \cup (worker.stats_by_key \ daily[worker.current_date])

\* maybe_rotate_day after its flush: the aggregate starts from the rows of the
\* new day, and is not dirty whatever became of the flush.
rotate(ok) ==
  LET today == day
  IN /\ worker.pc = "rotate"
     /\ worker' = [Flush("retention") EXCEPT !.current_date = today, !.dirty = FALSE,
                     !.stats_by_key = IF ok THEN daily[today] ELSE {}]
     /\ lost' = IF worker.dirty THEN lost \cup Uncounted ELSE lost
     /\ UNCHANGED <<inputs, tables>>

-----------------------------------------------------------------------------
(* maybe_run_retention.                                                    *)

Old(rows) == {e \in rows : date[e] < worker.cutoff}

\* ORDER BY time_ms, id LIMIT delete_batch
Oldest(rows) ==
  LET Before(e, f) == date[e] < date[f] \/ (date[e] = date[f] /\ e < f)
  IN {e \in Old(rows) : Cardinality({f \in Old(rows) : Before(f, e)}) < DeleteBatch}

\* Another batch follows a full one, up to MaxBatches.
NextBatch(removed, again, next) ==
  IF Cardinality(removed) = DeleteBatch /\ worker.batches + 1 < MaxBatches
  THEN [To(again) EXCEPT !.batches = @ + 1]
  ELSE [To(next) EXCEPT !.batches = 0]

\* Whether the cleanup interval is over is left open.  cutoff_time_ms is taken once.
begin_retention ==
  /\ worker.pc = "retention"
  /\ worker' \in {[To("clean_events") EXCEPT !.then = "none", !.cutoff = day],
                  [To("idle") EXCEPT !.then = "none"]}
  /\ UNCHANGED <<inputs, tables, faults, lost>>

delete_stats_events_before(ok) ==
  /\ worker.pc = "clean_events"
  /\ IF ok THEN /\ events' = events \ Oldest(events)
                /\ worker' = NextBatch(Oldest(events), "clean_events", "list_logs")
     ELSE worker' = [To("list_logs") EXCEPT !.batches = 0] /\ UNCHANGED events
  /\ UNCHANGED <<inputs, daily, hourly, logs, archive, lost>>

StopLogs == [To("clean_daily") EXCEPT !.batches = 0, !.rows = {}]

list_request_logs_before(ok) ==
  /\ worker.pc = "list_logs"
  /\ worker' = IF ok /\ Oldest(logs) # {}
               THEN [To(IF archiving THEN "archive" ELSE "delete_logs") EXCEPT !.rows = Oldest(logs)]
               ELSE StopLogs
  /\ UNCHANGED <<inputs, tables, lost>>

\* Mutant: a batch that could not be archived is deleted all the same.
unarchived_deleted == To("delete_logs")

unarchived == StopLogs

\* archive_request_logs_jsonl: a file of its own for every batch.
archive_logs(ok) ==
  /\ worker.pc = "archive"
  /\ worker' = IF ok THEN To("delete_logs") ELSE unarchived
  /\ archive' = IF ok THEN archive \cup worker.rows ELSE archive
  /\ UNCHANGED <<inputs, daily, hourly, logs, events, lost>>

delete_request_logs_before(ok) ==
  /\ worker.pc = "delete_logs"
  /\ IF ok THEN /\ logs' = logs \ Oldest(logs)
                /\ worker' = [NextBatch(Oldest(logs), "list_logs", "clean_daily") EXCEPT !.rows = {}]
     ELSE worker' = StopLogs /\ UNCHANGED logs
  /\ UNCHANGED <<inputs, daily, hourly, events, archive, lost>>

\* Rows of days before today; a failure leaves them for the next run.
delete_stats_daily_before(ok) ==
  /\ worker.pc = "clean_daily"
  /\ worker' = [To("idle") EXCEPT !.cutoff = 0]
  /\ daily' = IF ok THEN [d \in Days |-> IF d < day THEN {} ELSE daily[d]] ELSE daily
  /\ UNCHANGED <<inputs, hourly, logs, events, archive, lost>>

-----------------------------------------------------------------------------
(* The world.                                                              *)

Midnight ==
  /\ day < MaxDay
  /\ day' = day + 1
  /\ UNCHANGED <<archiving, request, date, queue, worker, tables, barrier, faults, lost>>

\* Mutant: a restart does not read today's rows.
restarted_empty == new_worker(day, {})

restarted == new_worker(day, daily[day])

\* The queue is dropped with its receiver; a caller of flush hears of an error.
Drops == queue' = <<>> /\ barrier' = "none"

\* The worker's task ends; nobody starts it again.
WorkerDies ==
  /\ worker.pc = "panic"
  /\ worker' = [new_worker(day, {}) EXCEPT !.pc = "dead"]
  /\ request' = [e \in Events |-> IF request[e] = "queued" THEN "gone" ELSE request[e]]
  /\ Drops
  /\ lost' = lost \cup Uncounted
  /\ UNCHANGED <<archiving, day, date, tables, faults>>

\* The process dies and starts again, under settings that may have changed.
Restart ==
  /\ faults < MaxFaults /\ faults' = faults + 1
  /\ archiving' \in BOOLEAN
  /\ worker' = restarted
  /\ request' = [e \in Events |-> IF request[e] \in {"permit", "queued"} THEN "gone" ELSE request[e]]
  /\ Drops
  /\ lost' = lost \cup Uncounted
  /\ UNCHANGED <<day, date, tables>>

Statement(ok) ==
  \/ flush_daily(ok) \/ flush_hourly(ok) \/ flush_logs(ok) \/ flush_stats_events(ok) \/ rotate(ok)
  \/ delete_stats_events_before(ok) \/ list_request_logs_before(ok) \/ archive_logs(ok)
  \/ delete_request_logs_before(ok) \/ delete_stats_daily_before(ok)

Succeeds == Statement(TRUE) /\ UNCHANGED faults
Fails    == Statement(FALSE) /\ faults < MaxFaults /\ faults' = faults + 1

Receives == \E panics \in BOOLEAN : on_event(panics)

Run == serve_flush \/ Receives \/ tick \/ answer \/ begin_retention \/ WorkerDies \/ Succeeds

Next ==
  \/ Run \/ Fails \/ Midnight \/ Restart \/ ask_flush
  \/ \E e \in Events : try_reserve_permit(e) \/ submit(e) \/ drop_permit(e)

\* The worker goes on; a flush request is not always there (they come from
\* notifications, one a minute at most), so the loop gets to events and ticks.
Fairness ==
  /\ WF_vars(serve_flush \/ answer \/ begin_retention \/ WorkerDies \/ Succeeds)
  /\ SF_vars(Receives) /\ SF_vars(tick)

Spec == Init /\ [][Next]_vars /\ Fairness

-----------------------------------------------------------------------------
(* Properties.                                                             *)

\* What a day's row counts it goes on counting, although the row is set and
\* not added to, and the worker's memory goes with a restart and a change of
\* day; only retention removes it (flush_stats, maybe_rotate_day, new).
DailyKept ==
  [][\A d \in Days : daily[d] \subseteq daily'[d] \/ worker.pc = "clean_daily"]_vars

\* While archiving is enabled (it is off by default), a log that retention
\* deletes has been archived in full, although the rows to archive and the rows
\* to delete are chosen by two statements, any of them may fail or be the last
\* thing the process does, and the process may have run without archiving before.
LogsArchived == [][archiving => logs \ logs' \subseteq archive]_vars

\* An event that was sent is counted by day and by hour in the end, whatever
\* statements fail, until retention removes its day.  Three things lose it: the
\* process dies; the worker dies of a text that truncate cannot cut, which
\* drops the queue, what was not yet written, and every event up to the next
\* start of the process; or the flush before a change of day fails.
Counted ==
  \A e \in Events :
    request[e] = "queued" ~>
      request[e] = "gone" \/ e \in lost \/ (hourly[e] > 0 /\ \E d \in Days : e \in daily[d])
=============================================================================

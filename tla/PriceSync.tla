----------------------------- MODULE PriceSync -----------------------------
(***************************************************************************)
(* Price synchronisation of backend/src/price_sync.rs over the tables of   *)
(* db/price_sync.rs: automatic tasks and previews that download the        *)
(* published catalogue, administrators that apply a preview or edit global *)
(* prices meanwhile, and the lease all of them share, on any number of     *)
(* instances.  Every statement or transaction is a step.                   *)
(*                                                                         *)
(* A task is one spawned worker and the owner of one lease; the job of an  *)
(* automatic task or a preview has the task's number.  A slot is used      *)
(* again for a new id when nobody works on its job.  Of a price the row    *)
(* that is active is kept.  Times are what they are compared for: a lease  *)
(* is live or not, and any moment may be one at which the loop of `spawn`  *)
(* finds a task due.  Of catalog_generation a job keeps whether it is      *)
(* still the one of the control row (`current`).  A job's row is kept      *)
(* while it is a preview: what else it says is for the console.            *)
(***************************************************************************)
EXTENDS Naturals, FiniteSets

CONSTANTS
  Tasks,       \* numbers of tasks and jobs
  Models,      \* model names
  Published,   \* sequence of the source's contents, each a set of rows
  Cards,       \* prices an administrator enters
  MaxFaults,   \* bound on failures and crashes
  MaxAdmin     \* bound on what administrators do

VARIABLES
  source,      \* index of the published content
  control,     \* the row of price_sync_control
  price,       \* [Models -> active global row]
  next_id,
  job,         \* [Tasks -> row of price_sync_jobs]
  task,        \* [Tasks -> worker]
  faults, admin

vars == <<source, control, price, next_id, job, task, faults, admin>>

NoRow  == [id |-> 0, card |-> "none", source |-> "none"]
NoCard == "unsupported"

\* What a job carries besides its status.
NoCopy == [version |-> 0, current |-> FALSE, expected |-> [m \in Models |-> 0], conflicts |-> {}]
NoTask == [pc |-> "idle", kind |-> "none", job |-> 0, copy |-> NoCopy, selected |-> {},
           status |-> "none"]
NoJob  == [status |-> "none", copy |-> NoCopy]   \* running, applied or failed

Init ==
  /\ source = 1
  /\ control = [owner |-> 0, live |-> FALSE, version |-> 0]
  /\ price = [m \in Models |-> [id |-> 1, card |-> "old", source |-> "manual"]]
  /\ next_id = 2
  /\ job = [t \in Tasks |-> NoJob]
  /\ task = [t \in Tasks |-> NoTask]
  /\ faults = 0 /\ admin = 0

-----------------------------------------------------------------------------
(* The catalogue.  A row has a name, aliases and the card of the first     *)
(* offer that can be quoted, NoCard if none can.                           *)

Names(rows) == {r.name : r \in rows}

\* Names that occur once, and the aliases of one of them that are nobody's name.
unique_rows(rows) ==
  {r \in rows : \A s \in rows : s.name = r.name => s = r}

finalize(rows) ==
  LET unique == unique_rows(rows)
      Named(m) == {r \in unique : r.name = m}
      Aliased(m) == {r \in unique : m \in r.aliases /\ m \notin Names(rows)}
      Quoted(m) == IF Named(m) # {} THEN Named(m) ELSE Aliased(m)
  IN [m \in {m \in Models : Cardinality(Quoted(m)) = 1} |-> (CHOOSE r \in Quoted(m) : TRUE).card]

\* parse fails on a catalogue without a single price.
Usable(rows) == \E r \in unique_rows(rows) : r.card # NoCard

models(version) == finalize(Published[version])

\* The models of the job that have a price.
Priced(version) == {m \in DOMAIN models(version) : models(version)[m] # NoCard}

-----------------------------------------------------------------------------
(* start and the beginning of an apply.                                    *)

\* Nobody works on the job of slot t, so that it may stand for a new id.
Unused(t) == task[t].pc = "idle" /\ \A u \in Tasks : task[u].pc # "idle" => task[u].job # t

Leased(t) == control' = [control EXCEPT !.owner = t, !.live = TRUE]

\* start: with the lease taken, a job is created.  Without it nothing happens.
start(t, kind) ==
  /\ Unused(t) /\ ~control.live
  /\ Leased(t)
  /\ task' = [task EXCEPT ![t] = [NoTask EXCEPT !.pc = "save", !.kind = kind, !.job = t]]
  /\ job' = [job EXCEPT ![t] = NoJob]
  /\ UNCHANGED <<source, price, next_id, faults>>

\* handle, apply: the preview is read and checked before the lease is taken.
ReadPreview(t, j, selected) ==
  /\ Unused(t) /\ t # j
  /\ job[j].status = "preview" /\ selected \subseteq job[j].copy.conflicts
  /\ task' = [task EXCEPT ![t] = [NoTask EXCEPT !.pc = "lease", !.kind = "apply", !.job = j,
                                    !.copy = job[j].copy, !.selected = selected]]
  /\ UNCHANGED <<source, control, price, next_id, job, faults>>

sync_lease(t) ==
  /\ task[t].pc = "lease"
  /\ IF control.live THEN task' = [task EXCEPT ![t] = NoTask] /\ UNCHANGED control
     ELSE task' = [task EXCEPT ![t].pc = "save"] /\ Leased(t)
  /\ UNCHANGED <<source, price, next_id, job, faults, admin>>

save_running(t) ==
  /\ task[t].pc = "save"
  /\ job' = [job EXCEPT ![task[t].job] = NoJob]
  /\ task' = [task EXCEPT ![t].pc = IF task[t].kind = "apply" THEN "apply" ELSE "download"]
  /\ UNCHANGED <<source, control, price, next_id, faults, admin>>

-----------------------------------------------------------------------------
(* The worker.                                                             *)

Ended(t, status) == task' = [task EXCEPT ![t].pc = "finish", ![t].status = status]

download(t) ==
  /\ task[t].pc = "download"
  /\ IF Usable(Published[source])
     THEN task' = [task EXCEPT ![t].pc = "generation", ![t].copy.version = source]
     ELSE Ended(t, "failed")
  /\ UNCHANGED <<source, control, price, next_id, job, faults, admin>>

\* Mutant: the generation of the row is not read.
prepare_blind(t) ==
  /\ task[t].pc = "generation"
  /\ task' = [task EXCEPT ![t].pc = "prices"]
  /\ UNCHANGED <<source, control, price, next_id, job, faults, admin>>

\* prepare_sync in three queries: the generation,
prepare_generation(t) ==
  /\ task[t].pc = "generation"
  /\ task' = [task EXCEPT ![t].pc = "prices", ![t].copy.current = TRUE]
  /\ UNCHANGED <<source, control, price, next_id, job, faults, admin>>

\* the active prices,
prepare_prices(t) ==
  LET found == DOMAIN models(task[t].copy.version)
  IN /\ task[t].pc = "prices"
     /\ task' = [task EXCEPT ![t].pc = "sources", ![t].copy.expected =
                   [m \in Models |-> IF m \in found THEN price[m].id ELSE 0]]
     /\ UNCHANGED <<source, control, price, next_id, job, faults, admin>>

\* and where these come from.
prepare_sources(t) ==
  LET copy == task[t].copy
      Read == {m \in Priced(copy.version) : copy.expected[m] # 0}
  IN /\ task[t].pc = "sources"
     /\ IF \E m \in Read : price[m].id # copy.expected[m]
        THEN Ended(t, "failed")
        ELSE task' = [task EXCEPT
               ![t].copy.conflicts = {m \in Read : price[m].source = "manual"},
               ![t].pc = IF task[t].kind = "preview" THEN "finish" ELSE "apply",
               ![t].status = IF task[t].kind = "preview" THEN "preview" ELSE "none"]
     /\ UNCHANGED <<source, control, price, next_id, job, faults, admin>>

\* Mutant: whoever once had the lease may apply.
holds_any_lease(t) == TRUE

holds_lease(t) == control.live /\ control.owner = t

\* Mutant: the price may have changed since it was read.
as_it_may_be(t, m) == TRUE

as_expected(t, m) == price[m].id = task[t].copy.expected[m]

\* What becomes of the active row of m.
applied_row(t, m, id) ==
  LET card == models(task[t].copy.version)[m]
  IN CASE price[m].source = "manual" /\ m \notin task[t].selected -> price[m]
       [] price[m].source = "cloud" /\ price[m].card = card -> price[m]
       [] OTHER -> [id |-> id, card |-> card, source |-> "cloud"]

\* apply_sync, one transaction that is rolled back if a check fails.  Every
\* other job has an old generation from then on.
apply_sync(t) ==
  LET version == task[t].copy.version
      Outdated(copy) == [copy EXCEPT !.current = FALSE]
  IN /\ task[t].pc = "apply"
     /\ IF holds_lease(t) /\ task[t].copy.current /\ \A m \in Priced(version) : as_expected(t, m)
        THEN /\ price' = [m \in Models |->
                  IF m \in Priced(version) THEN applied_row(t, m, next_id) ELSE price[m]]
             /\ next_id' = IF price' = price THEN next_id ELSE next_id + 1
             /\ control' = [control EXCEPT !.version = version]
             /\ job' = [j \in Tasks |-> [job[j] EXCEPT !.copy = Outdated(@)]]
             /\ task' = [u \in Tasks |->
                  IF u = t THEN [task[t] EXCEPT !.pc = "finish", !.status = "applied"]
                  ELSE [task[u] EXCEPT !.copy = Outdated(@)]]
        ELSE /\ Ended(t, "failed")
             /\ UNCHANGED <<control, price, next_id, job>>
     /\ UNCHANGED <<source, faults, admin>>

\* The result is saved; only a preview keeps what it found.
finish(t) ==
  /\ task[t].pc = "finish"
  /\ job' = [job EXCEPT ![task[t].job] =
               IF task[t].status = "preview" THEN [status |-> "preview", copy |-> task[t].copy]
               ELSE NoJob]
  /\ task' = [task EXCEPT ![t] = [NoTask EXCEPT !.pc = "release", !.kind = task[t].kind,
                                                !.job = task[t].job]]
  /\ UNCHANGED <<source, control, price, next_id, faults, admin>>

Released(t) ==
  control' = IF control.owner = t THEN [control EXCEPT !.owner = 0, !.live = FALSE] ELSE control

sync_release(t) ==
  /\ task[t].pc = "release"
  /\ Released(t)
  /\ task' = [task EXCEPT ![t] = NoTask]
  /\ UNCHANGED <<source, price, next_id, job, faults, admin>>

-----------------------------------------------------------------------------
(* Failures.                                                               *)

Fault == faults < MaxFaults /\ faults' = faults + 1

\* A download or a query fails.  A job that could not be saved gives the lease
\* back, a result that cannot be saved is not saved, a lease that cannot be
\* released stays.
StepFails(t) ==
  /\ Fault
  /\ CASE task[t].pc = "save" -> Released(t) /\ task' = [task EXCEPT ![t] = NoTask]
       [] task[t].pc \in {"download", "generation", "prices", "sources", "apply"} ->
            Ended(t, "failed") /\ UNCHANGED control
       [] task[t].pc = "finish" -> task' = [task EXCEPT ![t].pc = "release"] /\ UNCHANGED control
       [] task[t].pc \in {"lease", "release"} -> task' = [task EXCEPT ![t] = NoTask] /\ UNCHANGED control
       [] OTHER -> FALSE
  /\ UNCHANGED <<source, price, next_id, job, admin>>

\* The instance the worker runs on dies.
Crash(t) ==
  /\ Fault /\ task[t].pc # "idle"
  /\ task' = [task EXCEPT ![t] = NoTask]
  /\ UNCHANGED <<source, control, price, next_id, job, admin>>

\* The heartbeat of a worker renews its lease until it cannot.
Beating(t) == t # 0 /\ task[t].pc \notin {"idle", "lease"}

lease_expires ==
  /\ control.live
  /\ IF control.owner # 0 /\ Beating(control.owner) THEN Fault ELSE UNCHANGED faults
  /\ control' = [control EXCEPT !.live = FALSE]
  /\ UNCHANGED <<source, price, next_id, job, task, admin>>

-----------------------------------------------------------------------------
(* The source and the administrators.                                      *)

Publish ==
  /\ source + 1 \in DOMAIN Published
  /\ source' = source + 1
  /\ UNCHANGED <<control, price, next_id, job, task, faults, admin>>

Act == admin < MaxAdmin /\ admin' = admin + 1

\* insert_model_price and update_model_price: a new manual row takes the place
\* of the active one.
set_price(m, card) ==
  /\ Act
  /\ price' = [price EXCEPT ![m] = [id |-> next_id, card |-> card, source |-> "manual"]]
  /\ next_id' = next_id + 1
  /\ UNCHANGED <<source, control, job, task, faults>>

deactivate_model_price(m) ==
  /\ Act /\ price[m] # NoRow
  /\ price' = [price EXCEPT ![m] = NoRow]
  /\ UNCHANGED <<source, control, next_id, job, task, faults>>

Administrator ==
  \/ \E m \in Models : deactivate_model_price(m) \/ \E card \in Cards : set_price(m, card)
  \/ \E t \in Tasks : Act /\ start(t, "preview")
  \/ \E t, j \in Tasks, selected \in SUBSET Models : Act /\ ReadPreview(t, j, selected)

Work(t) ==
  \/ sync_lease(t) \/ save_running(t) \/ download(t)
  \/ prepare_generation(t) \/ prepare_prices(t) \/ prepare_sources(t)
  \/ apply_sync(t) \/ finish(t) \/ sync_release(t)

\* The loop of spawn.
automatic == \E t \in Tasks : start(t, "automatic") /\ UNCHANGED admin

Next ==
  \/ automatic \/ lease_expires \/ Publish \/ Administrator
  \/ \E t \in Tasks : Work(t) \/ StepFails(t) \/ Crash(t)

\* A lease nobody renews.
lease_lapses == ~(control.owner # 0 /\ Beating(control.owner)) /\ lease_expires

\* The loop runs every 30 seconds, workers go on (a download has a timeout),
\* time passes, and the source publishes.
Fairness ==
  /\ WF_vars(automatic) /\ WF_vars(lease_lapses) /\ WF_vars(Publish)
  /\ \A t \in Tasks : WF_vars(Work(t))

Spec == Init /\ [][Next]_vars /\ Fairness

-----------------------------------------------------------------------------
(* Properties.                                                             *)

\* A manual price that is active gives way to a cloud price only when an
\* administrator chose the cloud for it in a preview that showed this very
\* row, whatever was edited, applied or taken over since (apply_sync).
ManualKept ==
  [][\A m \in Models :
       price[m].source = "manual" /\ price'[m].source = "cloud" =>
         \E t \in Tasks :
           /\ task[t].pc = "apply" /\ task[t].kind = "apply"
           /\ m \in task[t].selected \cap task[t].copy.conflicts
           /\ task[t].copy.expected[m] = price[m].id]_vars

\* A worker that lost its lease and comes back does not put an older catalogue
\* in the place of a newer one (the fence in apply_sync).
AutomaticForward ==
  [][\A t \in Tasks :
       (task[t].kind = "automatic" /\ task[t].status = "none" /\ task'[t].status = "applied")
         => control'.version >= control.version]_vars

\* Crashed workers, kept leases, failed steps, stale previews and edits do not
\* keep the last published catalogue from being applied in the end.
CatchesUp == <>(control.version = Cardinality(DOMAIN Published))
=============================================================================

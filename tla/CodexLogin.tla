----------------------------- MODULE CodexLogin -----------------------------
(***************************************************************************)
(* Signing in a Codex account: CodexOAuthManager's sessions, of            *)
(* backend/src/codex_oauth.rs, over the rows and refreshes of              *)
(* CodexRefresh.                                                           *)
(*                                                                         *)
(* A session belongs to a target (a key to replace, or a new one) and has  *)
(* a runner: a task that polls for the device code, or that the browser's  *)
(* callback starts.  The runner holds the session's save_gate while it     *)
(* writes the credentials; get, cancel and callback take the gate and the  *)
(* sessions' mutex but await nothing in between, so each is one step that  *)
(* needs the gate free.  prune_sessions does not take the gate.            *)
(*                                                                         *)
(* `expired` says that expires_at_ms has passed.  Sessions that completed, *)
(* failed or expired have "ended": nothing treats them differently.  All   *)
(* sessions live in the gateway Home.                                      *)
(***************************************************************************)
EXTENDS CodexRefresh

CONSTANTS
  Sessions,  \* session ids
  Home       \* the gateway whose memory holds the sessions

VARIABLES
  session,   \* [Sessions -> record], sessions and what is being started
  runner,    \* [Sessions -> where run_device_session / run_browser_session is]
  gate,      \* [Sessions -> BOOLEAN]: a runner holds save_gate
  account,   \* the account a runner's tokens belong to, and its refresh token
  saved      \* history: sessions whose credentials were written

loginVars == <<session, runner, gate, account, saved>>
vars == <<authVars, loginVars>>

None == [status |-> "none", target |-> NewKey, flow |-> "none", stage |-> "none",
         claimed |-> FALSE, expired |-> FALSE]

NoTokens == [id |-> "none", token |-> 0]

LoginInit ==
  /\ session = [s \in Sessions |-> None]
  /\ runner = [s \in Sessions |-> "none"]
  /\ gate = [s \in Sessions |-> FALSE]
  /\ account = [s \in Sessions |-> NoTokens]
  /\ saved = {}

Pending(r) == r.status = "pending"

\* A session that has ended; cancel_requested is only set together with this.
Finished(status) == [None EXCEPT !.status = status]

\* prune_sessions drops what has ended or expired DEVICE_SESSION_TOMBSTONE_MS
\* ago, as every call of the administrator does first: any of those, since
\* times are left open.  A dropped record's place is free for a new one.
prunable == {s \in Sessions : session[s].expired \/ session[s].status \in {"ended", "cancelled"}}

prune_sessions(due) == [s \in Sessions |-> IF s \in due THEN None ELSE session[s]]

Forget(due) == saved' = saved \ due

-----------------------------------------------------------------------------
(* The administrator.                                                      *)

\* reserve_starting_target: starting_targets and sessions are locked together.
reservable(target) ==
  \A s \in Sessions : ~(session[s].target = target /\ session[s].status \in {"starting", "pending"})

StartSession(s, target, flow, due) ==
  /\ session[s] = None /\ runner[s] = "none"
  /\ reservable(target)
  /\ session' = [prune_sessions(due) EXCEPT ![s] =
                   [None EXCEPT !.status = "starting", !.target = target, !.flow = flow]]
  /\ Forget(due \cup {s})
  /\ UNCHANGED <<runner, gate, account>>

\* The device code arrives (or none is needed): the record replaces the
\* reservation, and the device's runner starts.
InsertSession(s) ==
  /\ session[s].status = "starting"
  /\ session' = [session EXCEPT ![s].status = "pending", ![s].stage = "waiting_for_user"]
  /\ runner' = [runner EXCEPT ![s] = IF session[s].flow = "device" THEN "poll" ELSE @]
  /\ UNCHANGED <<gate, account, saved>>

\* The request for a code fails, or the call is dropped: StartingTargetGuard.
StartFails(s) ==
  /\ session[s].status = "starting"
  /\ session' = [session EXCEPT ![s] = None]
  /\ UNCHANGED <<runner, gate, account, saved>>

\* get_session expires a session.
get_session(s, due) ==
  /\ ~gate[s]
  /\ session' = [prune_sessions(due) EXCEPT ![s] =
       IF Pending(@) /\ @.stage # "finalizing" /\ @.expired THEN Finished("ended") ELSE @]
  /\ Forget(due)
  /\ UNCHANGED <<runner, gate, account>>

CancelRecord(r) ==
  IF Pending(r) /\ r.stage # "finalizing" THEN Finished("cancelled") ELSE r

\* Mutant: cancelling does not wait for the gate.
cancel_ungated(s, due) ==
  /\ session' = [prune_sessions(due) EXCEPT ![s] = CancelRecord(@)]
  /\ Forget(due)
  /\ UNCHANGED <<runner, gate, account>>

cancel_session(s, due) ==
  /\ ~gate[s]
  /\ session' = [prune_sessions(due) EXCEPT ![s] = CancelRecord(@)]
  /\ Forget(due)
  /\ UNCHANGED <<runner, gate, account>>

\* claim_browser_callback, for a callback that carries this session's state.
\* An expired session expires at any stage, unless it is `late`: the clock was
\* read before the gate was waited for.  `denied` is an error parameter.
claim_browser_callback(s, due, late, denied) ==
  /\ ~gate[s]
  /\ s \notin due
  /\ LET r == session[s]
     IN  /\ r.flow = "browser" /\ Pending(r)
         /\ \/ /\ r.expired /\ ~late
               /\ session' = [prune_sessions(due) EXCEPT ![s] = Finished("ended")]
               /\ UNCHANGED runner
            \/ /\ ~r.expired \/ late
               /\ ~r.claimed
               /\ session' = [prune_sessions(due) EXCEPT ![s] =
                     IF denied THEN Finished("ended")
                     ELSE [r EXCEPT !.stage = "exchanging", !.claimed = TRUE]]
               /\ runner' = [runner EXCEPT ![s] = IF denied THEN @ ELSE "exchange"]
  /\ Forget(due)
  /\ UNCHANGED <<gate, account>>

-----------------------------------------------------------------------------
(* The runner.                                                             *)

RunnerAt(s, label) == runner[s] = label
RunnerGoes(s, label) == runner' = [runner EXCEPT ![s] = label]

\* The runner is past its use of the tokens.
DropTokens(s) == account' = [account EXCEPT ![s] = NoTokens]

session_cancelled(s) == ~Pending(session[s])

\* mark_session_error leaves a session alone that is not pending any more.
mark_session_error(s) ==
  session' = [session EXCEPT ![s] = IF Pending(@) THEN Finished("ended") ELSE @]

RunnerFails(s) == mark_session_error(s) /\ RunnerGoes(s, "none")

\* Mutant: the poll loop never looks at the clock.
poll_forever(s) ==
  /\ RunnerAt(s, "poll")
  /\ IF session_cancelled(s) \/ session[s].stage # "waiting_for_user"
       THEN RunnerGoes(s, "none") /\ UNCHANGED session
       ELSE RunnerGoes(s, "polling") /\ UNCHANGED session
  /\ UNCHANGED <<gate, account, saved>>

\* session_poll_snapshot, and the checks before the request.
PollDevice(s) ==
  /\ RunnerAt(s, "poll")
  /\ CASE session_cancelled(s) \/ session[s].stage # "waiting_for_user" ->
            RunnerGoes(s, "none") /\ UNCHANGED session
       [] ~session_cancelled(s) /\ session[s].stage = "waiting_for_user" /\ session[s].expired ->
            RunnerFails(s)
       [] OTHER -> RunnerGoes(s, "polling") /\ UNCHANGED session
  /\ UNCHANGED <<gate, account, saved>>

\* poll_device_token answers: not yet, an error, or the code.
DeviceAnswer(s) ==
  /\ RunnerAt(s, "polling")
  /\ \/ RunnerGoes(s, "poll") /\ UNCHANGED session
     \/ RunnerFails(s)
     \/ IF session_cancelled(s)
          THEN RunnerGoes(s, "none") /\ UNCHANGED session
          ELSE /\ session' = [session EXCEPT ![s].stage = "exchanging"]
               /\ RunnerGoes(s, "exchange")
  /\ UNCHANGED <<gate, account, saved>>

\* exchange_authorization_code, then the first checks of finish_token_bundle:
\* cancelled, an unusable ID token, a record that is gone.
ExchangeCode(s) ==
  /\ RunnerAt(s, "exchange")
  /\ \/ RunnerFails(s) /\ UNCHANGED <<good, issued, account>>
     \/ /\ issued < MaxTokens
        /\ issued' = issued + 1
        /\ good' = good \cup {issued'}
        /\ \/ /\ ~session_cancelled(s)
              /\ RunnerGoes(s, "gate")
              /\ \E a \in Accounts :
                   account' = [account EXCEPT ![s] = [id |-> a, token |-> issued']]
              /\ UNCHANGED session
           \/ /\ session_cancelled(s)
              /\ RunnerGoes(s, "none")
              /\ UNCHANGED <<session, account>>
           \/ RunnerFails(s) /\ UNCHANGED account
  /\ UNCHANGED <<rows, caller, lock, gate, saved>>

\* The gate is entered: look again.
EnterGate(s) ==
  /\ RunnerAt(s, "gate")
  /\ CASE session_cancelled(s) ->
            RunnerGoes(s, "none") /\ DropTokens(s) /\ UNCHANGED <<session, gate>>
       [] ~session_cancelled(s) /\ session[s].expired ->
            RunnerFails(s) /\ DropTokens(s) /\ UNCHANGED gate
       [] OTHER -> /\ RunnerGoes(s, "save")
                   /\ gate' = [gate EXCEPT ![s] = TRUE]
                   /\ UNCHANGED <<session, account>>
  /\ UNCHANGED saved

\* save_codex_oauth_login: one transaction, which may fail.  The target was
\* read when the gate was entered, so a pruned record does not matter.
SaveLogin(s, target) ==
  /\ RunnerAt(s, "save")
  /\ session[s] = None \/ session[s].target = target
  /\ \/ \E k \in login_key(rows, target, account[s].id) :
          /\ rows' = [rows EXCEPT ![k] = login_row(@, account[s].id, account[s].token)]
          /\ saved' = saved \cup {s}
          /\ RunnerGoes(s, "saved")
          /\ UNCHANGED <<session, gate>>
     \/ /\ RunnerFails(s)
        /\ gate' = [gate EXCEPT ![s] = FALSE]
        /\ UNCHANGED <<rows, saved>>
  /\ DropTokens(s)
  /\ UNCHANGED <<good, issued, caller, lock>>

\* mark_session_stage(Finalizing), and the gate is left.
MarkFinalizing(s) ==
  /\ RunnerAt(s, "saved")
  /\ gate' = [gate EXCEPT ![s] = FALSE]
  /\ IF session_cancelled(s)
       THEN RunnerGoes(s, "none") /\ UNCHANGED session
       ELSE RunnerGoes(s, "finalize") /\ session' = [session EXCEPT ![s].stage = "finalizing"]
  /\ UNCHANGED <<account, saved>>

\* After the quota and the models have been asked for (as Callers do), with
\* or without warnings: mark_session_completed.
Complete(s) ==
  /\ RunnerAt(s, "finalize")
  /\ session' = [session EXCEPT ![s] = IF session_cancelled(s) THEN @ ELSE Finished("ended")]
  /\ RunnerGoes(s, "none")
  /\ UNCHANGED <<gate, account, saved>>

-----------------------------------------------------------------------------

SessionExpires(s) ==
  /\ Pending(session[s]) /\ ~session[s].expired
  /\ session' = [session EXCEPT ![s].expired = TRUE]
  /\ UNCHANGED <<runner, gate, account, saved>>

RunnerStep(s) ==
  \/ PollDevice(s) \/ DeviceAnswer(s) \/ EnterGate(s) \/ MarkFinalizing(s) \/ Complete(s)

Admin(s) ==
  \/ \E due \in SUBSET prunable :
       \/ \E target \in Targets, flow \in {"device", "browser"} : StartSession(s, target, flow, due)
       \/ get_session(s, due) \/ cancel_session(s, due)
       \/ \E late, denied \in BOOLEAN : claim_browser_callback(s, due, late, denied)
  \/ InsertSession(s) \/ StartFails(s) \/ SessionExpires(s)

\* Pending logins are kept in memory only: a restart loses them.
Crash(g) ==
  /\ LoseCallers(g)
  /\ IF g = Home
       THEN /\ session' = [s \in Sessions |-> None]
            /\ runner' = [s \in Sessions |-> "none"]
            /\ gate' = [s \in Sessions |-> FALSE]
            /\ account' = [s \in Sessions |-> NoTokens]
            /\ saved' = {}
       ELSE UNCHANGED loginVars

Init == AuthInit /\ LoginInit

LoginNext == \E s \in Sessions : (RunnerStep(s) \/ Admin(s)) /\ UNCHANGED authVars

Next ==
  \/ AuthNext /\ UNCHANGED loginVars
  \/ LoginNext
  \/ \E s \in Sessions : ExchangeCode(s) \/ \E t \in Targets : SaveLogin(s, t)
  \/ \E g \in Gateways \cup {Home} : Crash(g)

\* Time passes, and a runner's requests and statements end.
Fairness ==
  /\ \A s \in Sessions :
       /\ WF_vars(SessionExpires(s) /\ UNCHANGED authVars)
       /\ WF_vars(RunnerStep(s) /\ UNCHANGED authVars)
       /\ WF_vars(ExchangeCode(s))
       /\ WF_vars(\E t \in Targets : SaveLogin(s, t))

Spec == Init /\ [][Next]_vars /\ Fairness

-----------------------------------------------------------------------------

SessionState ==
  [status: {"none", "starting", "pending", "ended", "cancelled"}, target: Targets,
   flow: {"none", "device", "browser"},
   stage: {"none", "waiting_for_user", "exchanging", "finalizing"},
   claimed: BOOLEAN, expired: BOOLEAN]

\* The rows, the callers, the sessions and their runners keep their types.
TypeOK ==
  /\ AuthTypeOK
  /\ session \in [Sessions -> SessionState]
  /\ runner \in [Sessions -> {"none", "poll", "polling", "exchange", "gate", "save", "saved",
                              "finalize"}]
  /\ gate \in [Sessions -> BOOLEAN]
  /\ account \in [Sessions -> [id: Accounts \cup {"none"}, token: Nat]]
  /\ saved \subseteq Sessions

\* prepare_auth_with_status, persist_codex_token_refresh: refreshed credentials
\* are only written over the ones that were in the row when the lease was
\* taken.  Whoever replaces those in the meantime (a login, another gateway
\* after the lease ran out) takes the lease away with them.
LeaseProtects ==
  \A c \in Callers : At(c, "persist") /\ persists(Row(c), c) => Row(c).token = caller[c].base

\* cancel_session: credentials of a login that was reported as cancelled are
\* never written, before or after, whatever its runner was doing.
CancelledNotSaved == \A s \in saved : session[s].status # "cancelled"

\* Behind it: a lease is owned by a call that is between taking it and giving
\* it back, and the row still has the credentials of that moment.
LeaseInv ==
  \A c \in Callers : Row(c).owner = c =>
    /\ caller[c].pc \in {"refresh", "persist", "release"}
    /\ Row(c).token = caller[c].base

\* Behind CancelledNotSaved: the runner holds the gate while it saves, of a
\* session nobody can cancel then; once saved, a session that is still pending
\* is finalizing by the time the gate is left.
SaveInv ==
  \A s \in Sessions :
    /\ runner[s] \in {"save", "saved"} => gate[s]
    /\ runner[s] = "save" => session[s].status \in {"none", "pending"}
    /\ session[s].status = "starting" => runner[s] = "none" /\ s \notin saved
    /\ Pending(session[s]) /\ session[s].flow = "browser" /\ ~session[s].claimed
         => runner[s] = "none"
    /\ s \in saved /\ Pending(session[s]) =>
         \/ runner[s] = "saved"
         \/ runner[s] = "finalize" /\ session[s].stage = "finalizing"
    /\ s \in saved => session[s].status # "cancelled"

\* run_device_session, run_browser_session: a login with a runner does not stay
\* pending, whatever the server answers or fails to answer.
LoginEnds ==
  \A s \in Sessions :
    Pending(session[s]) /\ (session[s].flow = "device" \/ session[s].claimed)
      ~> ~Pending(session[s])

=============================================================================

---------------------------- MODULE CodexRefresh ----------------------------
(***************************************************************************)
(* Everybody who needs a Codex access token: prepare_auth_with_status of   *)
(* backend/src/codex_oauth.rs and its callers, requests (proxy.rs,         *)
(* responses_ws.rs), refresh_quota and fetch_models.                       *)
(*                                                                         *)
(* Refresh tokens rotate: the authorization server accepts each one once.  *)
(* Within a gateway a lock per key serialises the callers; between         *)
(* gateways on one database a lease in the row does.  Every await is a     *)
(* step of its own, so a login, another gateway or a crash may come in     *)
(* between.                                                                *)
(***************************************************************************)
EXTENDS CodexAccount

CONSTANTS
  Callers,    \* calls of prepare_auth, refresh_quota and fetch_models
  Gateway,    \* [Callers -> gateways]: the process a caller runs in
  KeyOf,      \* [Callers -> Keys]
  SignedIn,   \* a key signed in before the gateways started, or Nobody
  FirstAccount, \* its account
  Ops,        \* what callers want: a subset of {"request", "quota", "models"}
  WaitAttempts, \* REFRESH_LEASE_WAIT_ATTEMPTS
  MaxTokens   \* bound: refresh tokens the server issues

ASSUME CodexAssumption ==
  /\ Gateway \in [Callers -> STRING]
  /\ KeyOf \in [Callers -> Keys]
  /\ FirstAccount \in Accounts
  /\ Ops \subseteq {"request", "quota", "models"}
  /\ WaitAttempts \in Nat
  /\ MaxTokens \in Nat

VARIABLES
  rows,    \* [Keys -> row], the database
  good,    \* the authorization server: refresh tokens it accepts
  issued,  \* how many tokens it has issued
  caller,  \* [Callers -> where the call is]
  lock     \* refresh_locks of every gateway: [Gateways -> [Keys -> holder]]

authVars == <<rows, good, issued, caller, lock>>

Gateways == {Gateway[c] : c \in Callers}
Orphan   == "orphan"   \* the owner of a lease whose call is over

\* The owner of a lease is a fresh id, so a call has no other call's name.
ASSUME OwnersAssumption == Nobody \notin Callers /\ Orphan \notin Callers

Idle == [pc |-> "idle", op |-> "none", force |-> FALSE, token |-> 0, status |-> "none",
         waits |-> 0, new |-> 0, verdict |-> "none", base |-> 0]

AuthInit ==
  /\ rows = [k \in Keys |-> IF k = SignedIn THEN login_row(Absent, FirstAccount, 1) ELSE Absent]
  /\ issued = IF SignedIn \in Keys THEN 1 ELSE 0
  /\ good = 1..issued
  /\ caller = [c \in Callers |-> Idle]
  /\ lock = [g \in Gateways |-> [k \in Keys |-> Nobody]]

Row(c)          == rows[KeyOf[c]]
At(c, label)    == caller[c].pc = label
Become(c, x)    == caller' = [caller EXCEPT ![c] = x]
Go(c, label)    == [caller[c] EXCEPT !.pc = label]
Write(c, row)   == rows' = [rows EXCEPT ![KeyOf[c]] = row]
allow_forbidden(c) == caller[c].op = "quota"

\* The local lock is dropped when prepare_auth_with_status returns.
Unlock(c) == lock' = [lock EXCEPT ![Gateway[c]][KeyOf[c]] = Nobody]

\* A lease that outlives its call: owners are fresh ids, so nobody can use it,
\* and once it has run out it is as good as none.
Orphaned(row, dead) ==
  IF row.owner \in dead THEN [row EXCEPT !.owner = IF row.leased THEN Orphan ELSE Nobody] ELSE row

\* prepare_auth_with_status returns an error: so does whoever called it.
Refused(c) ==
  /\ Become(c, Idle)
  /\ Unlock(c)
  /\ Write(c, Orphaned(Row(c), {c}))
  /\ UNCHANGED <<good, issued>>

\* It returns the row's access token, and the caller uses it.
Prepared(c) ==
  /\ Become(c, [Idle EXCEPT !.pc = "use", !.op = caller[c].op, !.force = caller[c].force])
  /\ Unlock(c)
  /\ UNCHANGED <<rows, good, issued>>

-----------------------------------------------------------------------------

Call(c, op) ==
  /\ At(c, "idle")
  /\ Become(c, [Idle EXCEPT !.pc = "lock", !.op = op])
  /\ UNCHANGED <<rows, good, issued, lock>>

refresh_lock(c) ==
  /\ At(c, "lock")
  /\ lock[Gateway[c]][KeyOf[c]] = Nobody
  /\ lock' = [lock EXCEPT ![Gateway[c]][KeyOf[c]] = c]
  /\ Become(c, Go(c, "load"))
  /\ UNCHANGED <<rows, good, issued>>

\* The account is read once before the lease is asked for.
Load(c) ==
  /\ At(c, "load")
  /\ \/ ~load_account(Row(c), allow_forbidden(c)) /\ Refused(c)
     \/ /\ load_account(Row(c), allow_forbidden(c))
        /\ ~caller[c].force /\ Row(c).fresh
        /\ Prepared(c)
     \/ /\ load_account(Row(c), allow_forbidden(c))
        /\ caller[c].force \/ ~Row(c).fresh
        /\ Become(c, [Go(c, "lease") EXCEPT !.token = Row(c).token, !.status = Row(c).status])
        /\ UNCHANGED <<rows, good, issued, lock>>

\* `base` is a history variable: the credentials in the row at this moment.
AcquireLease(c) ==
  /\ At(c, "lease") \/ At(c, "retry")
  /\ lease_is_free(Row(c))
  /\ Write(c, try_acquire_codex_refresh_lease(Row(c), c))
  /\ Become(c, [Go(c, "refresh") EXCEPT !.base = Row(c).token, !.waits = 0])
  /\ UNCHANGED <<good, issued, lock>>

\* Somebody else is refreshing: off to wait.
LeaseHeld(c) ==
  /\ At(c, "lease") \/ At(c, "retry")
  /\ ~lease_is_free(Row(c))
  /\ Become(c, [Go(c, "wait") EXCEPT
                  !.waits = IF At(c, "lease") THEN WaitAttempts ELSE @])
  /\ UNCHANGED <<rows, good, issued, lock>>

\* One round of waiting: the account is read again, and the lease tried
\* again once it has run out.
WaitRound(c) ==
  /\ At(c, "wait")
  /\ caller[c].waits > 0
  /\ \/ ~load_account(Row(c), allow_forbidden(c)) /\ Refused(c)
     \/ /\ load_account(Row(c), allow_forbidden(c))
        /\ Row(c).fresh
        /\ Prepared(c)
     \/ /\ load_account(Row(c), allow_forbidden(c))
        /\ ~Row(c).fresh
        /\ Become(c, [caller[c] EXCEPT !.pc = IF lease_is_free(Row(c)) THEN "retry" ELSE "wait",
                                       !.waits = @ - 1, !.token = Row(c).token,
                                       !.status = Row(c).status])
        /\ UNCHANGED <<rows, good, issued, lock>>

\* refresh_in_progress
WaitOver(c) ==
  /\ At(c, "wait")
  /\ caller[c].waits = 0
  /\ Refused(c)

\* refresh_tokens presents the refresh token that was read.  The server rotates
\* it or not; the answer may get lost or be an error of another kind.
refresh_tokens(c) ==
  LET t == caller[c].token
  IN  /\ At(c, "refresh")
      /\ \/ /\ t \in good
            /\ issued < MaxTokens
            /\ issued' = issued + 1
            /\ good' = (good \ {t}) \cup {issued'}
            /\ Become(c, [Go(c, "persist") EXCEPT !.new = issued', !.token = 0])
         \/ /\ t \in good
            /\ Become(c, [Go(c, "persist") EXCEPT !.new = t, !.token = 0])
            /\ UNCHANGED <<good, issued>>
         \/ /\ good' \in {good, good \ {t}}
            /\ Become(c, [Go(c, "release") EXCEPT !.verdict = "temporary", !.token = 0])
            /\ UNCHANGED issued
         \/ /\ t \notin good
            /\ Become(c, [Go(c, "release") EXCEPT !.verdict = "reauth_required", !.token = 0])
            /\ UNCHANGED <<good, issued>>
      /\ UNCHANGED <<rows, lock>>

\* The answer's ID token cannot be read: the error returns past the lease, and
\* a rotated refresh token is lost.
GarbledIdToken(c) ==
  /\ At(c, "refresh")
  /\ caller[c].token \in good
  /\ good' \in {good, good \ {caller[c].token}}
  /\ Become(c, Idle)
  /\ Unlock(c)
  /\ Write(c, Orphaned(Row(c), {c}))
  /\ UNCHANGED issued

\* The answer was an error: the lease is given back (or that statement fails)...
ReleaseLease(c) ==
  /\ At(c, "release")
  /\ \/ Write(c, release_codex_refresh_lease(Row(c), c))
     \/ Write(c, Orphaned(Row(c), {c}))
  /\ IF caller[c].verdict = "reauth_required"
       THEN Become(c, [Idle EXCEPT !.pc = "condemn"]) /\ UNCHANGED lock
       ELSE Become(c, Idle) /\ Unlock(c)
  /\ UNCHANGED <<good, issued>>

\* ...and then the account is marked, whoever has written it since.
Condemn(c) ==
  /\ At(c, "condemn")
  /\ Write(c, update_codex_auth_status(Row(c), "reauth_required"))
  /\ Become(c, Idle)
  /\ Unlock(c)
  /\ UNCHANGED <<good, issued>>

\* persist_codex_token_refresh, with the status that was read at the start.
Persist(c) ==
  /\ At(c, "persist")
  /\ \/ /\ persists(Row(c), c)
        /\ Write(c, persist_codex_token_refresh(Row(c), caller[c].new, caller[c].status))
        /\ Become(c, [Idle EXCEPT !.pc = "reload", !.op = caller[c].op, !.force = caller[c].force])
        /\ UNCHANGED <<good, issued, lock>>
     \/ Refused(c)    \* the lease was lost, or the transaction failed

Reload(c) ==
  /\ At(c, "reload")
  /\ IF load_account(Row(c), allow_forbidden(c)) THEN Prepared(c) ELSE Refused(c)

\* The upstream's answer to the access token.  The first 401 asks for a forced
\* refresh; the second one condemns the account.
Use(c) ==
  /\ At(c, "use")
  /\ \/ Become(c, IF caller[c].op = "quota" THEN Go(c, "quota") ELSE Idle)
     \/ Become(c, Idle)
     \/ Become(c, IF caller[c].force THEN [Idle EXCEPT !.pc = "mark", !.verdict = "reauth_required"]
                  ELSE [Go(c, "lock") EXCEPT !.force = TRUE])
     \/ /\ caller[c].op # "models"
        /\ Become(c, [Idle EXCEPT !.pc = "mark", !.verdict = "forbidden"])
  /\ UNCHANGED <<rows, good, issued, lock>>

\* update_codex_auth_status after the answer; no lock is held here.
Mark(c) ==
  /\ At(c, "mark")
  /\ Write(c, update_codex_auth_status(Row(c), caller[c].verdict))
  /\ Become(c, Idle)
  /\ UNCHANGED <<good, issued, lock>>

QuotaSuccess(c) ==
  /\ At(c, "quota")
  /\ Write(c, update_codex_quota_success(Row(c)))
  /\ Become(c, Idle)
  /\ UNCHANGED <<good, issued, lock>>

-----------------------------------------------------------------------------
(* Time, as far as it is compared.                                         *)

AccessTokenAges(k) ==
  /\ rows[k].fresh
  /\ rows' = [rows EXCEPT ![k].fresh = FALSE]
  /\ UNCHANGED <<good, issued, caller, lock>>

LeaseExpires(k) ==
  /\ rows[k].leased
  /\ rows' = [rows EXCEPT ![k].leased = FALSE, ![k].owner = IF @ = Orphan THEN Nobody ELSE @]
  /\ UNCHANGED <<good, issued, caller, lock>>

CallerStep(c) ==
  \/ refresh_lock(c) \/ Load(c) \/ AcquireLease(c) \/ LeaseHeld(c) \/ WaitRound(c)
  \/ WaitOver(c) \/ refresh_tokens(c) \/ GarbledIdToken(c) \/ ReleaseLease(c)
  \/ Condemn(c) \/ Persist(c) \/ Reload(c) \/ Use(c) \/ Mark(c) \/ QuotaSuccess(c)

AuthNext ==
  \/ \E c \in Callers : CallerStep(c) \/ \E op \in Ops : Call(c, op)
  \/ \E k \in Keys : AccessTokenAges(k) \/ LeaseExpires(k)

\* A gateway dies: its calls and locks are gone, its leases stay.
LoseCallers(g) ==
  LET dead == {c \in Callers : Gateway[c] = g}
  IN  /\ caller' = [c \in Callers |-> IF c \in dead THEN Idle ELSE caller[c]]
      /\ lock' = [h \in Gateways |-> IF h = g THEN [k \in Keys |-> Nobody] ELSE lock[h]]
      /\ rows' = [k \in Keys |-> Orphaned(rows[k], dead)]
      /\ UNCHANGED <<good, issued>>

-----------------------------------------------------------------------------

RowState ==
  [token: Nat, account: Accounts \cup {"none"}, status: Statuses \cup {"none"},
   owner: Callers \cup {Nobody, Orphan}, leased: BOOLEAN, fresh: BOOLEAN]

CallerState ==
  [pc: {"idle", "lock", "load", "lease", "retry", "wait", "refresh", "release", "condemn",
        "persist", "reload", "use", "mark", "quota"},
   op: {"request", "quota", "models", "none"}, force: BOOLEAN, token: Nat,
   status: Statuses \cup {"none"}, waits: Nat, new: Nat,
   verdict: {"none", "temporary", "reauth_required", "forbidden"}, base: Nat]

AuthTypeOK ==
  /\ rows \in [Keys -> RowState]
  /\ issued \in Nat
  /\ good \subseteq Nat
  /\ caller \in [Callers -> CallerState]
  /\ \A c \in Callers : At(c, "mark") => caller[c].verdict \in Statuses
  /\ lock \in [Gateways -> [Keys -> Callers \cup {Nobody}]]
=============================================================================

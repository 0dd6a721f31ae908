---------------------------- MODULE CodexAccount ----------------------------
(***************************************************************************)
(* A row of codex_oauth_accounts with its upstream key, and what the       *)
(* statements of backend/src/codex_oauth.rs do to it.  Every operator is   *)
(* one statement or one transaction, for SQLite and PostgreSQL alike.      *)
(*                                                                         *)
(* Tokens are numbers in the order in which the authorization server       *)
(* issues them.  Times are what they are compared for: `fresh` says that   *)
(* the access token is valid beyond REFRESH_LEEWAY_MS, `leased` that       *)
(* refresh_lease_until_ms lies ahead.  Error texts, plan, e-mail and quota *)
(* windows are left out.                                                   *)
(***************************************************************************)
EXTENDS Naturals

CONSTANTS
  Keys,      \* upstream_keys of one Codex provider
  Accounts,  \* account hashes
  NewKey     \* a login that does not replace a key: replace_key_id = None

Nobody  == "nobody"    \* refresh_lease_owner IS NULL
Absent  == [token |-> 0, account |-> "none", status |-> "none", owner |-> Nobody,
            leased |-> FALSE, fresh |-> FALSE]
Present(row) == row # Absent
Targets == Keys \cup {NewKey}

Statuses == {"active", "reauth_required", "forbidden"}

\* load_account: the account is there and may be used.
load_account(row, allow_forbidden) ==
  /\ Present(row)
  /\ row.status = "active" \/ (row.status = "forbidden" /\ allow_forbidden)

\* try_acquire_codex_refresh_lease: rows_affected = 1.
lease_is_free(row) == Present(row) /\ (row.owner = Nobody \/ ~row.leased)

try_acquire_codex_refresh_lease(row, owner) ==
  [row EXCEPT !.owner = owner, !.leased = TRUE]

release_codex_refresh_lease(row, owner) ==
  IF row.owner = owner THEN [row EXCEPT !.owner = Nobody, !.leased = FALSE] ELSE row

\* Mutant: the owner of the lease is not compared.
persists_for_anyone(row, owner) == Present(row)

\* persist_codex_token_refresh finds its row.
persists(row, owner) == Present(row) /\ row.owner = owner

persist_codex_token_refresh(row, token, status) ==
  [row EXCEPT !.token = token, !.status = status, !.fresh = TRUE,
              !.owner = Nobody, !.leased = FALSE]

update_codex_auth_status(row, status) ==
  IF Present(row) THEN [row EXCEPT !.status = status] ELSE row

update_codex_quota_success(row) == update_codex_auth_status(row, "active")

\* save_codex_oauth_login: the key that a login of `account` for `target`
\* writes, as a set: empty if the transaction fails.  A key that is replaced
\* has to exist, with an account or without one.
existing_keys(rows, account) == {k \in Keys : rows[k].account = account}

login_key(rows, target, account) ==
  CASE target # NewKey ->
         {k \in {target} : existing_keys(rows, account) \subseteq {k}}
    [] existing_keys(rows, account) # {} -> existing_keys(rows, account)
    [] OTHER -> {k \in Keys : ~Present(rows[k])}

\* Mutant: a login leaves the lease of a refresh that is under way.
login_row_leased(row, account, token) ==
  [token |-> token, account |-> account, status |-> "active", owner |-> row.owner,
   leased |-> row.leased, fresh |-> TRUE]

\* The row after the login: active, and no lease survives.
login_row(row, account, token) ==
  [token |-> token, account |-> account, status |-> "active", owner |-> Nobody,
   leased |-> FALSE, fresh |-> TRUE]
=============================================================================

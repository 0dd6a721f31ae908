---------------------------- MODULE CodexProofs ----------------------------
(***************************************************************************)
(* Proofs about CodexLogin for every set of keys, callers, gateways and    *)
(* sessions, any number of tokens and any number of crashes.               *)
(***************************************************************************)
EXTENDS CodexLogin, TLAPS

-----------------------------------------------------------------------------
(* What the statements do to a row.                                        *)

LEMMA KeyOfType == \A c \in Callers : KeyOf[c] \in Keys /\ Gateway[c] \in Gateways
BY CodexAssumption DEF Gateways

LEMMA OwnersDiffer ==
  Nobody # Orphan /\ \A c \in Callers : c # Nobody /\ c # Orphan
BY OwnersAssumption DEF Nobody, Orphan

LEMMA FixedRows ==
  /\ Absent \in RowState /\ Absent.owner = Nobody
  /\ \A row : \A a \in Accounts \cup {"none"}, t \in Nat :
       /\ login_row(row, a, t) \in RowState
       /\ login_row(row, a, t).owner = Nobody
BY DEF Absent, RowState, login_row, Statuses

LEMMA OrphanedRow ==
  ASSUME NEW row \in RowState, NEW dead \in SUBSET Callers
  PROVE  LET r == Orphaned(row, dead) IN
         /\ r \in RowState
         /\ r.token = row.token
         /\ r.owner \in {row.owner, Nobody, Orphan}
         /\ \A c \in dead : r.owner # c
<1>1. CASE row.owner \notin dead
  BY <1>1 DEF Orphaned
<1>2. CASE row.owner \in dead
  <2> DEFINE o == IF row.leased THEN Orphan ELSE Nobody
  <2>1. o \in {Nobody, Orphan}
    OBVIOUS
  <2>2. Orphaned(row, dead) = [row EXCEPT !.owner = o]
    BY <1>2 DEF Orphaned
  <2> HIDE DEF o
  <2>3. /\ [row EXCEPT !.owner = o] \in RowState
        /\ [row EXCEPT !.owner = o].token = row.token
        /\ [row EXCEPT !.owner = o].owner = o
    BY <2>1 DEF RowState
  <2> QED  BY <2>1, <2>2, <2>3, OwnersDiffer
<1> QED  BY <1>1, <1>2

LEMMA LeasedRow ==
  ASSUME NEW row \in RowState, NEW c \in Callers
  PROVE  LET r == try_acquire_codex_refresh_lease(row, c) IN
         r \in RowState /\ r.token = row.token /\ r.owner = c
BY DEF try_acquire_codex_refresh_lease, RowState

LEMMA ReleasedRow ==
  ASSUME NEW row \in RowState, NEW c \in Callers
  PROVE  LET r == release_codex_refresh_lease(row, c) IN
         /\ r \in RowState /\ r.token = row.token
         /\ r.owner \in {row.owner, Nobody} /\ r.owner # c
BY OwnersDiffer DEF release_codex_refresh_lease, RowState

LEMMA MarkedRow ==
  ASSUME NEW row \in RowState, NEW st \in Statuses \cup {"none"}
  PROVE  LET r == update_codex_auth_status(row, st) IN
         r \in RowState /\ r.token = row.token /\ r.owner = row.owner
BY DEF update_codex_auth_status, RowState

LEMMA PersistedRow ==
  ASSUME NEW row \in RowState, NEW t \in Nat, NEW st \in Statuses \cup {"none"}
  PROVE  LET r == persist_codex_token_refresh(row, t, st) IN
         r \in RowState /\ r.owner = Nobody
BY DEF persist_codex_token_refresh, RowState

-----------------------------------------------------------------------------
(* One step of a caller.                                                   *)

Leasing == {"refresh", "persist", "release"}

\* Between gateways: the step writes at most this caller's row and state; no
\* other call gets a lease by it, or keeps one on other credentials; and the
\* caller itself owns one only on the credentials it has noted.
Effect(c, r, x) ==
  /\ rows' = [rows EXCEPT ![KeyOf[c]] = r]
  /\ caller' = [caller EXCEPT ![c] = x]
  /\ r \in RowState
  /\ x \in CallerState /\ (x.pc = "mark" => x.verdict \in Statuses)
  /\ \A d \in Callers : d # c /\ r.owner = d => Row(c).owner = d /\ r.token = Row(c).token
  /\ r.owner = c => x.pc \in Leasing /\ r.token = x.base

CallerOps == {"request", "quota", "models", "none"}

LEMMA IdleStates ==
  /\ Idle \in CallerState /\ Idle.pc = "idle"
  /\ \A p \in {"lock", "use", "reload"}, o \in CallerOps, f \in BOOLEAN :
       /\ [Idle EXCEPT !.pc = p, !.op = o] \in CallerState
       /\ [Idle EXCEPT !.pc = p, !.op = o].pc = p
       /\ [Idle EXCEPT !.pc = p, !.op = o, !.force = f] \in CallerState
       /\ [Idle EXCEPT !.pc = p, !.op = o, !.force = f].pc = p
  /\ [Idle EXCEPT !.pc = "condemn"] \in CallerState
  /\ [Idle EXCEPT !.pc = "condemn"].pc = "condemn"
  /\ \A v \in {"reauth_required", "forbidden"} :
       /\ [Idle EXCEPT !.pc = "mark", !.verdict = v] \in CallerState
       /\ [Idle EXCEPT !.pc = "mark", !.verdict = v].verdict = v
<1>1. Idle \in CallerState /\ Idle.pc = "idle"
  BY DEF Idle, CallerState, Statuses
<1>2. ASSUME NEW p \in {"lock", "use", "reload"}, NEW o \in CallerOps, NEW f \in BOOLEAN
      PROVE  /\ [Idle EXCEPT !.pc = p, !.op = o] \in CallerState
             /\ [Idle EXCEPT !.pc = p, !.op = o].pc = p
             /\ [Idle EXCEPT !.pc = p, !.op = o, !.force = f] \in CallerState
             /\ [Idle EXCEPT !.pc = p, !.op = o, !.force = f].pc = p
  BY <1>1 DEF CallerState, CallerOps
<1>3. /\ [Idle EXCEPT !.pc = "condemn"] \in CallerState
      /\ [Idle EXCEPT !.pc = "condemn"].pc = "condemn"
  BY <1>1 DEF CallerState
<1>4. ASSUME NEW v \in {"reauth_required", "forbidden"}
      PROVE  /\ [Idle EXCEPT !.pc = "mark", !.verdict = v] \in CallerState
             /\ [Idle EXCEPT !.pc = "mark", !.verdict = v].verdict = v
  BY <1>1 DEF CallerState
<1> QED  BY <1>1, <1>2, <1>3, <1>4

LEMMA IdleWith ==
  ASSUME NEW o \in CallerOps, NEW f \in BOOLEAN
  PROVE  LET x == [Idle EXCEPT !.pc = "reload", !.op = o, !.force = f]
         IN  x \in CallerState /\ x.pc = "reload"
BY DEF Idle, CallerState, CallerOps, Statuses

LEMMA GoState ==
  ASSUME AuthTypeOK, NEW c \in Callers,
         NEW p \in {"lock", "load", "lease", "retry", "wait", "refresh", "release", "persist",
                    "quota"}
  PROVE  Go(c, p) \in CallerState /\ Go(c, p).pc = p /\ Go(c, p).base = caller[c].base
BY DEF AuthTypeOK, Go, CallerState

\* The caller keeps its row, and owns no lease before or after.
LEMMA RowKept ==
  ASSUME AuthTypeOK, LeaseInv, NEW c \in Callers, NEW x \in CallerState,
         rows' = rows, Become(c, x), caller[c].pc \notin Leasing,
         x.pc = "mark" => x.verdict \in Statuses
  PROVE  Effect(c, Row(c), x)
BY KeyOfType DEF AuthTypeOK, LeaseInv, Effect, Become, Row, Leasing

\* The caller writes a row that it does not own.
LEMMA RowWritten ==
  ASSUME AuthTypeOK, NEW c \in Callers, NEW x \in CallerState, NEW r \in RowState,
         Write(c, r), Become(c, x), x.pc # "mark", r.owner # c,
         r.owner \in {Nobody, Orphan} \/ (r.owner = Row(c).owner /\ r.token = Row(c).token)
  PROVE  Effect(c, r, x)
BY OwnersDiffer DEF Effect, Become, Write

LEMMA RefusedEffect ==
  ASSUME AuthTypeOK, NEW c \in Callers, NEW x \in CallerState, Become(c, x), x.pc # "mark",
         Write(c, Orphaned(Row(c), {c}))
  PROVE  \E r, y : Effect(c, r, y)
<1> DEFINE r == Orphaned(Row(c), {c})
<1>1. Row(c) \in RowState
  BY KeyOfType DEF AuthTypeOK, Row
<1>2. /\ r \in RowState /\ r.token = Row(c).token
      /\ r.owner \in {Row(c).owner, Nobody, Orphan} /\ r.owner # c
  BY <1>1, OrphanedRow
<1> HIDE DEF r
<1> QED  BY <1>2, RowWritten DEF r

LEMMA CallerEffect ==
  ASSUME AuthTypeOK, LeaseInv, NEW c \in Callers,
         CallerStep(c) \/ \E op \in Ops : Call(c, op)
  PROVE  \E r, x : Effect(c, r, x)
<1>0. caller[c] \in CallerState /\ Row(c) \in RowState /\ Idle \in CallerState
      /\ Idle.pc = "idle" /\ caller[c].op \in CallerOps /\ caller[c].force \in BOOLEAN
  <2>1. caller[c] \in CallerState /\ Row(c) \in RowState
    BY KeyOfType DEF AuthTypeOK, Row
  <2>2. caller[c].op \in CallerOps /\ caller[c].force \in BOOLEAN
    BY <2>1 DEF CallerState, CallerOps
  <2> QED  BY <2>1, <2>2, IdleStates
<1>1. ASSUME Refused(c) PROVE \E r, x : Effect(c, r, x)
  BY <1>0, <1>1, RefusedEffect DEF Refused
<1>2. ASSUME Prepared(c), caller[c].pc \notin Leasing PROVE \E r, x : Effect(c, r, x)
  BY <1>0, <1>2, RowKept, IdleStates DEF Prepared
<1>3. ASSUME NEW op \in Ops, Call(c, op) PROVE \E r, x : Effect(c, r, x)
  <2>1. /\ [Idle EXCEPT !.pc = "lock", !.op = op] \in CallerState
        /\ [Idle EXCEPT !.pc = "lock", !.op = op].pc = "lock"
    <3>1. op \in CallerOps /\ TRUE \in BOOLEAN
      BY CodexAssumption DEF CallerOps
    <3> QED  BY <3>1, IdleStates
  <2> QED  BY <1>3, <2>1, RowKept DEF Call, At, Leasing
<1>4. CASE refresh_lock(c)
  BY <1>4, GoState, RowKept DEF refresh_lock, At, Leasing
<1>5. CASE Load(c)
  <2>1. caller[c].pc \notin Leasing
    BY <1>5 DEF Load, At, Leasing
  <2> DEFINE y == Go(c, "lease")
             x == [y EXCEPT !.token = Row(c).token, !.status = Row(c).status]
  <2>2. y \in CallerState /\ y.pc = "lease"
    BY GoState
  <2> HIDE DEF y
  <2>3. x \in CallerState /\ x.pc = "lease"
    BY <1>0, <2>2 DEF CallerState, RowState
  <2>4. ASSUME Become(c, x), rows' = rows PROVE \E r, z : Effect(c, r, z)
    BY <2>1, <2>3, <2>4, RowKept
  <2> QED  BY <1>1, <1>2, <1>5, <2>1, <2>4 DEF Load, y
<1>6. CASE AcquireLease(c)
  <2> DEFINE r == try_acquire_codex_refresh_lease(Row(c), c)
             y == Go(c, "refresh")
             x == [y EXCEPT !.base = Row(c).token, !.waits = 0]
  <2>1. r \in RowState /\ r.token = Row(c).token /\ r.owner = c
    BY <1>0, LeasedRow
  <2>2. x \in CallerState /\ x.pc = "refresh" /\ x.base = Row(c).token
    <3>1. y \in CallerState /\ y.pc = "refresh"
      BY GoState
    <3> HIDE DEF y
    <3> QED  BY <1>0, <3>1 DEF CallerState, RowState
  <2>3. Write(c, r) /\ Become(c, x)
    BY <1>6 DEF AcquireLease
  <2> HIDE DEF r, x
  <2>4. Effect(c, r, x)
    BY <2>1, <2>2, <2>3 DEF Effect, Write, Become, Leasing
  <2> QED  BY <2>4
<1>7. CASE LeaseHeld(c)
  <2> DEFINE n == IF At(c, "lease") THEN WaitAttempts ELSE caller[c].waits
             x == [Go(c, "wait") EXCEPT !.waits = n]
  <2>1. n \in Nat
    BY <1>0, CodexAssumption DEF CallerState
  <2>2. Go(c, "wait").waits = caller[c].waits
    BY <1>0 DEF Go, CallerState
  <2>3. Become(c, x)
    BY <1>7, <2>2 DEF LeaseHeld
  <2> HIDE DEF n
  <2>4. x \in CallerState /\ x.pc = "wait"
    BY <2>1, GoState DEF CallerState
  <2> QED  BY <1>7, <2>3, <2>4, RowKept DEF LeaseHeld, At, Leasing
<1>8. CASE WaitRound(c)
  <2> DEFINE p == IF lease_is_free(Row(c)) THEN "retry" ELSE "wait"
             n == caller[c].waits - 1
             x == [caller[c] EXCEPT !.pc = p, !.waits = n, !.token = Row(c).token,
                                    !.status = Row(c).status]
  <2>1. caller[c].pc \notin Leasing /\ n \in Nat /\ p \in {"retry", "wait"}
    BY <1>0, <1>8 DEF WaitRound, At, Leasing, CallerState
  <2>2. x \in CallerState /\ x.pc # "mark"
    <3> HIDE DEF n, p
    <3> QED  BY <1>0, <2>1, ZenonT(60) DEF CallerState, RowState
  <2>3. ASSUME Become(c, x), rows' = rows PROVE \E r, y : Effect(c, r, y)
    BY <2>1, <2>2, <2>3, RowKept
  <2> QED  BY <1>1, <1>2, <1>8, <2>1, <2>3 DEF WaitRound
<1>9. CASE WaitOver(c)
  BY <1>1, <1>9 DEF WaitOver
<1>10. CASE refresh_tokens(c)
  <2>1. PICK p \in {"persist", "release"}, n \in Nat,
             v \in {"none", "temporary", "reauth_required", "forbidden"} :
          caller' = [caller EXCEPT ![c] =
                       [caller[c] EXCEPT !.pc = p, !.new = n, !.verdict = v, !.token = 0]]
    <3> DEFINE X(p, n, v) == [caller[c] EXCEPT !.pc = p, !.new = n, !.verdict = v, !.token = 0]
               V == {"none", "temporary", "reauth_required", "forbidden"}
    <3>1. /\ caller[c].new \in Nat /\ caller[c].verdict \in V
          /\ good \subseteq Nat /\ issued \in Nat /\ (issued' = issued + 1 => issued' \in Nat)
      BY <1>0 DEF AuthTypeOK, CallerState
    <3>2. \A n : [Go(c, "persist") EXCEPT !.new = n, !.token = 0] =
                   X("persist", n, caller[c].verdict)
      BY <1>0 DEF Go, CallerState
    <3>3. \A v : [Go(c, "release") EXCEPT !.verdict = v, !.token = 0] =
                   X("release", caller[c].new, v)
      BY <1>0 DEF Go, CallerState
    <3> HIDE DEF X
    <3>4. \/ \E n \in Nat : Become(c, X("persist", n, caller[c].verdict))
          \/ \E v \in V : Become(c, X("release", caller[c].new, v))
      <4> DEFINE P(n) == [Go(c, "persist") EXCEPT !.new = n, !.token = 0]
                 R(v) == [Go(c, "release") EXCEPT !.verdict = v, !.token = 0]
      <4>1. \/ issued' = issued + 1 /\ Become(c, P(issued'))
            \/ caller[c].token \in good /\ Become(c, P(caller[c].token))
            \/ Become(c, R("temporary")) \/ Become(c, R("reauth_required"))
        BY <1>10 DEF refresh_tokens
      <4>2. /\ \A n : P(n) = X("persist", n, caller[c].verdict)
            /\ \A v : R(v) = X("release", caller[c].new, v)
        BY <3>2, <3>3
      <4> HIDE DEF P, R
      <4> QED  BY <3>1, <4>1, <4>2
    <3>5. \E p \in {"persist", "release"}, n \in Nat, v \in V : Become(c, X(p, n, v))
      BY <3>1, <3>4
    <3> QED  BY <3>5 DEF Become, X
  <2> DEFINE x == [caller[c] EXCEPT !.pc = p, !.new = n, !.verdict = v, !.token = 0]
  <2>2. x \in CallerState /\ x.pc \in Leasing /\ x.pc # "mark" /\ x.base = caller[c].base
    BY <1>0 DEF CallerState, Leasing
  <2>3. rows' = rows /\ caller[c].pc \in Leasing
    BY <1>10 DEF refresh_tokens, At, Leasing
  <2> HIDE DEF x
  <2>4. Effect(c, Row(c), x)
    BY <1>0, <2>1, <2>2, <2>3, KeyOfType DEF Effect, Row, AuthTypeOK, LeaseInv, x
  <2> QED  BY <2>4
<1>11. CASE GarbledIdToken(c)
  BY <1>0, <1>11, RefusedEffect DEF GarbledIdToken
<1>12. CASE ReleaseLease(c)
  <2>1. PICK x \in CallerState : Become(c, x) /\ x.pc # "mark"
    BY <1>0, <1>12, IdleStates DEF ReleaseLease
  <2>2. CASE Write(c, Orphaned(Row(c), {c}))
    BY <2>1, <2>2, RefusedEffect
  <2>3. CASE Write(c, release_codex_refresh_lease(Row(c), c))
    BY <1>0, <2>1, <2>3, ReleasedRow, RowWritten
  <2> QED  BY <1>12, <2>2, <2>3 DEF ReleaseLease
<1>13. ASSUME NEW st \in Statuses \cup {"none"}, Write(c, update_codex_auth_status(Row(c), st)),
              Become(c, Idle), caller[c].pc \notin Leasing
       PROVE  \E r, x : Effect(c, r, x)
  <2>1. Row(c).owner # c
    BY <1>13 DEF LeaseInv, Leasing
  <2> QED  BY <1>0, <1>13, <2>1, MarkedRow, RowWritten
<1>14. CASE Condemn(c)
  BY <1>13, <1>14 DEF Condemn, At, Leasing, Statuses
<1>15. CASE Persist(c)
  <2>1. CASE Write(c, persist_codex_token_refresh(Row(c), caller[c].new, caller[c].status))
             /\ Become(c, [Idle EXCEPT !.pc = "reload", !.op = caller[c].op,
                                       !.force = caller[c].force])
    <3>1. caller[c].new \in Nat /\ caller[c].status \in Statuses \cup {"none"}
      BY <1>0 DEF CallerState
    <3> DEFINE r == persist_codex_token_refresh(Row(c), caller[c].new, caller[c].status)
               x == [Idle EXCEPT !.pc = "reload", !.op = caller[c].op, !.force = caller[c].force]
    <3>2. r \in RowState /\ r.owner = Nobody
      BY <1>0, <3>1, PersistedRow
    <3>3. x \in CallerState /\ x.pc = "reload"
      <4>1. caller[c].op \in CallerOps /\ caller[c].force \in BOOLEAN
        BY <1>0 DEF CallerState, CallerOps
      <4> QED  BY <4>1, IdleWith
    <3>4. Write(c, r) /\ Become(c, x)
      BY <2>1
    <3> HIDE DEF r, x
    <3> QED  BY <3>2, <3>3, <3>4, RowWritten, OwnersDiffer
  <2> QED  BY <1>1, <1>15, <2>1 DEF Persist
<1>16. CASE Reload(c)
  BY <1>1, <1>2, <1>16 DEF Reload, At, Leasing
<1>17. CASE Use(c)
  <2> DEFINE y == Go(c, "lock")
             q == Go(c, "quota")
  <2>1. [y EXCEPT !.force = TRUE] \in CallerState /\ [y EXCEPT !.force = TRUE].pc = "lock"
    <3>1. y \in CallerState /\ y.pc = "lock"
      BY GoState
    <3> HIDE DEF y
    <3> QED  BY <3>1 DEF CallerState
  <2>2. q \in CallerState /\ q.pc = "quota"
    BY GoState
  <2>3. \A v \in {"reauth_required", "forbidden"} :
          /\ [Idle EXCEPT !.pc = "mark", !.verdict = v] \in CallerState
          /\ [Idle EXCEPT !.pc = "mark", !.verdict = v].verdict \in Statuses
    BY IdleStates DEF Statuses
  <2> HIDE DEF y, q
  <2>4. PICK x \in CallerState : Become(c, x) /\ (x.pc = "mark" => x.verdict \in Statuses)
    BY <1>0, <1>17, <2>1, <2>2, <2>3 DEF Use, y, q
  <2> QED  BY <1>17, <2>4, RowKept DEF Use, At, Leasing
<1>18. CASE Mark(c)
  <2>1. caller[c].verdict \in Statuses
    BY <1>18 DEF Mark, AuthTypeOK
  <2> QED  BY <1>13, <1>18, <2>1 DEF Mark, At, Leasing
<1>19. CASE QuotaSuccess(c)
  BY <1>13, <1>19 DEF QuotaSuccess, At, Leasing, Statuses, update_codex_quota_success
<1> QED  BY <1>3, <1>4, <1>5, <1>6, <1>7, <1>8, <1>9, <1>10, <1>11, <1>12, <1>14, <1>15,
            <1>16, <1>17, <1>18, <1>19 DEF CallerStep

-----------------------------------------------------------------------------
(* Type correctness.                                                       *)

LEMMA LockType ==
  ASSUME AuthTypeOK, NEW c \in Callers, CallerStep(c) \/ \E op \in Ops : Call(c, op)
  PROVE  /\ lock' \in [Gateways -> [Keys -> Callers \cup {Nobody}]]
         /\ issued' \in Nat
         /\ good' \subseteq Nat
<1>1. \/ lock' = lock
      \/ \E h \in Callers \cup {Nobody} : lock' = [lock EXCEPT ![Gateway[c]][KeyOf[c]] = h]
  BY DEF CallerStep, Call, refresh_lock, Load, AcquireLease, LeaseHeld, WaitRound, WaitOver,
         refresh_tokens, GarbledIdToken, ReleaseLease, Condemn, Persist, Reload, Use, Mark,
         QuotaSuccess, Refused, Prepared, Unlock
<1>2. \/ issued' = issued
      \/ issued' = issued + 1
  BY DEF CallerStep, Call, refresh_lock, Load, AcquireLease, LeaseHeld, WaitRound, WaitOver,
         refresh_tokens, GarbledIdToken, ReleaseLease, Condemn, Persist, Reload, Use, Mark,
         QuotaSuccess, Refused, Prepared, Unlock
<1>3. good' \subseteq good \cup {issued'}
  BY DEF CallerStep, Call, refresh_lock, Load, AcquireLease, LeaseHeld, WaitRound, WaitOver,
         refresh_tokens, GarbledIdToken, ReleaseLease, Condemn, Persist, Reload, Use, Mark,
         QuotaSuccess, Refused, Prepared, Unlock
<1>4. lock' \in [Gateways -> [Keys -> Callers \cup {Nobody}]]
  <2>1. ASSUME NEW h \in Callers \cup {Nobody},
               lock' = [lock EXCEPT ![Gateway[c]][KeyOf[c]] = h]
        PROVE  lock' \in [Gateways -> [Keys -> Callers \cup {Nobody}]]
    <3> DEFINE m == [lock[Gateway[c]] EXCEPT ![KeyOf[c]] = h]
    <3>1. lock' = [lock EXCEPT ![Gateway[c]] = m]
      BY <2>1
    <3>2. m \in [Keys -> Callers \cup {Nobody}]
      BY KeyOfType DEF AuthTypeOK
    <3> HIDE DEF m
    <3> QED  BY <3>1, <3>2, KeyOfType DEF AuthTypeOK
  <2> QED  BY <1>1, <2>1 DEF AuthTypeOK
<1>5. issued' \in Nat
  BY <1>2 DEF AuthTypeOK
<1> QED  BY <1>3, <1>4, <1>5 DEF AuthTypeOK

\* The credentials' half of the type invariant and the lease invariant, under
\* a step of a caller.
LEMMA CallerPreserves ==
  ASSUME AuthTypeOK, LeaseInv, NEW c \in Callers,
         CallerStep(c) \/ \E op \in Ops : Call(c, op)
  PROVE  AuthTypeOK' /\ LeaseInv'
<1>1. PICK r, x : Effect(c, r, x)
  BY CallerEffect
<1>2. /\ rows' = [rows EXCEPT ![KeyOf[c]] = r] /\ caller' = [caller EXCEPT ![c] = x]
      /\ r \in RowState /\ x \in CallerState /\ (x.pc = "mark" => x.verdict \in Statuses)
  BY <1>1 DEF Effect
<1>3. /\ caller'[c] = x /\ \A d \in Callers : d # c => caller'[d] = caller[d]
      /\ rows'[KeyOf[c]] = r /\ \A k \in Keys : k # KeyOf[c] => rows'[k] = rows[k]
  BY <1>2, KeyOfType DEF AuthTypeOK
<1>4. AuthTypeOK'
  <2>1. rows' \in [Keys -> RowState] /\ caller' \in [Callers -> CallerState]
    BY <1>2, KeyOfType DEF AuthTypeOK
  <2>2. \A d \in Callers : At(d, "mark")' => caller'[d].verdict \in Statuses
    BY <1>2, <1>3 DEF AuthTypeOK, At
  <2> QED  BY <2>1, <2>2, LockType DEF AuthTypeOK
<1>5. LeaseInv'
  <2> SUFFICES ASSUME NEW d \in Callers, rows'[KeyOf[d]].owner = d
               PROVE  caller'[d].pc \in Leasing /\ rows'[KeyOf[d]].token = caller'[d].base
    BY DEF LeaseInv, Row, Leasing
  <2>1. CASE d = c
    BY <1>1, <1>3, <2>1 DEF Effect
  <2>2. CASE d # c /\ KeyOf[d] = KeyOf[c]
    <3>1. Row(d).owner = d /\ r.token = Row(d).token
      BY <1>1, <1>3, <2>2 DEF Effect, Row
    <3> QED  BY <1>3, <2>2, <3>1 DEF LeaseInv, Leasing
  <2>3. CASE d # c /\ KeyOf[d] # KeyOf[c]
    BY <1>3, <2>3, KeyOfType DEF LeaseInv, Row, Leasing
  <2> QED  BY <2>1, <2>2, <2>3
<1> QED  BY <1>4, <1>5

\* A step of time, a login or a crash: rows change, callers only fall idle.
LEMMA RowsPreserve ==
  ASSUME AuthTypeOK, LeaseInv,
         rows' \in [Keys -> RowState], caller' \in [Callers -> CallerState],
         \A c \in Callers : caller'[c] \in {caller[c], Idle},
         \A c \in Callers : rows'[KeyOf[c]].owner = c =>
           /\ Row(c).owner = c
           /\ rows'[KeyOf[c]].token = Row(c).token
           /\ caller'[c] = caller[c]
  PROVE  LeaseInv' /\ \A c \in Callers : At(c, "mark")' => caller'[c].verdict \in Statuses
<1>1. LeaseInv'
  BY DEF LeaseInv, Row
<1>2. \A c \in Callers : At(c, "mark")' => caller'[c].verdict \in Statuses
  <2>1. Idle.pc # "mark"
    BY DEF Idle
  <2> QED  BY <2>1 DEF AuthTypeOK, At
<1> QED  BY <1>1, <1>2

LEMMA TimePreserves ==
  ASSUME AuthTypeOK, LeaseInv, NEW k \in Keys, AccessTokenAges(k) \/ LeaseExpires(k)
  PROVE  AuthTypeOK' /\ LeaseInv'
<1> DEFINE o == IF rows[k].owner = Orphan THEN Nobody ELSE rows[k].owner
<1>1. PICK r \in RowState : /\ rows' = [rows EXCEPT ![k] = r]
                            /\ r.token = rows[k].token
                            /\ r.owner \in {rows[k].owner, Nobody}
  <2>1. rows[k] \in RowState /\ rows \in [Keys -> RowState]
    BY DEF AuthTypeOK
  <2>2. CASE AccessTokenAges(k)
    <3>1. rows' = [rows EXCEPT ![k] = [rows[k] EXCEPT !.fresh = FALSE]]
      BY <2>1, <2>2 DEF AccessTokenAges
    <3>2. LET r == [rows[k] EXCEPT !.fresh = FALSE]
          IN  r \in RowState /\ r.token = rows[k].token /\ r.owner = rows[k].owner
      BY <2>1 DEF RowState
    <3> QED  BY <3>1, <3>2
  <2>3. CASE LeaseExpires(k)
    <3>1. rows' = [rows EXCEPT ![k] = [rows[k] EXCEPT !.leased = FALSE, !.owner = o]]
      BY <2>1, <2>3 DEF LeaseExpires, RowState
    <3>2. o \in Callers \cup {Nobody, Orphan} /\ o \in {rows[k].owner, Nobody}
      BY <2>1 DEF RowState
    <3> HIDE DEF o
    <3>3. LET r == [rows[k] EXCEPT !.leased = FALSE, !.owner = o]
          IN  r \in RowState /\ r.token = rows[k].token /\ r.owner = o
      BY <2>1, <3>2 DEF RowState
    <3> QED  BY <3>1, <3>2, <3>3
  <2> QED  BY <2>2, <2>3
<1>2. UNCHANGED <<good, issued, caller, lock>>
  BY DEF AccessTokenAges, LeaseExpires
<1>3. rows' \in [Keys -> RowState] /\ caller' \in [Callers -> CallerState]
  BY <1>1, <1>2 DEF AuthTypeOK
<1>4. \A c \in Callers : rows'[KeyOf[c]].owner = c =>
        Row(c).owner = c /\ rows'[KeyOf[c]].token = Row(c).token
  BY <1>1, KeyOfType, OwnersDiffer DEF AuthTypeOK, Row
<1> QED  BY <1>2, <1>3, <1>4, RowsPreserve DEF AuthTypeOK

LEMMA CrashPreserves ==
  ASSUME AuthTypeOK, LeaseInv, NEW g, LoseCallers(g)
  PROVE  AuthTypeOK' /\ LeaseInv'
<1> DEFINE dead == {c \in Callers : Gateway[c] = g}
<1>1. /\ caller' = [c \in Callers |-> IF c \in dead THEN Idle ELSE caller[c]]
      /\ lock' = [h \in Gateways |-> IF h = g THEN [k \in Keys |-> Nobody] ELSE lock[h]]
      /\ rows' = [k \in Keys |-> Orphaned(rows[k], dead)]
      /\ UNCHANGED <<good, issued>>
  BY DEF LoseCallers
<1>2. dead \in SUBSET Callers
  OBVIOUS
<1> HIDE DEF dead
<1>3. \A k \in Keys : /\ rows'[k] \in RowState
                      /\ rows'[k].token = rows[k].token
                      /\ rows'[k].owner \in {rows[k].owner, Nobody, Orphan}
                      /\ \A c \in dead : rows'[k].owner # c
  BY <1>1, <1>2, OrphanedRow DEF AuthTypeOK
<1>4. rows' \in [Keys -> RowState]
  BY <1>1, <1>3
<1>5. caller' \in [Callers -> CallerState]
  BY <1>1, IdleStates DEF AuthTypeOK
<1>6. lock' \in [Gateways -> [Keys -> Callers \cup {Nobody}]]
  BY <1>1 DEF AuthTypeOK
<1>7. \A c \in Callers : rows'[KeyOf[c]].owner = c =>
        /\ Row(c).owner = c
        /\ rows'[KeyOf[c]].token = Row(c).token
        /\ caller'[c] = caller[c]
  BY <1>1, <1>3, KeyOfType, OwnersDiffer DEF Row
<1>8. \A c \in Callers : caller'[c] \in {caller[c], Idle}
  BY <1>1
<1> QED  BY <1>1, <1>4, <1>5, <1>6, <1>7, <1>8, RowsPreserve DEF AuthTypeOK

\* A login writes its row without a lease.
LEMMA LoginPreserves ==
  ASSUME TypeOK, LeaseInv, NEW s \in Sessions, NEW t \in Targets, SaveLogin(s, t)
  PROVE  AuthTypeOK' /\ LeaseInv'
<1>0. AuthTypeOK /\ UNCHANGED <<good, issued, caller, lock>>
  BY DEF TypeOK, SaveLogin
<1>1. CASE rows' = rows
  BY <1>0, <1>1 DEF AuthTypeOK, LeaseInv, Row, At
<1>2. CASE \E k \in login_key(rows, t, account[s].id) :
             rows' = [rows EXCEPT ![k] = login_row(@, account[s].id, account[s].token)]
  <2>1. PICK k \in login_key(rows, t, account[s].id) :
          rows' = [rows EXCEPT ![k] = login_row(rows[k], account[s].id, account[s].token)]
    BY <1>2
  <2>2. k \in Keys
    BY <2>1 DEF login_key, existing_keys, Targets
  <2> DEFINE r == login_row(rows[k], account[s].id, account[s].token)
  <2>3. account[s].id \in Accounts \cup {"none"} /\ account[s].token \in Nat
    BY DEF TypeOK
  <2>4. r \in RowState /\ r.owner = Nobody
    BY <2>3, FixedRows
  <2> HIDE DEF r
  <2>5. rows' = [rows EXCEPT ![k] = r]
    BY <2>1 DEF r
  <2>6. rows' \in [Keys -> RowState] /\ caller' \in [Callers -> CallerState]
    BY <1>0, <2>2, <2>4, <2>5 DEF AuthTypeOK
  <2>7. \A c \in Callers : rows'[KeyOf[c]].owner = c =>
          Row(c).owner = c /\ rows'[KeyOf[c]].token = Row(c).token
    BY <1>0, <2>2, <2>4, <2>5, KeyOfType, OwnersDiffer DEF AuthTypeOK, Row
  <2> QED  BY <1>0, <2>6, <2>7, RowsPreserve DEF AuthTypeOK
<1> QED  BY <1>1, <1>2 DEF SaveLogin

-----------------------------------------------------------------------------
(* What the sessions' operations do to a record.                           *)

RunnerStates == {"none", "poll", "polling", "exchange", "gate", "save", "saved", "finalize"}

LEMMA FixedSessions ==
  /\ None \in SessionState /\ None.status = "none"
  /\ \A st \in {"ended", "cancelled"} :
       Finished(st) \in SessionState /\ Finished(st).status = st
<1>1. None \in SessionState /\ None.status = "none"
  BY DEF None, SessionState, Targets
<1>2. ASSUME NEW st \in {"ended", "cancelled"}
      PROVE  Finished(st) \in SessionState /\ Finished(st).status = st
  BY <1>1 DEF Finished, SessionState
<1> QED  BY <1>1, <1>2

LEMMA StartedSession ==
  ASSUME NEW t \in Targets, NEW f \in {"device", "browser"}
  PROVE  LET r == [None EXCEPT !.status = "starting", !.target = t, !.flow = f]
         IN  r \in SessionState /\ r.status = "starting"
BY FixedSessions DEF SessionState

LEMMA StagedSession ==
  ASSUME NEW r \in SessionState, NEW g \in {"exchanging", "finalizing"}
  PROVE  LET y == [r EXCEPT !.stage = g]
         IN  /\ y \in SessionState /\ y.status = r.status /\ y.stage = g
             /\ y.flow = r.flow /\ y.claimed = r.claimed
BY DEF SessionState

LEMMA ClaimedSession ==
  ASSUME NEW r \in SessionState
  PROVE  LET y == [r EXCEPT !.stage = "exchanging", !.claimed = TRUE]
         IN  y \in SessionState /\ y.status = r.status /\ y.claimed
BY DEF SessionState

LEMMA InsertedSession ==
  ASSUME NEW r \in SessionState
  PROVE  LET y == [r EXCEPT !.status = "pending", !.stage = "waiting_for_user"]
         IN  y \in SessionState /\ y.status = "pending" /\ y.flow = r.flow
BY DEF SessionState

LEMMA ExpiredSession ==
  ASSUME NEW r \in SessionState
  PROVE  LET y == [r EXCEPT !.expired = TRUE]
         IN  /\ y \in SessionState /\ y.status = r.status /\ y.stage = r.stage
             /\ y.flow = r.flow /\ y.claimed = r.claimed
BY DEF SessionState

-----------------------------------------------------------------------------
(* One step on a session.                                                  *)

LEMMA Pruned ==
  ASSUME TypeOK, NEW due \in SUBSET Sessions
  PROVE  /\ prune_sessions(due) \in [Sessions -> SessionState]
         /\ \A t \in Sessions : prune_sessions(due)[t] \in {session[t], None}
BY FixedSessions DEF TypeOK, prune_sessions

\* The step changes session s, and drops others at most.
Touches(s, y, q, h) ==
  /\ session' \in [Sessions -> SessionState]
  /\ session'[s] = y
  /\ \A t \in Sessions : t # s => session'[t] \in {session[t], None}
  /\ runner' = [runner EXCEPT ![s] = q]
  /\ gate' = [gate EXCEPT ![s] = h]
  /\ saved' \subseteq saved \cup {s}
  /\ q \in RunnerStates /\ h \in BOOLEAN

LEMMA TouchPruning ==
  ASSUME TypeOK, NEW s \in Sessions, NEW due \in SUBSET Sessions, NEW y \in SessionState,
         NEW q \in RunnerStates,
         session' = [prune_sessions(due) EXCEPT ![s] = y],
         runner' = [runner EXCEPT ![s] = q], gate' = gate, saved' \subseteq saved
  PROVE  Touches(s, y, q, gate[s])
<1> DEFINE p == prune_sessions(due)
<1>1. p \in [Sessions -> SessionState] /\ \A t \in Sessions : p[t] \in {session[t], None}
  BY Pruned
<1> HIDE DEF p
<1>2. session' = [p EXCEPT ![s] = y]
  BY DEF p
<1>3. session' \in [Sessions -> SessionState] /\ session'[s] = y
  BY <1>1, <1>2
<1>4. \A t \in Sessions : t # s => session'[t] \in {session[t], None}
  BY <1>1, <1>2
<1>5. gate' = [gate EXCEPT ![s] = gate[s]] /\ gate[s] \in BOOLEAN
  BY DEF TypeOK
<1> QED  BY <1>3, <1>4, <1>5 DEF Touches

LEMMA TouchAlone ==
  ASSUME TypeOK, NEW s \in Sessions, NEW y \in SessionState,
         NEW q \in RunnerStates, NEW h \in BOOLEAN,
         session' = [session EXCEPT ![s] = y],
         runner' = [runner EXCEPT ![s] = q], gate' = [gate EXCEPT ![s] = h],
         saved' \subseteq saved \cup {s}
  PROVE  Touches(s, y, q, h)
<1>1. session' \in [Sessions -> SessionState] /\ session'[s] = y
  BY DEF TypeOK
<1>2. \A t \in Sessions : t # s => session'[t] \in {session[t], None}
  BY DEF TypeOK
<1> QED  BY <1>1, <1>2 DEF Touches

LEMMA TouchUngated ==
  ASSUME TypeOK, NEW s \in Sessions, NEW y \in SessionState, NEW q \in RunnerStates,
         session' = [session EXCEPT ![s] = y], runner' = [runner EXCEPT ![s] = q],
         gate' = gate, saved' = saved
  PROVE  Touches(s, y, q, gate[s])
<1>1. gate' = [gate EXCEPT ![s] = gate[s]] /\ gate[s] \in BOOLEAN
  BY DEF TypeOK
<1> QED  BY <1>1, TouchAlone

\* What SaveInv says of one session.
SaveAt(y, q, h, done) ==
  /\ q \in {"save", "saved"} => h
  /\ q = "save" => y.status \in {"none", "pending"}
  /\ y.status = "starting" => q = "none" /\ ~done
  /\ Pending(y) /\ y.flow = "browser" /\ ~y.claimed => q = "none"
  /\ done /\ Pending(y) => q = "saved" \/ (q = "finalize" /\ y.stage = "finalizing")
  /\ done => y.status # "cancelled"

LEMMA SaveInvAt ==
  ASSUME SaveInv, NEW s \in Sessions
  PROVE  SaveAt(session[s], runner[s], gate[s], s \in saved)
BY DEF SaveInv, SaveAt

LEMMA TouchSaves ==
  ASSUME TypeOK, SaveInv, NEW s \in Sessions, NEW y, NEW q, NEW h,
         Touches(s, y, q, h), SaveAt(y, q, h, s \in saved')
  PROVE  SaveInv' /\ session' \in [Sessions -> SessionState] /\ runner' \in [Sessions -> RunnerStates]
         /\ gate' \in [Sessions -> BOOLEAN] /\ saved' \subseteq Sessions
<1>1. /\ session' \in [Sessions -> SessionState] /\ runner' \in [Sessions -> RunnerStates]
      /\ gate' \in [Sessions -> BOOLEAN] /\ saved' \subseteq Sessions
  BY DEF Touches, TypeOK, RunnerStates
<1>2. ASSUME NEW t \in Sessions
      PROVE  SaveAt(session'[t], runner'[t], gate'[t], t \in saved')
  <2>1. CASE t = s
    BY <2>1 DEF Touches, TypeOK, RunnerStates
  <2>2. CASE t # s
    <3>1. /\ runner'[t] = runner[t] /\ gate'[t] = gate[t]
          /\ session'[t] \in {session[t], None} /\ (t \in saved' => t \in saved)
      BY <2>2 DEF Touches, TypeOK
    <3>2. SaveAt(session[t], runner[t], gate[t], t \in saved)
      BY SaveInvAt
    <3> QED  BY <3>1, <3>2, FixedSessions DEF SaveAt, Pending
  <2> QED  BY <2>1, <2>2
<1>3. SaveInv'
  BY <1>2 DEF SaveInv, SaveAt
<1> QED  BY <1>1, <1>3

\* A step of session s is one that SaveTouch allows: the record, the runner and
\* the gate after it agree with SaveInv.
SaveTouch(s) == \E y, q, h : Touches(s, y, q, h) /\ SaveAt(y, q, h, s \in saved')

LEMMA Facts ==
  ASSUME TypeOK, SaveInv, NEW s \in Sessions
  PROVE  /\ session[s] \in SessionState /\ runner[s] \in RunnerStates /\ gate[s] \in BOOLEAN
         /\ session = [session EXCEPT ![s] = session[s]]
         /\ runner = [runner EXCEPT ![s] = runner[s]]
         /\ gate = [gate EXCEPT ![s] = gate[s]]
         /\ SaveAt(session[s], runner[s], gate[s], s \in saved)
<1>1. SaveAt(session[s], runner[s], gate[s], s \in saved)
  BY SaveInvAt
<1> QED  BY <1>1 DEF TypeOK, RunnerStates

LEMMA PrunableSessions == prunable \subseteq Sessions
BY DEF prunable

\* get, cancel and callback find the gate free, so nothing is being saved; and
\* what was saved and still is pending is finalizing.
LEMMA AdminSaves ==
  ASSUME TypeOK, SaveInv, NEW s \in Sessions, Admin(s)
  PROVE  SaveTouch(s)
<1> USE Facts
<1>1. ASSUME NEW due \in SUBSET prunable, NEW target \in Targets,
             NEW flow \in {"device", "browser"}, StartSession(s, target, flow, due)
      PROVE  SaveTouch(s)
  <2> DEFINE y == [None EXCEPT !.status = "starting", !.target = target, !.flow = flow]
  <2>1. y \in SessionState /\ y.status = "starting"
    BY StartedSession
  <2>2. /\ session' = [prune_sessions(due) EXCEPT ![s] = y] /\ s \notin saved'
        /\ runner[s] = "none" /\ runner' = runner /\ gate' = gate /\ saved' \subseteq saved
    BY <1>1 DEF StartSession, Forget
  <2> HIDE DEF y
  <2>3. Touches(s, y, runner[s], gate[s])
    BY <2>1, <2>2, TouchPruning, PrunableSessions
  <2>4. SaveAt(y, runner[s], gate[s], s \in saved')
    BY <2>1, <2>2 DEF SaveAt, Pending
  <2> QED  BY <2>3, <2>4 DEF SaveTouch
<1>2. ASSUME NEW due \in SUBSET prunable, NEW y \in {Finished("ended"), Finished("cancelled")},
             NEW q \in {runner[s], "exchange"}, ~gate[s],
             session' = [prune_sessions(due) EXCEPT ![s] = y],
             runner' = [runner EXCEPT ![s] = q],
             gate' = gate, saved' \subseteq saved,
             y = Finished("cancelled") => Pending(session[s]) /\ session[s].stage # "finalizing"
      PROVE  SaveTouch(s)
  <2>1. y \in SessionState /\ y.status \in {"ended", "cancelled"}
    BY <1>2, FixedSessions
  <2>2. q \in RunnerStates /\ q \notin {"save", "saved"}
    BY <1>2 DEF SaveAt, RunnerStates
  <2>3. Touches(s, y, q, gate[s])
    BY <1>2, <2>1, <2>2, TouchPruning, PrunableSessions
  <2>4. y.status = "cancelled" => s \notin saved'
    <3>1. y.status = "cancelled" => y = Finished("cancelled")
      BY <1>2, FixedSessions
    <3> QED  BY <1>2, <3>1 DEF SaveAt
  <2>5. SaveAt(y, q, gate[s], s \in saved')
    BY <2>1, <2>2, <2>4 DEF SaveAt, Pending
  <2> QED  BY <2>3, <2>5 DEF SaveTouch
<1>3. ASSUME NEW due \in SUBSET prunable,
             session' = [prune_sessions(due) EXCEPT ![s] = prune_sessions(due)[s]],
             runner' = runner, gate' = gate, saved' \subseteq saved
      PROVE  SaveTouch(s)
  <2> DEFINE y == prune_sessions(due)[s]
  <2>1. y \in SessionState /\ y \in {session[s], None}
    BY Pruned, PrunableSessions
  <2>2. session' = [prune_sessions(due) EXCEPT ![s] = y]
    BY <1>3
  <2> HIDE DEF y
  <2>3. Touches(s, y, runner[s], gate[s])
    BY <1>3, <2>1, <2>2, TouchPruning, PrunableSessions
  <2>4. SaveAt(y, runner[s], gate[s], s \in saved')
    BY <1>3, <2>1, FixedSessions DEF SaveAt, Pending
  <2> QED  BY <2>3, <2>4 DEF SaveTouch
<1>4. ASSUME NEW due \in SUBSET prunable, get_session(s, due) \/ cancel_session(s, due)
      PROVE  SaveTouch(s)
  <2> DEFINE p == prune_sessions(due)
  <2>1. p \in [Sessions -> SessionState] /\ p[s] \in {session[s], None}
    BY Pruned, PrunableSessions
  <2>2. PICK y : /\ session' = [p EXCEPT ![s] = y]
                 /\ \/ y = p[s]
                    \/ Pending(p[s]) /\ p[s].stage # "finalizing" /\ y \in {Finished("ended"), Finished("cancelled")}
    BY <1>4 DEF get_session, cancel_session, CancelRecord
  <2>3. /\ ~gate[s] /\ runner' = runner /\ gate' = gate /\ saved' \subseteq saved
    BY <1>4 DEF get_session, cancel_session, Forget
  <2>4. Pending(p[s]) => p[s] = session[s]
    BY <2>1, FixedSessions DEF Pending
  <2>5. CASE y = p[s]
    BY <1>3, <2>2, <2>3, <2>5
  <2>6. CASE y # p[s]
    BY <1>2, <2>2, <2>3, <2>4, <2>6
  <2> QED  BY <2>5, <2>6
<1>5. ASSUME NEW due \in SUBSET prunable, NEW late \in BOOLEAN, NEW denied \in BOOLEAN,
             claim_browser_callback(s, due, late, denied)
      PROVE  SaveTouch(s)
  <2>0. ~gate[s] /\ Pending(session[s]) /\ session[s].flow = "browser" /\ gate' = gate
        /\ saved' \subseteq saved
    BY <1>5 DEF claim_browser_callback, Forget
  <2>1. CASE /\ session' = [prune_sessions(due) EXCEPT ![s] = Finished("ended")]
             /\ runner' = [runner EXCEPT ![s] = runner[s]]
    BY <1>2, <2>0, <2>1, FixedSessions
  <2>2. CASE /\ session' = [prune_sessions(due) EXCEPT ![s] =
                  [session[s] EXCEPT !.stage = "exchanging", !.claimed = TRUE]]
             /\ runner' = [runner EXCEPT ![s] = "exchange"]
             /\ ~session[s].claimed
    <3> DEFINE y == [session[s] EXCEPT !.stage = "exchanging", !.claimed = TRUE]
    <3>1. y \in SessionState /\ y.status = "pending" /\ y.claimed
      BY <2>0, ClaimedSession DEF Pending
    <3>2. session' = [prune_sessions(due) EXCEPT ![s] = y]
      BY <2>2
    <3> HIDE DEF y
    <3>3. Touches(s, y, "exchange", gate[s])
      BY <2>0, <2>2, <3>1, <3>2, TouchPruning, PrunableSessions DEF RunnerStates
    <3>4. s \notin saved'
      BY <2>0, <2>2 DEF SaveAt
    <3>5. SaveAt(y, "exchange", gate[s], s \in saved')
      BY <3>1, <3>4 DEF SaveAt, Pending
    <3> QED  BY <3>3, <3>5 DEF SaveTouch
  <2> QED  BY <1>5, <2>1, <2>2 DEF claim_browser_callback
<1>6. CASE InsertSession(s)
  <2> DEFINE y == [session[s] EXCEPT !.status = "pending", !.stage = "waiting_for_user"]
             q == IF session[s].flow = "device" THEN "poll" ELSE runner[s]
  <2>1. y \in SessionState /\ y.status = "pending" /\ y.flow = session[s].flow
    BY InsertedSession
  <2>2. /\ session[s].status = "starting" /\ runner[s] = "none" /\ s \notin saved
        /\ gate' = gate /\ saved' = saved /\ runner' = [runner EXCEPT ![s] = q]
    BY <1>6 DEF InsertSession, SaveAt
  <2>3. session' = [session EXCEPT ![s] = y]
    BY <1>6 DEF InsertSession, SessionState
  <2> HIDE DEF y
  <2>4. q \in {"poll", "none"} /\ (y.flow = "browser" => q = "none")
    BY <2>1, <2>2
  <2> HIDE DEF q
  <2>5. Touches(s, y, q, gate[s])
    <3>1. q \in RunnerStates
      BY <2>4 DEF RunnerStates
    <3> QED  BY <2>1, <2>2, <2>3, <3>1, TouchUngated
  <2>6. SaveAt(y, q, gate[s], s \in saved')
    BY <2>1, <2>2, <2>4 DEF SaveAt, Pending
  <2> QED  BY <2>5, <2>6 DEF SaveTouch
<1>7. CASE StartFails(s)
  <2>1. /\ session' = [session EXCEPT ![s] = None] /\ runner' = runner
        /\ gate' = gate /\ saved' = saved
    BY <1>7 DEF StartFails
  <2>2. Touches(s, None, runner[s], gate[s])
    BY <2>1, TouchUngated, FixedSessions
  <2>3. SaveAt(None, runner[s], gate[s], s \in saved')
    BY <2>1, FixedSessions DEF SaveAt, Pending
  <2> QED  BY <2>2, <2>3 DEF SaveTouch
<1>8. CASE SessionExpires(s)
  <2> DEFINE y == [session[s] EXCEPT !.expired = TRUE]
  <2>1. /\ y \in SessionState /\ y.status = session[s].status /\ y.stage = session[s].stage
        /\ y.flow = session[s].flow /\ y.claimed = session[s].claimed
    BY ExpiredSession
  <2>2. /\ session' = [session EXCEPT ![s] = y] /\ runner' = runner
        /\ gate' = gate /\ saved' = saved
    BY <1>8 DEF SessionExpires, SessionState
  <2> HIDE DEF y
  <2>3. Touches(s, y, runner[s], gate[s])
    BY <2>1, <2>2, TouchUngated
  <2>4. SaveAt(y, runner[s], gate[s], s \in saved')
    BY <2>1, <2>2 DEF SaveAt, Pending
  <2> QED  BY <2>3, <2>4 DEF SaveTouch
<1> QED  BY <1>1, <1>4, <1>5, <1>6, <1>7, <1>8 DEF Admin

\* What a runner leaves as it goes on or gives up.
LEMMA RunnerLeaves ==
  ASSUME TypeOK, SaveInv, NEW s \in Sessions, NEW q \in RunnerStates \ {"save", "saved"},
         mark_session_error(s) \/ session' = session, RunnerGoes(s, q), gate' = gate,
         saved' = saved,
         session' = session /\ Pending(session[s]) =>
           /\ runner[s] # "none"
           /\ s \in saved => runner[s] = "finalize" /\ q = "finalize",
         session[s].status # "starting"
  PROVE  SaveTouch(s)
<1> USE Facts
<1>1. ASSUME NEW y \in {session[s], Finished("ended")}, session' = [session EXCEPT ![s] = y],
             y = session[s] /\ Pending(session[s]) =>
               runner[s] # "none" /\ (s \in saved => runner[s] = "finalize" /\ q = "finalize")
      PROVE  SaveTouch(s)
  <2>1. y \in SessionState /\ q \in RunnerStates /\ RunnerGoes(s, q)
    BY <1>1, FixedSessions
  <2>2. Touches(s, y, q, gate[s])
    BY <1>1, <2>1, TouchUngated DEF RunnerGoes
  <2>3. CASE y = session[s]
    <3>1. SaveAt(y, q, gate[s], s \in saved')
      BY <1>1, <2>3 DEF SaveAt, Pending
    <3> QED  BY <2>2, <3>1 DEF SaveTouch
  <2>4. CASE y = Finished("ended")
    <3>1. SaveAt(y, q, gate[s], s \in saved')
      BY <2>4, FixedSessions DEF SaveAt, Pending
    <3> QED  BY <2>2, <3>1 DEF SaveTouch
  <2> QED  BY <2>3, <2>4
<1>2. CASE session' = session
  BY <1>1, <1>2
<1>3. CASE mark_session_error(s) /\ Pending(session[s])
  <2>1. session' = [session EXCEPT ![s] = Finished("ended")] /\ Finished("ended") # session[s]
    BY <1>3, FixedSessions DEF mark_session_error, Pending
  <2> QED  BY <1>1, <2>1
<1>4. CASE mark_session_error(s) /\ ~Pending(session[s])
  BY <1>1, <1>4 DEF mark_session_error
<1> QED  BY <1>2, <1>3, <1>4

LEMMA RunnerSaves ==
  ASSUME TypeOK, SaveInv, NEW s \in Sessions, RunnerStep(s)
  PROVE  SaveTouch(s)
<1> USE Facts
<1>0. runner[s] # "none" => session[s].status # "starting"
  BY DEF SaveAt
<1>1. CASE PollDevice(s) \/ DeviceAnswer(s)
  <2>1. /\ runner[s] \in {"poll", "polling"} /\ gate' = gate /\ saved' = saved
        /\ Pending(session[s]) => s \notin saved
    BY <1>1 DEF PollDevice, DeviceAnswer, RunnerAt, SaveAt
  <2>2. CASE \E q \in {"none", "poll", "polling"} :
               /\ RunnerGoes(s, q)
               /\ mark_session_error(s) \/ session' = session
    BY <1>0, <2>1, <2>2, RunnerLeaves DEF RunnerStates
  <2>3. CASE /\ ~session_cancelled(s)
             /\ session' = [session EXCEPT ![s].stage = "exchanging"]
             /\ RunnerGoes(s, "exchange")
    <3> DEFINE y == [session[s] EXCEPT !.stage = "exchanging"]
    <3>1. /\ y \in SessionState /\ y.status = session[s].status
          /\ y.flow = session[s].flow /\ y.claimed = session[s].claimed
      BY StagedSession
    <3>2. session' = [session EXCEPT ![s] = y]
      BY <2>3 DEF SessionState
    <3> HIDE DEF y
    <3>3. Touches(s, y, "exchange", gate[s])
      BY <2>1, <2>3, <3>1, <3>2, TouchUngated DEF RunnerStates, RunnerGoes
    <3>4. SaveAt(y, "exchange", gate[s], s \in saved')
      BY <2>1, <2>3, <3>1 DEF SaveAt, Pending, session_cancelled
    <3> QED  BY <3>3, <3>4 DEF SaveTouch
  <2> QED  BY <1>1, <2>2, <2>3 DEF PollDevice, DeviceAnswer, RunnerFails
<1>2. CASE EnterGate(s)
  <2>1. runner[s] = "gate" /\ saved' = saved /\ (Pending(session[s]) => s \notin saved)
    BY <1>2 DEF EnterGate, RunnerAt, SaveAt
  <2>2. CASE /\ RunnerGoes(s, "none") /\ gate' = gate
             /\ mark_session_error(s) \/ session' = session
    BY <1>0, <2>1, <2>2, RunnerLeaves DEF RunnerStates
  <2>3. CASE /\ RunnerGoes(s, "save") /\ gate' = [gate EXCEPT ![s] = TRUE]
             /\ session' = session /\ Pending(session[s])
    <3>1. Touches(s, session[s], "save", TRUE)
      BY <2>1, <2>3, TouchAlone DEF RunnerStates, RunnerGoes
    <3>2. SaveAt(session[s], "save", TRUE, s \in saved')
      BY <2>1, <2>3 DEF SaveAt, Pending
    <3> QED  BY <3>1, <3>2 DEF SaveTouch
  <2> QED  BY <1>2, <2>2, <2>3 DEF EnterGate, RunnerFails, session_cancelled
<1>3. CASE MarkFinalizing(s)
  <2>1. /\ runner[s] = "saved" /\ saved' = saved /\ gate' = [gate EXCEPT ![s] = FALSE]
    BY <1>3 DEF MarkFinalizing, RunnerAt
  <2>2. CASE ~Pending(session[s]) /\ RunnerGoes(s, "none") /\ session' = session
    <3>1. Touches(s, session[s], "none", FALSE)
      BY <2>1, <2>2, TouchAlone DEF RunnerStates, RunnerGoes
    <3>2. SaveAt(session[s], "none", FALSE, s \in saved')
      BY <1>0, <2>1, <2>2 DEF SaveAt
    <3> QED  BY <3>1, <3>2 DEF SaveTouch
  <2>3. CASE /\ Pending(session[s]) /\ RunnerGoes(s, "finalize")
             /\ session' = [session EXCEPT ![s].stage = "finalizing"]
    <3> DEFINE y == [session[s] EXCEPT !.stage = "finalizing"]
    <3>1. /\ y \in SessionState /\ y.status = session[s].status /\ y.stage = "finalizing"
          /\ y.flow = session[s].flow /\ y.claimed = session[s].claimed
      BY StagedSession
    <3>2. session' = [session EXCEPT ![s] = y]
      BY <2>3 DEF SessionState
    <3> HIDE DEF y
    <3>3. Touches(s, y, "finalize", FALSE)
      BY <2>1, <2>3, <3>1, <3>2, TouchAlone DEF RunnerStates, RunnerGoes
    <3>4. SaveAt(y, "finalize", FALSE, s \in saved')
      BY <2>1, <2>3, <3>1 DEF SaveAt, Pending
    <3> QED  BY <3>3, <3>4 DEF SaveTouch
  <2> QED  BY <1>3, <2>1, <2>2, <2>3 DEF MarkFinalizing, session_cancelled
<1>4. CASE Complete(s)
  <2>1. runner[s] = "finalize" /\ saved' = saved /\ gate' = gate /\ RunnerGoes(s, "none")
    BY <1>4 DEF Complete, RunnerAt
  <2>2. mark_session_error(s)
    BY <1>4 DEF Complete, mark_session_error, session_cancelled
  <2>3. session' = session => ~Pending(session[s])
    <3>1. Pending(session[s]) => session'[s] = Finished("ended")
      BY <2>2 DEF mark_session_error, TypeOK
    <3> QED  BY <3>1, FixedSessions DEF Pending
  <2> QED  BY <1>0, <2>1, <2>2, <2>3, RunnerLeaves DEF RunnerStates
<1> QED  BY <1>1, <1>2, <1>3, <1>4 DEF RunnerStep

LEMMA ExchangeSaves ==
  ASSUME TypeOK, SaveInv, NEW s \in Sessions, ExchangeCode(s)
  PROVE  SaveTouch(s)
<1> USE Facts
<1>1. /\ runner[s] = "exchange" /\ gate' = gate /\ saved' = saved
      /\ session[s].status # "starting" /\ (Pending(session[s]) => s \notin saved)
  BY DEF ExchangeCode, RunnerAt, SaveAt
<1>2. \E q \in {"none", "gate"} :
        RunnerGoes(s, q) /\ (mark_session_error(s) \/ session' = session)
  BY DEF ExchangeCode, RunnerFails
<1> QED  BY <1>1, <1>2, RunnerLeaves DEF RunnerStates

LEMMA LoginSaves ==
  ASSUME TypeOK, SaveInv, NEW s \in Sessions, NEW t \in Targets, SaveLogin(s, t)
  PROVE  SaveTouch(s)
<1> USE Facts
<1>1. runner[s] = "save" /\ session[s].status \in {"none", "pending"}
  BY DEF SaveLogin, RunnerAt, SaveAt
<1>2. CASE /\ saved' = saved \cup {s} /\ RunnerGoes(s, "saved")
           /\ session' = session /\ gate' = gate
  <2>1. Touches(s, session[s], "saved", gate[s])
    BY <1>2, TouchAlone DEF RunnerStates, RunnerGoes
  <2>2. SaveAt(session[s], "saved", gate[s], s \in saved')
    BY <1>1, <1>2 DEF SaveAt, Pending
  <2> QED  BY <2>1, <2>2 DEF SaveTouch
<1>3. CASE RunnerFails(s) /\ gate' = [gate EXCEPT ![s] = FALSE] /\ saved' = saved
  <2> DEFINE y == IF Pending(session[s]) THEN Finished("ended") ELSE session[s]
  <2>1. y \in SessionState /\ y.status \in {"none", "ended"}
    BY <1>1, FixedSessions DEF Pending
  <2>2. session' = [session EXCEPT ![s] = y]
    BY <1>3 DEF RunnerFails, mark_session_error
  <2> HIDE DEF y
  <2>3. Touches(s, y, "none", FALSE)
    BY <1>3, <2>1, <2>2, TouchAlone DEF RunnerFails, RunnerStates, RunnerGoes
  <2>4. SaveAt(y, "none", FALSE, s \in saved')
    BY <2>1 DEF SaveAt, Pending
  <2> QED  BY <2>3, <2>4 DEF SaveTouch
<1> QED  BY <1>2, <1>3 DEF SaveLogin

LEMMA TouchedSessions ==
  ASSUME TypeOK, SaveInv, NEW s \in Sessions, SaveTouch(s)
  PROVE  /\ SaveInv'
         /\ session' \in [Sessions -> SessionState] /\ runner' \in [Sessions -> RunnerStates]
         /\ gate' \in [Sessions -> BOOLEAN] /\ saved' \subseteq Sessions
BY TouchSaves DEF SaveTouch

-----------------------------------------------------------------------------
(* The tokens a runner holds.                                              *)

LEMMA AccountKept ==
  ASSUME TypeOK, NEW s \in Sessions, UNCHANGED account \/ DropTokens(s)
  PROVE  account' \in [Sessions -> [id: Accounts \cup {"none"}, token: Nat]]
<1>1. NoTokens \in [id: Accounts \cup {"none"}, token: Nat]
  BY DEF NoTokens
<1> HIDE DEF NoTokens
<1> QED  BY <1>1 DEF TypeOK, DropTokens

LEMMA ExchangeTypes ==
  ASSUME TypeOK, NEW s \in Sessions, ExchangeCode(s)
  PROVE  /\ account' \in [Sessions -> [id: Accounts \cup {"none"}, token: Nat]]
         /\ AuthTypeOK'
         /\ rows' = rows /\ caller' = caller
<1>1. rows' = rows /\ caller' = caller /\ lock' = lock
  BY DEF ExchangeCode
<1>2. issued' \in Nat /\ good' \subseteq Nat
  <2>1. UNCHANGED <<good, issued>> \/ (issued' = issued + 1 /\ good' = good \cup {issued'})
    BY DEF ExchangeCode
  <2>2. issued \in Nat /\ good \subseteq Nat
    BY DEF TypeOK, AuthTypeOK
  <2>3. CASE UNCHANGED <<good, issued>>
    BY <2>2, <2>3
  <2>4. CASE issued' = issued + 1 /\ good' = good \cup {issued'}
    <3>1. issued' \in Nat
      BY <2>2, <2>4
    <3> QED  BY <2>2, <2>4, <3>1
  <2> QED  BY <2>1, <2>3, <2>4
<1>3. AuthTypeOK'
  BY <1>1, <1>2 DEF AuthTypeOK, TypeOK, At
<1>4. account' = account \/ \E a \in Accounts :
                              account' = [account EXCEPT ![s] = [id |-> a, token |-> issued']]
  BY DEF ExchangeCode
<1>5. account' \in [Sessions -> [id: Accounts \cup {"none"}, token: Nat]]
  BY <1>2, <1>4 DEF TypeOK
<1> QED  BY <1>1, <1>3, <1>5

-----------------------------------------------------------------------------

LEMMA InitOK ==
  ASSUME Init
  PROVE  TypeOK /\ LeaseInv /\ SaveInv
<1> USE DEF Init, AuthInit, LoginInit
<1>1. rows \in [Keys -> RowState] /\ \A k \in Keys : rows[k].owner = Nobody
  <2>1. /\ login_row(Absent, FirstAccount, 1) \in RowState
        /\ login_row(Absent, FirstAccount, 1).owner = Nobody
    BY FixedRows, CodexAssumption
  <2> QED  BY <2>1, FixedRows
<1>2. issued \in Nat /\ good \subseteq Nat
  OBVIOUS
<1>3. caller \in [Callers -> CallerState] /\ \A c \in Callers : caller[c].pc = "idle"
  BY IdleStates
<1>4. lock \in [Gateways -> [Keys -> Callers \cup {Nobody}]]
  OBVIOUS
<1>5. AuthTypeOK
  BY <1>1, <1>2, <1>3, <1>4 DEF AuthTypeOK, At
<1>6. TypeOK
  <2>1. session \in [Sessions -> SessionState]
    BY FixedSessions
  <2>2. account \in [Sessions -> [id: Accounts \cup {"none"}, token: Nat]]
    BY DEF NoTokens
  <2> QED  BY <1>5, <2>1, <2>2 DEF TypeOK
<1>7. LeaseInv
  BY <1>1, KeyOfType, OwnersDiffer DEF LeaseInv, Row
<1>8. SaveInv
  BY FixedSessions DEF SaveInv, Pending
<1> QED  BY <1>6, <1>7, <1>8

LEMMA StepOK ==
  ASSUME TypeOK, LeaseInv, SaveInv, [Next]_vars
  PROVE  TypeOK' /\ LeaseInv' /\ SaveInv'
<1> USE DEF RunnerStates
<1>0. AuthTypeOK
  BY DEF TypeOK
<1>1. CASE AuthNext /\ UNCHANGED loginVars
  <2>1. AuthTypeOK' /\ LeaseInv'
    BY <1>0, <1>1, CallerPreserves, TimePreserves DEF AuthNext
  <2> QED  BY <1>1, <2>1 DEF TypeOK, SaveInv, loginVars
<1>2. ASSUME NEW s \in Sessions, RunnerStep(s) \/ Admin(s), UNCHANGED authVars
      PROVE  TypeOK' /\ LeaseInv' /\ SaveInv'
  <2>1. SaveTouch(s)
    BY <1>2, RunnerSaves, AdminSaves
  <2>2. UNCHANGED account \/ DropTokens(s)
    BY <1>2 DEF RunnerStep, Admin, PollDevice, DeviceAnswer, EnterGate, MarkFinalizing, Complete,
                StartSession, get_session, cancel_session, claim_browser_callback,
                InsertSession, StartFails, SessionExpires
  <2>3. AuthTypeOK' /\ LeaseInv'
    BY <1>0, <1>2 DEF authVars, AuthTypeOK, LeaseInv, Row, At
  <2> QED  BY <2>1, <2>2, <2>3, TouchedSessions, AccountKept DEF TypeOK
<1>3. ASSUME NEW s \in Sessions, ExchangeCode(s)
      PROVE  TypeOK' /\ LeaseInv' /\ SaveInv'
  <2>1. LeaseInv'
    BY <1>3, ExchangeTypes DEF LeaseInv, Row
  <2> QED  BY <1>3, <2>1, ExchangeSaves, ExchangeTypes, TouchedSessions DEF TypeOK
<1>4. ASSUME NEW s \in Sessions, NEW t \in Targets, SaveLogin(s, t)
      PROVE  TypeOK' /\ LeaseInv' /\ SaveInv'
  <2>1. DropTokens(s)
    BY <1>4 DEF SaveLogin
  <2> QED  BY <1>4, <2>1, LoginSaves, LoginPreserves, TouchedSessions, AccountKept DEF TypeOK
<1>5. ASSUME NEW g, Crash(g)
      PROVE  TypeOK' /\ LeaseInv' /\ SaveInv'
  <2>1. AuthTypeOK' /\ LeaseInv'
    BY <1>0, <1>5, CrashPreserves DEF Crash
  <2>2. CASE UNCHANGED loginVars
    BY <2>1, <2>2 DEF TypeOK, SaveInv, loginVars
  <2>3. CASE g = Home
    <3>1. /\ session' = [s \in Sessions |-> None] /\ runner' = [s \in Sessions |-> "none"]
          /\ gate' = [s \in Sessions |-> FALSE] /\ saved' = {}
          /\ account' = [s \in Sessions |-> NoTokens]
      BY <1>5, <2>3 DEF Crash
    <3>2. session' \in [Sessions -> SessionState]
      BY <3>1, FixedSessions
    <3>3. account' \in [Sessions -> [id: Accounts \cup {"none"}, token: Nat]]
      BY <3>1 DEF NoTokens
    <3>4. SaveInv'
      BY <3>1, FixedSessions DEF SaveInv, Pending
    <3> QED  BY <2>1, <3>1, <3>2, <3>3, <3>4 DEF TypeOK
  <2> QED  BY <1>5, <2>2, <2>3 DEF Crash
<1>6. CASE UNCHANGED vars
  <2>1. AuthTypeOK' /\ LeaseInv'
    BY <1>0, <1>6 DEF vars, authVars, AuthTypeOK, LeaseInv, Row, At
  <2> QED  BY <1>6, <2>1 DEF vars, loginVars, TypeOK, SaveInv
<1> QED  BY <1>1, <1>2, <1>3, <1>4, <1>5, <1>6 DEF Next, LoginNext

\* The type invariant of the Codex credentials and logins.
THEOREM TypeCorrect == Spec => []TypeOK
<1>1. Init => TypeOK /\ LeaseInv /\ SaveInv
  BY InitOK
<1>2. (TypeOK /\ LeaseInv /\ SaveInv) /\ [Next]_vars => (TypeOK /\ LeaseInv /\ SaveInv)'
  BY StepOK
<1> QED  BY <1>1, <1>2, PTL DEF Spec

\* try_acquire_codex_refresh_lease: a lease that has an owner is the lease of
\* a call on its way to give it back, over the credentials it has noted.
THEOREM LeaseInvariant == Spec => []LeaseInv
<1>1. Init => TypeOK /\ LeaseInv /\ SaveInv
  BY InitOK
<1>2. (TypeOK /\ LeaseInv /\ SaveInv) /\ [Next]_vars => (TypeOK /\ LeaseInv /\ SaveInv)'
  BY StepOK
<1> QED  BY <1>1, <1>2, PTL DEF Spec

\* persist_codex_token_refresh: refreshed credentials are only written over the
\* ones they were made from, with any number of gateways, logins in between,
\* leases that run out and crashes.
THEOREM LeaseProtectsHolds == Spec => []LeaseProtects
<1>1. LeaseInv => LeaseProtects
  BY DEF LeaseInv, LeaseProtects, persists
<1> QED  BY <1>1, LeaseInvariant, PTL

\* save_gate, for every number of sessions: what a runner, the administrator
\* and a save find of a session fits together.
THEOREM SaveInvariant == Spec => []SaveInv
<1>1. Init => TypeOK /\ LeaseInv /\ SaveInv
  BY InitOK
<1>2. (TypeOK /\ LeaseInv /\ SaveInv) /\ [Next]_vars => (TypeOK /\ LeaseInv /\ SaveInv)'
  BY StepOK
<1> QED  BY <1>1, <1>2, PTL DEF Spec

\* cancel_session: a cancelled login's credentials are never in the database.
THEOREM CancelledNotSavedHolds == Spec => []CancelledNotSaved
<1>1. TypeOK /\ SaveInv => CancelledNotSaved
  BY DEF TypeOK, SaveInv, CancelledNotSaved
<1> QED  BY <1>1, TypeCorrect, SaveInvariant, PTL
============================================================================

------------------------------ MODULE Breaker ------------------------------
(***************************************************************************)
(* What the breaker of a target promises, without tokens and generations.  *)
(* A target is in service, or shut until some moment.  Once that moment    *)
(* has passed one caller may take the right to try the target; until that  *)
(* caller reports, nobody else's result counts.                            *)
(***************************************************************************)
EXTENDS Integers

CONSTANTS
  Ids,      \* the targets
  Callers   \* whoever attempts them

VARIABLES
  now,      \* the wall clock
  shut,     \* the moment until which each target is shut; InService if it is not
  prober    \* who holds the right to try each shut target: no or one caller

bvars == <<now, shut, prober>>

InService == -1

Init ==
  /\ now = 0
  /\ shut = [id \in Ids |-> InService]
  /\ prober = [id \in Ids |-> {}]

Unprobed(id) == prober' = [prober EXCEPT ![id] = {}]

ShutUntilAny(id) ==
  /\ shut'[id] \in Nat
  /\ shut' = [shut EXCEPT ![id] = shut'[id]]

\* A caller gets the right to try a target that has cooled.
Claim(id, c) ==
  /\ shut[id] # InService /\ shut[id] =< now
  /\ prober[id] = {}
  /\ prober' = [prober EXCEPT ![id] = {c}]
  /\ UNCHANGED <<now, shut>>

\* The caller gives the right back without a verdict.
Return(id) ==
  /\ prober[id] # {}
  /\ Unprobed(id)
  /\ UNCHANGED <<now, shut>>

\* Its success puts the target back into service.
Recover(id) ==
  /\ prober[id] # {}
  /\ shut' = [shut EXCEPT ![id] = InService]
  /\ Unprobed(id)
  /\ UNCHANGED now

\* A failure shuts the target: any caller's while it is in service, only the
\* prober's while it is not.
Trip(id) ==
  /\ shut[id] = InService \/ prober[id] # {}
  /\ ShutUntilAny(id)
  /\ Unprobed(id)
  /\ UNCHANGED now

\* The administrator overrides everything.
Override(id) ==
  /\ shut' = [shut EXCEPT ![id] = InService]
  /\ Unprobed(id)
  /\ UNCHANGED now

\* An upstream asks for more time: never for less than the target already has.
Extend(id) ==
  /\ ShutUntilAny(id)
  /\ shut'[id] >= shut[id]
  /\ Unprobed(id)
  /\ UNCHANGED now

Tick ==
  /\ now' = now + 1
  /\ UNCHANGED <<shut, prober>>

Next ==
  \/ \E id \in Ids, c \in Callers : Claim(id, c)
  \/ \E id \in Ids : Return(id)
  \/ \E id \in Ids : Recover(id)
  \/ \E id \in Ids : Trip(id)
  \/ \E id \in Ids : Override(id)
  \/ \E id \in Ids : Extend(id)
  \/ Tick

Spec == Init /\ [][Next]_bvars
============================================================================

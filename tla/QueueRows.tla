------------------------------ MODULE QueueRows ------------------------------
(***************************************************************************)
(* One row of the `work_queue` table (db/app/queue.py) and what each       *)
(* transaction of SqlWorkQueue does to it.                                 *)
(*                                                                         *)
(* A column that holds an instant is kept as the time left until that      *)
(* instant: `wait` for available_at, `lease` for lease_expires_at.  "The   *)
(* instant has passed" is then "nothing is left", and a model needs no     *)
(* clock that grows for ever.                                              *)
(***************************************************************************)
EXTENDS Integers

CONSTANTS
  Workers,      \* lease tokens; a worker has one claim at a time, so it is its token
  Nobody,       \* lease_owner IS NULL
  Owned,        \* TRUE where the caller passes its token (analysis), FALSE where not (match)
  Lease,        \* lease_seconds, in ticks
  Backoff,      \* backoff_seconds, in ticks
  MaxAttempts,  \* max_attempts
  AttemptCap    \* bound: attempts saturate here, above every value the code compares

ASSUME NobodyAssumption == Nobody \notin Workers
ASSUME OwnedAssumption == Owned \in BOOLEAN
ASSUME TimesAssumption == Lease \in Nat \ {0} /\ Backoff \in Nat
ASSUME AttemptsAssumption ==
  MaxAttempts \in Nat \ {0} /\ AttemptCap \in Nat /\ AttemptCap > MaxAttempts

RowStates == {"absent", "pending", "inflight", "done", "failed"}

Row == [state    : RowStates,
        attempts : 0..AttemptCap,
        wait     : 0..Backoff,
        owner    : Workers \cup {Nobody},
        lease    : 0..Lease]

\* There is no row with this primary key.
NoRow == [state |-> "absent", attempts |-> 0, wait |-> 0, owner |-> Nobody, lease |-> 0]

\* The row enqueue_payload inserts.
FreshRow == [NoRow EXCEPT !.state = "pending"]

-----------------------------------------------------------------------------
(* Claiming *)

\* A mutant of Due: a row inflight is due whatever its lease.
DueDuringLease(r) == r.wait = 0 /\ r.state \in {"pending", "inflight"}

\* A mutant of Due: the expired lease is forgotten.
DueOncePending(r) == r.wait = 0 /\ r.state = "pending"

\* The WHERE clause of claim_payload.
Due(r) ==
  /\ r.wait = 0
  /\ \/ r.state = "pending"
     \/ r.state = "inflight" /\ r.lease = 0

Claimed(r, w) ==
  [r EXCEPT !.state = "inflight",
            !.attempts = IF @ = AttemptCap THEN @ ELSE @ + 1,
            !.owner = w,
            !.lease = Lease]

-----------------------------------------------------------------------------
(* Settling a claim *)

\* A mutant of Refused: the token is never compared.
RefusedOnlyWhenAbsent(r, w) == r.state = "absent"

\* The early return of acknowledge and of retry.
Refused(r, w) == r.state = "absent" \/ (Owned /\ r.owner # w)

Released(r) == [r EXCEPT !.owner = Nobody, !.lease = 0]

Acknowledged(r) == [Released(r) EXCEPT !.state = "done"]

\* A mutant of Retried: one attempt too many before the row is parked.
RetriedPastBudget(r) ==
  IF r.attempts > MaxAttempts
  THEN [Released(r) EXCEPT !.state = "failed"]
  ELSE [Released(r) EXCEPT !.state = "pending", !.wait = Backoff]

Retried(r) ==
  IF r.attempts >= MaxAttempts
  THEN [Released(r) EXCEPT !.state = "failed"]
  ELSE [Released(r) EXCEPT !.state = "pending", !.wait = Backoff]

\* The WHERE clause of renew.
Renewable(r, w) == r.state = "inflight" /\ r.owner = w /\ r.lease > 0

\* A mutant of Renewed: a lease on top of what is left of the old one.
RenewedOnTop(r) == [r EXCEPT !.lease = @ + Lease]

\* The column renew sets.
Renewed(r) == [r EXCEPT !.lease = Lease]

-----------------------------------------------------------------------------
(* Time *)

OneLess(n) == IF n = 0 THEN 0 ELSE n - 1

Aged(r) == [r EXCEPT !.wait = OneLess(@), !.lease = OneLess(@)]
=============================================================================

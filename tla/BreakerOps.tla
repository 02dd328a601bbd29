----------------------------- MODULE BreakerOps -----------------------------
(***************************************************************************)
(* The pure state machine of the shared circuit breaker                    *)
(* (contracts/lib/src/circuit_breaker.rs, impl CircuitBreaker).  Each      *)
(* operator takes the stored record and the ledger time and returns the    *)
(* record the function leaves behind; the guards are operators of their    *)
(* own, so that a host contract conjoins them to its actions.  An event a  *)
(* function returns is named by the operator SyncEvent or by the caller.   *)
(***************************************************************************)
EXTENDS Integers

CONSTANTS
  PauseTimelock,   \* PAUSE_TIMELOCK_SECONDS
  ResumeTimelock,  \* RESUME_TIMELOCK_SECONDS
  U64Max,          \* u64::MAX of a ledger timestamp (small, so TLC reaches it)
  None             \* Option::None

ASSUME TimelockAssumption ==
  /\ PauseTimelock \in Nat \ {0}
  /\ ResumeTimelock \in Nat \ {0}
  /\ U64Max \in Nat
  /\ None \notin Int

Time == 0 .. U64Max
OptTime == Time \union {None}

\* StoredCircuitBreakerState, with the accounts that may appear in it.
BreakerState(accounts) ==
  [ pause_scheduled_at  : OptTime,
    pause_activates_at  : OptTime,
    pause_until         : OptTime,
    rescheduled_by      : accounts \union {None},
    resume_scheduled_at : OptTime,
    emergency_paused    : BOOLEAN,
    activation_announced: BOOLEAN ]

\* Default::default(), and what clear() leaves behind.
Cleared ==
  [ pause_scheduled_at |-> None, pause_activates_at |-> None,
    pause_until |-> None, rescheduled_by |-> None,
    resume_scheduled_at |-> None, emergency_paused |-> FALSE,
    activation_announced |-> FALSE ]

IsPaused(b, now) ==
  \/ b.emergency_paused
  \/ /\ b.pause_activates_at # None
     /\ b.pause_until # None
     /\ b.pause_activates_at <= now
     /\ now < b.pause_until

WasScheduled(b) == b.pause_scheduled_at # None \/ b.emergency_paused

-----------------------------------------------------------------------------
(* pause: schedule a timed pause, or extend the one that is active.        *)

\* Mutant: rescheduling a pending pause skips its timelock.
ActivationTime_Reschedule(b, now) ==
  IF WasScheduled(b) THEN now ELSE now + PauseTimelock

ActivationTime(b, now) == IF IsPaused(b, now) THEN now ELSE now + PauseTimelock

\* Mutant: unchecked additions.
PauseAccepted_Unchecked(b, now, duration) ==
  duration # 0 /\ ~b.emergency_paused

\* Err on a zero duration, an emergency, or a checked_add that overflows.
PauseAccepted(b, now, duration) ==
  /\ duration # 0
  /\ ~b.emergency_paused
  /\ ActivationTime(b, now) + duration <= U64Max

\* Mutant: the new end replaces the old one.
PauseEnd_NoMax(b, now, duration) == ActivationTime(b, now) + duration

PauseEnd(b, now, duration) ==
  LET requested == ActivationTime(b, now) + duration
  IN  IF IsPaused(b, now) /\ b.pause_until # None /\ b.pause_until > requested
      THEN b.pause_until
      ELSE requested

\* Mutant: a resume that was under way survives a new pause.
PauseResult_KeepsResume(b, now, duration, by) ==
  [ pause_scheduled_at   |-> now,
    pause_activates_at   |-> ActivationTime(b, now),
    pause_until          |-> PauseEnd(b, now, duration),
    rescheduled_by       |-> IF WasScheduled(b) THEN by ELSE None,
    resume_scheduled_at  |-> b.resume_scheduled_at,
    emergency_paused     |-> FALSE,
    activation_announced |-> IsPaused(b, now) /\ b.activation_announced ]

PauseResult(b, now, duration, by) ==
  [ pause_scheduled_at   |-> now,
    pause_activates_at   |-> ActivationTime(b, now),
    pause_until          |-> PauseEnd(b, now, duration),
    rescheduled_by       |-> IF WasScheduled(b) THEN by ELSE None,
    resume_scheduled_at  |-> None,
    emergency_paused     |-> FALSE,
    activation_announced |-> IsPaused(b, now) /\ b.activation_announced ]

-----------------------------------------------------------------------------
(* emergency_pause: at once, without an end.                               *)

EmergencyResult(b, now, by) ==
  [ pause_scheduled_at   |-> now,
    pause_activates_at   |-> now,
    pause_until          |-> None,
    rescheduled_by       |-> IF WasScheduled(b) THEN by ELSE None,
    resume_scheduled_at  |-> None,
    emergency_paused     |-> TRUE,
    activation_announced |-> TRUE ]

-----------------------------------------------------------------------------
(* resume: the first call schedules, a call after the delay clears.        *)

ResumeSchedules(b, now) ==
  /\ WasScheduled(b)
  /\ b.resume_scheduled_at = None
  /\ now + ResumeTimelock <= U64Max

ResumeScheduledResult(b, now) == [b EXCEPT !.resume_scheduled_at = now]

\* Mutant: the second call needs no delay.
ResumeCompletes_NoDelay(b, now) ==
  WasScheduled(b) /\ b.resume_scheduled_at # None

ResumeCompletes(b, now) ==
  /\ WasScheduled(b)
  /\ b.resume_scheduled_at # None
  /\ now >= b.resume_scheduled_at + ResumeTimelock

-----------------------------------------------------------------------------
(* sync: materialise a due expiry or a due activation, at most one of them.*)

SyncExpires(b, now) ==
  /\ ~b.emergency_paused
  /\ b.pause_until # None
  /\ now >= b.pause_until

SyncAnnounces(b, now) ==
  /\ ~SyncExpires(b, now)
  /\ IsPaused(b, now)
  /\ ~b.activation_announced

SyncResult(b, now) ==
  IF SyncExpires(b, now) THEN Cleared
  ELSE IF SyncAnnounces(b, now) THEN [b EXCEPT !.activation_announced = TRUE]
  ELSE b

SyncEvent(b, now) ==
  IF SyncExpires(b, now) THEN "ResumeActivated"
  ELSE IF SyncAnnounces(b, now) THEN "PauseActivated"
  ELSE "none"
=============================================================================

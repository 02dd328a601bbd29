--------------------------- MODULE CircuitBreaker ---------------------------
(***************************************************************************)
(* One contract that holds a circuit breaker, its Governance accounts, its *)
(* Admin accounts and the ledger clock (the soroban_impl wrappers of       *)
(* contracts/lib/src/circuit_breaker.rs).  A call that panics is rolled    *)
(* back by the host, so a rejected call is simply not a step.              *)
(***************************************************************************)
EXTENDS BreakerOps

CONSTANTS
  Governors,      \* accounts that hold AccessControlRole::Governance
  Admins,         \* accounts that hold AccessControlRole::Admin
  MaxDuration     \* longest pause requested

ASSUME DurationAssumption == MaxDuration \in Nat

VARIABLES
  now,            \* env.ledger().timestamp()
  breaker,        \* the stored CircuitBreakerState
  audited,        \* history: "paused" or "open", the last (Pause|Resume)Activated event
  lastGovernance, \* history: time of the last Governance call that was accepted
  synced          \* history: TRUE just after a call that synchronised the breaker

vars == <<now, breaker, audited, lastGovernance, synced>>

Paused == IsPaused(breaker, now)

Init ==
  /\ now \in Time
  /\ breaker = Cleared
  /\ audited = "open"
  /\ lastGovernance = None
  /\ synced = FALSE

\* The ledger closes: its timestamp never decreases.
Tick ==
  /\ now < U64Max
  /\ now' = now + 1
  /\ synced' = FALSE
  /\ UNCHANGED <<breaker, audited, lastGovernance>>

\* schedule_pause, by an account that holds Governance.
Pause(g, duration) ==
  /\ PauseAccepted(breaker, now, duration)
  /\ breaker' = PauseResult(breaker, now, duration, g)
  /\ lastGovernance' = now
  /\ synced' = FALSE
  /\ UNCHANGED <<now, audited>>

EmergencyPause(g) ==
  /\ breaker' = EmergencyResult(breaker, now, g)
  /\ audited' = "paused"
  /\ lastGovernance' = now
  /\ synced' = FALSE
  /\ UNCHANGED now

ScheduleResume(a) ==
  /\ ResumeSchedules(breaker, now)
  /\ breaker' = ResumeScheduledResult(breaker, now)
  /\ synced' = FALSE
  /\ UNCHANGED <<now, audited, lastGovernance>>

\* Mutant: the flag survives the resume (a missing reset in clear).
CompleteResume_KeepsFlag(a) ==
  /\ ResumeCompletes(breaker, now)
  /\ breaker' = [Cleared EXCEPT !.activation_announced =
                                   breaker.activation_announced]
  /\ audited' = "open"
  /\ synced' = FALSE
  /\ UNCHANGED <<now, lastGovernance>>

CompleteResume(a) ==
  /\ ResumeCompletes(breaker, now)
  /\ breaker' = Cleared
  /\ audited' = "open"
  /\ synced' = FALSE
  /\ UNCHANGED <<now, lastGovernance>>

\* is_paused, which anyone may call: it synchronises before it answers.
QueryPaused ==
  /\ breaker' = SyncResult(breaker, now)
  /\ audited' = CASE SyncEvent(breaker, now) = "PauseActivated"  -> "paused"
                  [] SyncEvent(breaker, now) = "ResumeActivated" -> "open"
                  [] OTHER -> audited
  /\ synced' = TRUE
  /\ UNCHANGED <<now, lastGovernance>>

Next ==
  \/ Tick
  \/ \E g \in Governors, d \in 0 .. MaxDuration : Pause(g, d)
  \/ \E g \in Governors : EmergencyPause(g)
  \/ \E a \in Admins : ScheduleResume(a) \/ CompleteResume(a)
  \/ QueryPaused

Spec == Init /\ [][Next]_vars

-----------------------------------------------------------------------------
\* Every field of the breaker and of the history has its type.
TypeOK ==
  /\ now \in Time
  /\ breaker \in BreakerState(Governors)
  /\ audited \in {"open", "paused"}
  /\ lastGovernance \in OptTime
  /\ synced \in BOOLEAN

\* The stored record is one the last accepted Governance call wrote: either
\* cleared, or an emergency, or a window whose bounds agree with the time of
\* that call.  (pause_activates_at = pause_scheduled_at only when an active
\* window was extended.)
WellFormed ==
  \/ breaker = Cleared
  \/ /\ breaker.pause_scheduled_at # None
     /\ breaker.pause_scheduled_at = lastGovernance
     /\ breaker.pause_scheduled_at <= now
     /\ \/ /\ breaker.emergency_paused
           /\ breaker.pause_until = None
           /\ breaker.activation_announced
        \/ /\ ~breaker.emergency_paused
           /\ breaker.pause_activates_at \in
                {lastGovernance, lastGovernance + PauseTimelock}
           /\ breaker.pause_until # None
           /\ breaker.pause_activates_at < breaker.pause_until

\* A resume that is under way was requested after the last Governance call
\* and has been waiting since then; a fresh pause restarts the protocol.
ResumeFollowsGovernance ==
  breaker.resume_scheduled_at # None =>
    /\ lastGovernance # None
    /\ lastGovernance <= breaker.resume_scheduled_at
    /\ breaker.resume_scheduled_at <= now

\* What every call relies on when it reads the stored record: its types, its
\* shape, and that a pause has restarted the resume protocol.  Inductive.
StoredRecordOK == TypeOK /\ WellFormed /\ ResumeFollowsGovernance

\* A pause never starts early: the contract goes from open to paused only by
\* an emergency or when a request has stood for the whole pause timelock.
PauseIsDue ==
  (~Paused /\ Paused') =>
     \/ breaker'.emergency_paused
     \/ /\ lastGovernance # None
        /\ now' >= lastGovernance + PauseTimelock

PauseNeedsTimelock == [][PauseIsDue]_vars

\* A pause never ends early: it ends when its window is over, or by an Admin
\* whose resume the Governance side had the whole resume timelock to answer.
ResumeIsDue ==
  (Paused /\ ~Paused') =>
     \/ /\ ~breaker.emergency_paused
        /\ now' >= breaker.pause_until
     \/ /\ breaker.resume_scheduled_at # None
        /\ lastGovernance # None
        /\ now >= lastGovernance + ResumeTimelock

ResumeNeedsTimelock == [][ResumeIsDue]_vars

\* Both timelocks bind, however requests are scheduled, replaced and answered:
\* a contract is neither paused nor opened again before its timelock.
TimelocksBind == [][PauseIsDue /\ ResumeIsDue]_vars

\* When the contract will be open again if nobody calls it.
EndOf(b) == IF b.emergency_paused THEN U64Max + 1 ELSE b.pause_until

\* While paused, no call of Governance brings the end nearer
\* ("rescheduling an active timed pause can only extend its end time, and a
\* normal schedule cannot replace an emergency pause").
ActivePauseOnlyExtends ==
  [][ (Paused /\ Paused') => EndOf(breaker') >= EndOf(breaker) ]_vars

\* The audit trail shows every pause somebody has synchronised: the last
\* activation event says "paused" whenever the stored flag says announced, and
\* a call that has just synchronised a paused breaker leaves the flag set.
PauseIsAudited ==
  /\ breaker.activation_announced => audited = "paused"
  /\ synced /\ Paused => audited = "paused"

\* The record a contract keeps between calls can be trusted: no time in it
\* overflowed, it has the shape of its last Governance call, and its audit flag
\* agrees with the last event, although the effective state moves with the
\* clock alone.
RecordIsAudited == StoredRecordOK /\ PauseIsAudited
=============================================================================

----------------------------- MODULE Parts_proofs -----------------------------
(***************************************************************************)
(* TLAPS proofs about the parts of MCParts: the circuit breaker, for any   *)
(* timelocks and any accounts; sessions and recovery over their token      *)
(* stores, for any users; the requests of the backend, for any number of   *)
(* accounts and of requests at the same time; decimal amounts, for any     *)
(* texts without a sign; and pages, for any width of a word and any lists. *)
(***************************************************************************)
EXTENDS CircuitBreaker, Sessions, Recovery, Paging, Amount, AuthRequests, SequenceTheorems,
  Operators_proofs

-----------------------------------------------------------------------------
(* The circuit breaker.                                                    *)

-----------------------------------------------------------------------------
(* StoredRecordOK is inductive. *)

(* The initial state satisfies the invariant. *)
LEMMA InitInv == Init => StoredRecordOK
<1> SUFFICES ASSUME Init PROVE StoredRecordOK
  OBVIOUS
<1>1. TypeOK
  BY ClearedType DEF Init, TypeOK, OptTime
<1>2. WellFormed /\ ResumeFollowsGovernance
  BY DEF Init, WellFormed, ResumeFollowsGovernance, Cleared
<1> QED
  BY <1>1, <1>2 DEF StoredRecordOK

(* A step that clears the record and leaves clock and history in their types *)
(* preserves the invariant.                                                  *)
LEMMA ClearingStep ==
  ASSUME StoredRecordOK, breaker' = Cleared, UNCHANGED <<now, lastGovernance>>,
         audited' \in {"open", "paused"}, synced' \in BOOLEAN
  PROVE  StoredRecordOK'
<1>1. TypeOK'
  BY ClearedType DEF StoredRecordOK, TypeOK
<1>2. WellFormed' /\ ResumeFollowsGovernance'
  BY DEF WellFormed, ResumeFollowsGovernance, Cleared
<1> QED
  BY <1>1, <1>2 DEF StoredRecordOK

(* The clock preserves the invariant. *)
LEMMA TickInv == StoredRecordOK /\ Tick => StoredRecordOK'
<1> SUFFICES ASSUME StoredRecordOK, Tick PROVE StoredRecordOK'
  OBVIOUS
<1>1. TypeOK'
  <2>1. now' \in Time
    BY TimelockAssumption DEF StoredRecordOK, TypeOK, Tick, Time
  <2> QED
    BY <2>1 DEF StoredRecordOK, TypeOK, Tick
<1>2. now \in Nat /\ now' = now + 1
  BY DEF StoredRecordOK, TypeOK, Time, Tick
<1>3. /\ breaker.pause_scheduled_at \in Time \union {None}
      /\ breaker.resume_scheduled_at \in Time \union {None}
  BY DEF StoredRecordOK, TypeOK, BreakerState, OptTime
<1>4. WellFormed'
  <2>1. breaker' = breaker /\ lastGovernance' = lastGovernance
    BY DEF Tick
  <2>2. breaker.pause_scheduled_at # None /\ breaker.pause_scheduled_at <= now
          => breaker.pause_scheduled_at <= now'
    BY <1>2, <1>3 DEF Time
  <2> QED
    BY <2>1, <2>2 DEF StoredRecordOK, WellFormed
<1>5. ResumeFollowsGovernance'
  BY <1>2, <1>3, TimelockAssumption
  DEF StoredRecordOK, ResumeFollowsGovernance, Tick, Time
<1> QED
  BY <1>1, <1>4, <1>5 DEF StoredRecordOK

(* An accepted pause preserves the invariant. *)
LEMMA PauseInv ==
  ASSUME StoredRecordOK, NEW g \in Governors, NEW d \in 0 .. MaxDuration, Pause(g, d)
  PROVE  StoredRecordOK'
<1> DEFINE r == PauseResult(breaker, now, d, g)
<1>1. /\ breaker \in BreakerState(Governors)
      /\ now \in Time
      /\ d \in Nat
      /\ PauseAccepted(breaker, now, d)
  BY DurationAssumption DEF StoredRecordOK, TypeOK, Pause
<1>2. r \in BreakerState(Governors)
  BY <1>1, PauseType
<1>3. breaker' = r /\ lastGovernance' = now /\ now' = now
  BY DEF Pause
<1>4. TypeOK'
  BY <1>1, <1>2, <1>3 DEF StoredRecordOK, TypeOK, Pause, OptTime
<1>5. /\ r.pause_scheduled_at = now
      /\ r.pause_activates_at = ActivationTime(breaker, now)
      /\ r.pause_until = PauseEnd(breaker, now, d)
      /\ ~r.emergency_paused
      /\ r.resume_scheduled_at = None
  BY DEF PauseResult
<1>6. WellFormed'
  <2>1. /\ ActivationTime(breaker, now) \in {now, now + PauseTimelock}
        /\ PauseEnd(breaker, now, d) \in Time
        /\ ActivationTime(breaker, now) < PauseEnd(breaker, now, d)
    BY <1>1, PauseWindow
  <2>2. now # None /\ PauseEnd(breaker, now, d) # None /\ now <= now
    BY <1>1, <2>1, TimelockAssumption DEF Time
  <2> HIDE DEF r
  <2> QED
    BY <1>3, <1>5, <2>1, <2>2 DEF WellFormed
<1>7. ResumeFollowsGovernance'
  BY <1>3, <1>5 DEF ResumeFollowsGovernance
<1> QED
  BY <1>4, <1>6, <1>7 DEF StoredRecordOK

(* An emergency pause preserves the invariant. *)
LEMMA EmergencyInv ==
  ASSUME StoredRecordOK, NEW g \in Governors, EmergencyPause(g)
  PROVE  StoredRecordOK'
<1>1. now \in Time /\ now # None /\ now <= now
  BY TimelockAssumption DEF StoredRecordOK, TypeOK, Time
<1>2. TypeOK'
  BY <1>1, EmergencyType DEF StoredRecordOK, TypeOK, EmergencyPause, OptTime
<1>3. WellFormed' /\ ResumeFollowsGovernance'
  BY <1>1
  DEF WellFormed, ResumeFollowsGovernance, EmergencyPause, EmergencyResult
<1> QED
  BY <1>2, <1>3 DEF StoredRecordOK

(* Scheduling a resume preserves the invariant. *)
LEMMA ScheduleInv ==
  ASSUME StoredRecordOK, NEW a \in Admins, ScheduleResume(a)
  PROVE  StoredRecordOK'
<1>1. /\ now \in Time /\ now <= now
      /\ breaker \in BreakerState(Governors)
      /\ breaker' = [breaker EXCEPT !.resume_scheduled_at = now]
      /\ UNCHANGED <<now, audited, lastGovernance>>
      /\ synced' = FALSE
  BY TimelockAssumption
  DEF StoredRecordOK, TypeOK, ScheduleResume, ResumeScheduledResult, Time
<1>2. TypeOK'
  <2>1. breaker' \in BreakerState(Governors)
    BY <1>1 DEF BreakerState, OptTime
  <2> QED
    BY <1>1, <2>1 DEF StoredRecordOK, TypeOK
<1>3. breaker # Cleared
  BY DEF ScheduleResume, ResumeSchedules, WasScheduled, Cleared
<1>4. WellFormed'
  BY <1>1, <1>3 DEF StoredRecordOK, WellFormed, BreakerState
<1>5. lastGovernance # None /\ lastGovernance <= now
  BY <1>3 DEF StoredRecordOK, WellFormed
<1>6. ResumeFollowsGovernance'
  BY <1>1, <1>5 DEF ResumeFollowsGovernance, BreakerState
<1> QED
  BY <1>2, <1>4, <1>6 DEF StoredRecordOK

(* A synchronisation preserves the invariant. *)
LEMMA QueryInv == StoredRecordOK /\ QueryPaused => StoredRecordOK'
<1> SUFFICES ASSUME StoredRecordOK, QueryPaused PROVE StoredRecordOK'
  OBVIOUS
<1>1. /\ breaker \in BreakerState(Governors)
      /\ UNCHANGED <<now, lastGovernance>>
      /\ audited' \in {"open", "paused"}
      /\ synced' \in BOOLEAN
  BY DEF StoredRecordOK, TypeOK, QueryPaused
<1>2. CASE SyncExpires(breaker, now)
  <2>1. breaker' = Cleared
    BY <1>2 DEF QueryPaused, SyncResult
  <2> QED
    BY <1>1, <2>1, ClearingStep
<1>3. CASE ~SyncExpires(breaker, now) /\ SyncAnnounces(breaker, now)
  <2>1. breaker' = [breaker EXCEPT !.activation_announced = TRUE]
    BY <1>3 DEF QueryPaused, SyncResult
  <2>2. TypeOK'
    <3>1. breaker' \in BreakerState(Governors)
      BY <1>1, <2>1 DEF BreakerState
    <3> QED
      BY <1>1, <3>1 DEF StoredRecordOK, TypeOK
  <2>3. breaker # Cleared
    BY <1>3 DEF SyncAnnounces, IsPaused, Cleared
  <2>4. WellFormed' /\ ResumeFollowsGovernance'
    BY <1>1, <2>1, <2>3
    DEF StoredRecordOK, WellFormed, ResumeFollowsGovernance, BreakerState
  <2> QED
    BY <2>2, <2>4 DEF StoredRecordOK
<1>4. CASE ~SyncExpires(breaker, now) /\ ~SyncAnnounces(breaker, now)
  <2>1. breaker' = breaker
    BY <1>4 DEF QueryPaused, SyncResult
  <2> QED
    BY <1>1, <2>1 DEF StoredRecordOK, TypeOK, WellFormed, ResumeFollowsGovernance
<1> QED
  BY <1>2, <1>3, <1>4

(* Every step of the contract preserves the invariant. *)
LEMMA StepInv == StoredRecordOK /\ [Next]_vars => StoredRecordOK'
<1> SUFFICES ASSUME StoredRecordOK, [Next]_vars PROVE StoredRecordOK'
  OBVIOUS
<1>1. ASSUME NEW a \in Admins, CompleteResume(a) PROVE StoredRecordOK'
  BY <1>1, ClearingStep DEF CompleteResume
<1>2. CASE UNCHANGED vars
  BY <1>2 DEF vars, StoredRecordOK, TypeOK, WellFormed, ResumeFollowsGovernance
<1> QED
  BY <1>1, <1>2, TickInv, PauseInv, EmergencyInv, ScheduleInv, QueryInv
  DEF Next

(* What every call finds stored is typed, well-shaped and ordered: the       *)
(* record belongs to the last Governance call, a resume came after it.       *)
THEOREM RecordIsSound == Spec => []StoredRecordOK
  BY InitInv, StepInv, PTL DEF Spec

(* A pause never starts before the whole pause timelock has run, except by *)
(* an emergency.                                                          *)
THEOREM PauseIsTimelocked == Spec => PauseNeedsTimelock
<1>1. StoredRecordOK /\ [Next]_vars => [PauseIsDue]_vars
  <2> SUFFICES ASSUME StoredRecordOK, Next, ~Paused, Paused', ~breaker'.emergency_paused
               PROVE  /\ lastGovernance # None
                      /\ now' >= lastGovernance + PauseTimelock
    BY DEF PauseIsDue
  <2>1. now \in Nat /\ breaker \in BreakerState(Governors)
    BY DEF StoredRecordOK, TypeOK, Time
  <2>2. ~IsPaused(Cleared, now')
    BY DEF IsPaused, Cleared
  <2>3. CASE Tick
    <3>1. /\ breaker' = breaker /\ now' = now + 1
          /\ breaker # Cleared /\ ~breaker.emergency_paused
      BY <2>3, <2>2 DEF Tick, Paused
    <3>2. /\ lastGovernance # None /\ lastGovernance \in Nat
          /\ lastGovernance <= now
          /\ breaker.pause_activates_at \in
                {lastGovernance, lastGovernance + PauseTimelock}
      BY <3>1 DEF StoredRecordOK, TypeOK, WellFormed, OptTime, Time
    <3>3. /\ breaker.pause_activates_at <= now'
          /\ now' < breaker.pause_until
          /\ breaker.pause_until \in Nat
      BY <3>1 DEF Paused, IsPaused, StoredRecordOK, TypeOK, BreakerState, OptTime, Time
    <3>4. ~ (breaker.pause_activates_at <= now /\ now < breaker.pause_until)
      BY <3>1, <3>3, <3>2, TimelockAssumption DEF Paused, IsPaused
    <3> QED
      BY <2>1, <3>1, <3>2, <3>3, <3>4, TimelockAssumption
  <2>4. ASSUME NEW g \in Governors, NEW d \in 0 .. MaxDuration, Pause(g, d)
        PROVE  FALSE
    <3>1. /\ now' = now
          /\ breaker'.pause_activates_at = now + PauseTimelock
      BY <2>4 DEF Pause, PauseResult, ActivationTime, Paused
    <3> QED
      BY <2>1, <3>1, TimelockAssumption DEF Paused, IsPaused
  <2>5. ASSUME NEW g \in Governors, EmergencyPause(g) PROVE FALSE
    BY <2>5 DEF EmergencyPause, EmergencyResult
  <2>6. ASSUME NEW a \in Admins, ScheduleResume(a) PROVE FALSE
    BY <2>1, <2>6
    DEF ScheduleResume, ResumeScheduledResult, BreakerState, Paused, IsPaused
  <2>7. ASSUME NEW a \in Admins, CompleteResume(a) PROVE FALSE
    BY <2>2, <2>7 DEF CompleteResume, Paused
  <2>8. CASE QueryPaused
    BY <2>1, <2>2, <2>8
    DEF QueryPaused, SyncResult, BreakerState, Paused, IsPaused
  <2> QED
    BY <2>3, <2>4, <2>5, <2>6, <2>7, <2>8 DEF Next
<1> QED
  BY <1>1, RecordIsSound, PTL DEF Spec, PauseNeedsTimelock

(* A Governance call on a paused contract leaves it paused, until no earlier *)
(* a time.                                                                   *)
LEMMA PauseExtends ==
  ASSUME StoredRecordOK, NEW g \in Governors, NEW d \in 0 .. MaxDuration, Paused,
         Pause(g, d)
  PROVE  Paused' /\ EndOf(breaker') >= EndOf(breaker)
<1>1. /\ breaker \in BreakerState(Governors) /\ now \in Time /\ d \in Nat
      /\ PauseAccepted(breaker, now, d)
      /\ IsPaused(breaker, now)
  BY DurationAssumption DEF StoredRecordOK, TypeOK, Pause, Paused
<1>2. /\ PauseEnd(breaker, now, d) \in Time
      /\ ActivationTime(breaker, now) = now
      /\ now < PauseEnd(breaker, now, d)
  <2>1. ActivationTime(breaker, now) = now
    BY <1>1 DEF ActivationTime
  <2> QED
    BY <1>1, <2>1, PauseWindow
<1>3. ~breaker.emergency_paused
  BY <1>1 DEF PauseAccepted
<1>4. /\ breaker'.pause_activates_at = now /\ now' = now
      /\ breaker'.pause_until = PauseEnd(breaker, now, d)
      /\ ~breaker'.emergency_paused
  BY <1>2 DEF Pause, PauseResult
<1>5. Paused'
  <2>1. now # None /\ PauseEnd(breaker, now, d) # None /\ now <= now
    BY <1>1, <1>2, TimelockAssumption DEF Time
  <2> QED
    BY <1>2, <1>4, <2>1 DEF Paused, IsPaused
<1>6. PauseEnd(breaker, now, d) >= breaker.pause_until
  <2>1. breaker.pause_until \in Nat /\ breaker.pause_until # None
    BY <1>1, <1>3, TimelockAssumption DEF IsPaused, BreakerState, OptTime, Time
  <2>2. ActivationTime(breaker, now) + d \in Int
    BY <1>1, <1>2 DEF Time
  <2> QED
    BY <1>1, <2>1, <2>2 DEF PauseEnd
<1> QED
  BY <1>3, <1>4, <1>5, <1>6 DEF EndOf

(* A pause never ends early: its window is over, or an Admin's resume has *)
(* waited for the whole resume timelock since the last Governance call.   *)
THEOREM ResumeIsTimelocked == Spec => ResumeNeedsTimelock
<1>1. StoredRecordOK /\ [Next]_vars => [ResumeIsDue]_vars
  <2> SUFFICES ASSUME StoredRecordOK, Next, Paused, ~Paused'
               PROVE  \/ /\ ~breaker.emergency_paused
                         /\ now' >= breaker.pause_until
                      \/ /\ breaker.resume_scheduled_at # None
                         /\ lastGovernance # None
                         /\ now >= lastGovernance + ResumeTimelock
    BY DEF ResumeIsDue
  <2>1. now \in Time /\ now \in Nat /\ breaker \in BreakerState(Governors)
    BY DEF StoredRecordOK, TypeOK, Time
  <2>2. CASE Tick
    <3>1. breaker' = breaker /\ now' = now + 1 /\ ~breaker.emergency_paused
      BY <2>2 DEF Tick, Paused, IsPaused
    <3>2. /\ breaker.pause_activates_at \in Nat /\ breaker.pause_until \in Nat
          /\ breaker.pause_activates_at <= now
      BY <2>1, <3>1 DEF Paused, IsPaused, BreakerState, OptTime, Time
    <3>3. ~ (breaker.pause_activates_at <= now' /\ now' < breaker.pause_until)
      BY <3>1, <3>2, TimelockAssumption DEF Paused, IsPaused
    <3> QED
      BY <2>1, <3>1, <3>2, <3>3
  <2>3. ASSUME NEW g \in Governors, NEW d \in 0 .. MaxDuration, Pause(g, d)
        PROVE  FALSE
    BY <2>3, PauseExtends
  <2>4. ASSUME NEW g \in Governors, EmergencyPause(g) PROVE FALSE
    BY <2>4 DEF EmergencyPause, EmergencyResult, Paused, IsPaused
  <2>5. ASSUME NEW a \in Admins, ScheduleResume(a) PROVE FALSE
    BY <2>1, <2>5
    DEF ScheduleResume, ResumeScheduledResult, BreakerState, Paused, IsPaused
  <2>6. ASSUME NEW a \in Admins, CompleteResume(a)
        PROVE  /\ breaker.resume_scheduled_at # None
               /\ lastGovernance # None
               /\ now >= lastGovernance + ResumeTimelock
    <3>1. /\ breaker.resume_scheduled_at # None
          /\ now >= breaker.resume_scheduled_at + ResumeTimelock
      BY <2>6 DEF CompleteResume, ResumeCompletes
    <3>2. lastGovernance # None /\ lastGovernance <= breaker.resume_scheduled_at
      BY <3>1 DEF StoredRecordOK, ResumeFollowsGovernance
    <3>3. lastGovernance \in Nat /\ breaker.resume_scheduled_at \in Nat
      BY <2>1, <3>1, <3>2 DEF StoredRecordOK, TypeOK, BreakerState, OptTime, Time
    <3> QED
      BY <2>1, <3>1, <3>2, <3>3, TimelockAssumption
  <2>7. CASE QueryPaused
    <3>1. IsPaused(breaker, now) /\ breaker' = SyncResult(breaker, now) /\ now' = now
      BY <2>7 DEF QueryPaused, Paused
    <3>2. /\ breaker'.emergency_paused = breaker.emergency_paused
          /\ breaker'.pause_activates_at = breaker.pause_activates_at
          /\ breaker'.pause_until = breaker.pause_until
      BY <2>1, <3>1, SyncOfPaused
    <3> QED
      BY <3>1, <3>2 DEF Paused, IsPaused
  <2> QED
    BY <2>2, <2>3, <2>4, <2>5, <2>6, <2>7 DEF Next
<1> QED
  BY <1>1, RecordIsSound, PTL DEF Spec, ResumeNeedsTimelock

\* A contract is neither paused nor opened before its timelock: the two together.
THEOREM TimelocksHold == Spec => TimelocksBind
  BY PauseIsTimelocked, ResumeIsTimelocked, PTL
  DEF TimelocksBind, PauseNeedsTimelock, ResumeNeedsTimelock

(* While a contract is paused no call brings the end of the pause nearer: *)
(* rescheduling extends, and an emergency has no end.                     *)
THEOREM PauseOnlyExtends == Spec => ActivePauseOnlyExtends
<1> DEFINE Extends == (Paused /\ Paused') => EndOf(breaker') >= EndOf(breaker)
<1>1. StoredRecordOK /\ [Next]_vars => [Extends]_vars
  <2> SUFFICES ASSUME StoredRecordOK, Next, Paused, Paused'
               PROVE  EndOf(breaker') >= EndOf(breaker)
    OBVIOUS
  <2>1. now \in Time /\ breaker \in BreakerState(Governors)
    BY DEF StoredRecordOK, TypeOK
  <2>2. EndOf(breaker) \in 0 .. U64Max + 1
    BY <2>1, TimelockAssumption
    DEF EndOf, Paused, IsPaused, BreakerState, OptTime, Time
  <2>3. CASE /\ breaker'.emergency_paused = breaker.emergency_paused
             /\ breaker'.pause_until = breaker.pause_until
    BY <2>2, <2>3 DEF EndOf
  <2>4. CASE Tick
    BY <2>3, <2>4 DEF Tick
  <2>5. ASSUME NEW g \in Governors, NEW d \in 0 .. MaxDuration, Pause(g, d)
        PROVE  EndOf(breaker') >= EndOf(breaker)
    BY <2>5, PauseExtends
  <2>6. ASSUME NEW g \in Governors, EmergencyPause(g)
        PROVE  EndOf(breaker') >= EndOf(breaker)
    <3>1. EndOf(breaker') = U64Max + 1
      BY <2>6 DEF EmergencyPause, EmergencyResult, EndOf
    <3> QED
      BY <2>2, <3>1, TimelockAssumption
  <2>7. ASSUME NEW a \in Admins, ScheduleResume(a)
        PROVE  EndOf(breaker') >= EndOf(breaker)
    BY <2>1, <2>3, <2>7 DEF ScheduleResume, ResumeScheduledResult, BreakerState
  <2>8. ASSUME NEW a \in Admins, CompleteResume(a) PROVE FALSE
    BY <2>8 DEF CompleteResume, Paused, IsPaused, Cleared
  <2>9. CASE QueryPaused
    <3>1. IsPaused(breaker, now) /\ breaker' = SyncResult(breaker, now)
      BY <2>9 DEF QueryPaused, Paused
    <3> QED
      BY <2>1, <2>3, <3>1, SyncOfPaused
  <2> QED
    BY <2>4, <2>5, <2>6, <2>7, <2>8, <2>9 DEF Next
<1> QED
  BY <1>1, RecordIsSound, PTL DEF Spec, ActivePauseOnlyExtends

(* The stored flag and the events agree: an announced pause has its event,  *)
(* and a call that has just synchronised a paused contract has announced it. *)
THEOREM PauseIsAnnounced == Spec => []PauseIsAudited
<1>1. Init => PauseIsAudited
  BY DEF Init, PauseIsAudited, Cleared
<1>2. StoredRecordOK /\ PauseIsAudited /\ [Next]_vars => PauseIsAudited'
  <2> SUFFICES ASSUME StoredRecordOK, PauseIsAudited, [Next]_vars
               PROVE  PauseIsAudited'
    OBVIOUS
  <2>1. /\ now \in Time /\ breaker \in BreakerState(Governors)
        /\ breaker.activation_announced => audited = "paused"
    BY DEF StoredRecordOK, TypeOK, PauseIsAudited
  <2>2. ~Cleared.activation_announced
    BY DEF Cleared
  <2>3. CASE Tick
    BY <2>1, <2>3 DEF Tick, PauseIsAudited
  <2>4. ASSUME NEW g \in Governors, NEW d \in 0 .. MaxDuration, Pause(g, d)
        PROVE  PauseIsAudited'
    BY <2>1, <2>4 DEF Pause, PauseResult, PauseIsAudited
  <2>5. ASSUME NEW g \in Governors, EmergencyPause(g) PROVE PauseIsAudited'
    BY <2>5 DEF EmergencyPause, PauseIsAudited
  <2>6. ASSUME NEW a \in Admins, ScheduleResume(a) PROVE PauseIsAudited'
    BY <2>1, <2>6
    DEF ScheduleResume, ResumeScheduledResult, BreakerState, PauseIsAudited
  <2>7. ASSUME NEW a \in Admins, CompleteResume(a) PROVE PauseIsAudited'
    BY <2>2, <2>7 DEF CompleteResume, PauseIsAudited
  <2>8. CASE QueryPaused
    <3>1. breaker' = SyncResult(breaker, now) /\ now' = now
      BY <2>8 DEF QueryPaused
    <3>2. CASE SyncExpires(breaker, now)
      <4>1. breaker' = Cleared
        BY <3>1, <3>2 DEF SyncResult
      <4> QED
        BY <4>1, <2>2 DEF PauseIsAudited, Paused, IsPaused, Cleared
    <3>3. CASE ~SyncExpires(breaker, now) /\ SyncAnnounces(breaker, now)
      BY <2>8, <3>3 DEF QueryPaused, SyncEvent, PauseIsAudited
    <3>4. CASE ~SyncExpires(breaker, now) /\ ~SyncAnnounces(breaker, now)
      <4>1. breaker' = breaker /\ audited' = audited
        BY <2>8, <3>4 DEF QueryPaused, SyncResult, SyncEvent
      <4>2. IsPaused(breaker, now) => breaker.activation_announced
        BY <3>4 DEF SyncAnnounces
      <4> QED
        BY <2>1, <3>1, <4>1, <4>2 DEF PauseIsAudited, Paused
    <3> QED
      BY <3>2, <3>3, <3>4
  <2>9. CASE UNCHANGED vars
    BY <2>9 DEF vars, PauseIsAudited, Paused
  <2> QED
    BY <2>3, <2>4, <2>5, <2>6, <2>7, <2>8, <2>9 DEF Next
<1> QED
  BY <1>1, <1>2, RecordIsSound, PTL DEF Spec

(* Both of the invariants of the stored record, for all timelocks,         *)
(* durations and accounts.                                                 *)
THEOREM RecordIsTrusted == Spec => []RecordIsAudited
  BY RecordIsSound, PauseIsAnnounced, PTL DEF RecordIsAudited

-----------------------------------------------------------------------------
(* The token store.                                                        *)

Token(S) == [kind : {"access", "refresh"}, subject : S, expires : Nat]

\* A store of tokens for the subjects in S.
Stores(S) ==
  [live : SUBSET Nat, revoked : SUBSET Nat, paired : UNION {[D -> Nat] : D \in SUBSET Nat},
   issued : Seq(Token(S))]

\* A store that is one and is sound.
Sound(S, st) == st \in Stores(S) /\ StoreIsSound(st)

(* A sequence with two more elements.                                        *)
LEMMA TwoMore ==
  ASSUME NEW S, NEW s \in Seq(S), NEW a \in S, NEW b \in S
  PROVE  /\ s \o <<a, b>> \in Seq(S) /\ Len(s) \in Nat
         /\ DOMAIN s = 1 .. Len(s) /\ DOMAIN (s \o <<a, b>>) = 1 .. Len(s) + 2
         /\ Len(s \o <<a, b>>) = Len(s) + 2
         /\ \A i \in 1 .. Len(s) : (s \o <<a, b>>)[i] = s[i]
         /\ (s \o <<a, b>>)[Len(s) + 1] = a /\ (s \o <<a, b>>)[Len(s) + 2] = b
  OBVIOUS

LEMMA EmptyIsSound == ASSUME NEW S PROVE Sound(S, EmptyStore)
<1> DEFINE e == [r \in {} |-> 0]
<1>1. e \in [{} -> Nat] /\ {} \in SUBSET Nat
  OBVIOUS
<1>2. e \in UNION {[D -> Nat] : D \in SUBSET Nat} /\ DOMAIN e = {}
  BY <1>1
<1> HIDE DEF e
<1>3. EmptyStore = [live |-> {}, revoked |-> {}, paired |-> e, issued |-> <<>>]
  BY DEF EmptyStore, e
<1>4. EmptyStore \in Stores(S)
  BY <1>2, <1>3 DEF Stores
<1>5. StoreIsSound(EmptyStore)
  BY <1>2, <1>3 DEF StoreIsSound
<1> QED
  BY <1>4, <1>5 DEF Sound

\* What issue_pair makes of a store.
PairAdded(S, st, s, n) ==
  LET a == Len(st.issued) + 1
      r == Len(st.issued) + 2
  IN  /\ Sound(S, n)
      /\ n.live = st.live \union {a, r} /\ n.revoked = st.revoked
      /\ DOMAIN n.paired = DOMAIN st.paired \union {r} /\ n.paired[r] = a
      /\ \A x \in DOMAIN st.paired : n.paired[x] = st.paired[x]
      /\ Len(st.issued) \in Nat /\ Len(n.issued) = Len(st.issued) + 2
      /\ DOMAIN st.issued = 1 .. Len(st.issued) /\ DOMAIN n.issued = 1 .. Len(st.issued) + 2
      /\ \A i \in DOMAIN st.issued : n.issued[i] = st.issued[i]
      /\ n.issued[a].subject = s /\ n.issued[a].kind = "access"
      /\ n.issued[r].subject = s /\ n.issued[r].kind = "refresh"

LEMMA IssueIsSound ==
  ASSUME NEW S, NEW st, Sound(S, st), NEW s \in S, NEW t \in Nat
  PROVE  PairAdded(S, st, s, IssuePair(st, s, t))
<1> DEFINE x == [kind |-> "access", subject |-> s, expires |-> t + AccessLife]
           y == [kind |-> "refresh", subject |-> s, expires |-> t + RefreshLife]
           q == st.issued
           l == q \o <<x, y>>
           a == Len(q) + 1
           r == Len(q) + 2
           p == [z \in DOMAIN st.paired \union {r} |-> IF z = r THEN a ELSE st.paired[z]]
           n == IssuePair(st, s, t)
<1>1. /\ st \in Stores(S) /\ StoreIsSound(st) /\ q \in Seq(Token(S)) /\ x \in Token(S)
      /\ y \in Token(S) /\ st.live \in SUBSET Nat /\ st.revoked \in SUBSET Nat
      /\ st.paired \in UNION {[D -> Nat] : D \in SUBSET Nat}
  BY LifetimeAssumption DEF Sound, Stores, Token
<1>2. x.kind = "access" /\ x.subject = s /\ y.kind = "refresh" /\ y.subject = s
  OBVIOUS
<1>3. n = [live |-> st.live \union {a, r}, revoked |-> st.revoked, paired |-> p, issued |-> l]
  BY DEF IssuePair, NextAccess, NextRefresh
<1> HIDE DEF n, x, y, q
<1>4. /\ l \in Seq(Token(S)) /\ Len(q) \in Nat /\ DOMAIN q = 1 .. Len(q)
      /\ DOMAIN l = 1 .. Len(q) + 2 /\ Len(l) = Len(q) + 2
      /\ \A i \in 1 .. Len(q) : l[i] = q[i]
      /\ l[a] = x /\ l[r] = y
  BY <1>1, TwoMore
<1> HIDE DEF l
<1>5. /\ st.live \intersect st.revoked = {} /\ st.live \union st.revoked = 1 .. Len(q)
      /\ \A z \in DOMAIN st.paired :
           /\ z \in 1 .. Len(q) /\ q[z].kind # "access" /\ st.paired[z] \in 1 .. Len(q)
           /\ q[st.paired[z]].kind = "access" /\ q[z].subject = q[st.paired[z]].subject
  BY <1>1, <1>4 DEF StoreIsSound, Refreshes, Accesses, q
<1>6. /\ DOMAIN p = DOMAIN st.paired \union {r} /\ p[r] = a
      /\ \A z \in DOMAIN st.paired : z # r /\ p[z] = st.paired[z]
  BY <1>4, <1>5
<1>7. DOMAIN p \in SUBSET Nat /\ p \in [DOMAIN p -> Nat]
  BY <1>4, <1>5
<1> HIDE DEF p
<1>8. p \in UNION {[D -> Nat] : D \in SUBSET Nat}
  BY <1>7
<1>9. n \in Stores(S)
  BY <1>1, <1>3, <1>4, <1>8 DEF Stores
<1>10. /\ n.live = st.live \union {a, r} /\ n.revoked = st.revoked /\ n.paired = p
       /\ n.issued = l
  BY <1>3
<1>11. StoreIsSound(n)
  <2>1. n.live \intersect n.revoked = {} /\ n.live \union n.revoked = DOMAIN n.issued
    BY <1>4, <1>5, <1>10
  <2>2. ASSUME NEW z \in DOMAIN p
        PROVE  /\ z \in DOMAIN l /\ l[z].kind # "access" /\ p[z] \in DOMAIN l
               /\ l[p[z]].kind = "access" /\ l[z].subject = l[p[z]].subject
    <3>1. CASE z = r
      BY <1>2, <1>4, <1>6, <3>1
    <3>2. CASE z \in DOMAIN st.paired
      BY <1>4, <1>5, <1>6, <3>2
    <3> QED
      BY <1>6, <3>1, <3>2
  <2> QED
    BY <1>10, <2>1, <2>2 DEF StoreIsSound, Refreshes, Accesses
<1> QED
  BY <1>2, <1>4, <1>6, <1>9, <1>10, <1>11 DEF PairAdded, Sound, q, n

\* What is left of a store in which ids are revoked and the pairs of other
\* refresh tokens kept.
TokensGone(S, st, ids, kept, n) ==
  /\ Sound(S, n)
  /\ n.live = st.live \ ids /\ n.revoked = st.revoked \union ids /\ n.issued = st.issued
  /\ DOMAIN n.paired = kept /\ \A r \in kept : n.paired[r] = st.paired[r]

LEMMA RevokeIsSound ==
  ASSUME NEW S, NEW st, Sound(S, st), NEW ids, ids \subseteq DOMAIN st.issued,
         NEW kept, kept \subseteq DOMAIN st.paired,
         NEW n, n = [live |-> st.live \ ids, revoked |-> st.revoked \union ids,
                     paired |-> [r \in kept |-> st.paired[r]], issued |-> st.issued]
  PROVE  TokensGone(S, st, ids, kept, n)
<1> DEFINE p == [r \in kept |-> st.paired[r]]
<1>1. /\ st \in Stores(S) /\ StoreIsSound(st) /\ st.issued \in Seq(Token(S))
      /\ st.live \in SUBSET Nat /\ st.revoked \in SUBSET Nat /\ DOMAIN st.issued \subseteq Nat
  BY DEF Sound, Stores
<1>2. PICK D \in SUBSET Nat : st.paired \in [D -> Nat]
  BY <1>1 DEF Stores
<1>3. DOMAIN p = kept /\ kept \in SUBSET Nat /\ p \in [kept -> Nat]
      /\ \A r \in kept : p[r] = st.paired[r]
  BY <1>2
<1> HIDE DEF p
<1>4. p \in UNION {[E -> Nat] : E \in SUBSET Nat}
  BY <1>3
<1>5. /\ n.live = st.live \ ids /\ n.revoked = st.revoked \union ids /\ n.paired = p
      /\ n.issued = st.issued
  BY DEF p
<1>6. n \in Stores(S)
  BY <1>1, <1>4 DEF Stores, p
<1>7. StoreIsSound(n)
  BY <1>1, <1>3, <1>5 DEF StoreIsSound, Refreshes, Accesses
<1> QED
  BY <1>3, <1>5, <1>6, <1>7 DEF TokensGone, Sound

\* A store is a record of its four fields.
LEMMA StoreFields ==
  ASSUME NEW S, NEW st, Sound(S, st)
  PROVE  /\ st = [live |-> st.live, revoked |-> st.revoked, paired |-> st.paired,
                  issued |-> st.issued]
         /\ st.paired = [r \in DOMAIN st.paired |-> st.paired[r]]
         /\ DOMAIN st.paired \subseteq DOMAIN st.issued /\ st.live \subseteq DOMAIN st.issued
  BY DEF Sound, Stores, StoreIsSound, Refreshes


LEMMA RevokeFields ==
  ASSUME NEW S, NEW st, Sound(S, st), NEW ids
  PROVE  Revoke(st, ids) =
           [live |-> st.live \ ids, revoked |-> st.revoked \union ids, paired |-> st.paired,
            issued |-> st.issued]
<1>1. PICK l, r, p, q : st = [live |-> l, revoked |-> r, paired |-> p, issued |-> q]
  BY DEF Sound, Stores
<1>2. Revoke(st, ids) = [live |-> l \ ids, revoked |-> r \union ids, paired |-> p, issued |-> q]
  <2> DEFINE a == l \ ids
             b == r \union ids
  <2>1. Revoke(st, ids) = [st EXCEPT !.live = a, !.revoked = b]
    <3>1. st.live = l /\ st.revoked = r
      BY <1>1
    <3> QED
      BY <3>1 DEF Revoke
  <2> HIDE DEF a, b
  <2>2. [st EXCEPT !.live = a, !.revoked = b]
          = [live |-> a, revoked |-> b, paired |-> p, issued |-> q]
    <3>1. PICK m : m = [st EXCEPT !.live = a]
      OBVIOUS
    <3>2. m = [live |-> a, revoked |-> r, paired |-> p, issued |-> q]
      BY <1>1, <3>1
    <3>3. [st EXCEPT !.live = a, !.revoked = b] = [m EXCEPT !.revoked = b]
      BY <1>1, <3>1
    <3> HIDE <3>1
    <3> QED
      BY <3>2, <3>3
  <2> QED
    BY <2>1, <2>2 DEF a, b
<1> QED
  BY <1>1, <1>2

LEMMA RevokeGone ==
  ASSUME NEW S, NEW st, Sound(S, st), NEW ids, ids \subseteq DOMAIN st.issued
  PROVE  TokensGone(S, st, ids, DOMAIN st.paired, Revoke(st, ids))
<1> DEFINE n == Revoke(st, ids)
<1>1. n = [live |-> st.live \ ids, revoked |-> st.revoked \union ids, paired |-> st.paired,
           issued |-> st.issued]
  BY RevokeFields
<1>2. st.paired = [r \in DOMAIN st.paired |-> st.paired[r]]
  BY StoreFields
<1> HIDE DEF n
<1>3. n = [live |-> st.live \ ids, revoked |-> st.revoked \union ids,
           paired |-> [r \in DOMAIN st.paired |-> st.paired[r]], issued |-> st.issued]
  BY <1>1, <1>2
<1>4. TokensGone(S, st, ids, DOMAIN st.paired, n)
  BY <1>3, RevokeIsSound
<1> QED
  BY <1>4 DEF n

LEMMA RevokeAllGone ==
  ASSUME NEW S, NEW st, Sound(S, st), NEW s
  PROVE  LET ids == st.live \intersect Of(st, s)
         IN  TokensGone(S, st, ids, DOMAIN st.paired \ ids, RevokeAll(st, s))
<1> DEFINE ids == st.live \intersect Of(st, s)
           kept == DOMAIN st.paired \ ids
           n == RevokeAll(st, s)
           rest == Revoke(st, ids)
<1>1. rest = [live |-> st.live \ ids, revoked |-> st.revoked \union ids, paired |-> st.paired,
              issued |-> st.issued]
  BY RevokeFields
<1>2. n = [live |-> st.live \ ids, revoked |-> st.revoked \union ids,
           paired |-> [r \in kept |-> st.paired[r]], issued |-> st.issued]
  <2>1. n = [rest EXCEPT !.paired = [r \in DOMAIN @ \ ids |-> @[r]]]
    BY DEF RevokeAll
  <2> HIDE DEF n, rest, ids
  <2> QED
    BY <1>1, <2>1
<1>3. ids \subseteq DOMAIN st.issued /\ kept \subseteq DOMAIN st.paired
  BY DEF Of
<1> HIDE DEF n, ids, kept
<1>4. TokensGone(S, st, ids, kept, n)
  BY <1>2, <1>3, RevokeIsSound
<1> QED
  BY <1>4 DEF n, ids, kept

\* What a rotation revokes.
Rotated(st, id) ==
  {id} \union IF id \in DOMAIN st.paired THEN {st.paired[id]}
              ELSE Accesses(st) \intersect st.live \intersect Of(st, st.issued[id].subject)

LEMMA RotateIs ==
  ASSUME NEW S, NEW st, Sound(S, st), NEW id \in st.live, NEW t \in Nat
  PROVE  /\ st.issued[id].subject \in S
         /\ \E mid : /\ TokensGone(S, st, Rotated(st, id), DOMAIN st.paired \ {id}, mid)
                     /\ PairAdded(S, mid, st.issued[id].subject, Rotate(st, id, t))
<1> DEFINE s == st.issued[id].subject
           ids == Rotated(st, id)
           kept == DOMAIN st.paired \ {id}
           mid == [live |-> st.live \ ids, revoked |-> st.revoked \union ids,
                   paired |-> [r \in kept |-> st.paired[r]], issued |-> st.issued]
           rest == Revoke(st, ids)
<1>1. s \in S /\ ids \subseteq DOMAIN st.issued /\ kept \subseteq DOMAIN st.paired
  <2>1. st.issued \in Seq(Token(S)) /\ id \in DOMAIN st.issued
    BY DEF Sound, Stores, StoreIsSound
  <2>2. st.issued[id] \in Token(S)
    BY <2>1
  <2>3. ids \subseteq DOMAIN st.issued
    BY <2>1 DEF Sound, StoreIsSound, Accesses, Rotated
  <2> QED
    BY <2>2, <2>3 DEF Token
<1>2. Rotate(st, id, t) = IssuePair(mid, s, t)
  <2>1. rest = [live |-> st.live \ ids, revoked |-> st.revoked \union ids,
                paired |-> st.paired, issued |-> st.issued]
    BY RevokeFields
  <2>2. Rotate(st, id, t) =
          IssuePair([rest EXCEPT !.paired = [r \in DOMAIN @ \ {id} |-> @[r]]], s, t)
    BY DEF Rotate, Rotated
  <2> HIDE DEF rest, ids
  <2>3. [rest EXCEPT !.paired = [r \in DOMAIN @ \ {id} |-> @[r]]] = mid
    BY <2>1
  <2> QED
    BY <2>2, <2>3
<1> HIDE DEF ids, kept, s
<1>3. TokensGone(S, st, ids, kept, mid)
  BY <1>1, RevokeIsSound
<1> HIDE DEF mid
<1>4. PairAdded(S, mid, s, IssuePair(mid, s, t))
  BY <1>1, <1>3, IssueIsSound DEF TokensGone
<1> QED
  BY <1>1, <1>2, <1>3, <1>4 DEF s, ids, kept


-----------------------------------------------------------------------------
(* Sessions.                                                               *)

Session == [subject : Users, access : Nat, refresh : Nat, superseded : BOOLEAN]

\* The tokens of a session are a pair of its subject's that can be rotated.
PairHeld(st, x) ==
  /\ x.access \in Accesses(st) /\ x.refresh \in Refreshes(st)
  /\ st.issued[x.access].subject = x.subject /\ st.issued[x.refresh].subject = x.subject
  /\ ~x.superseded => x.refresh \in DOMAIN st.paired /\ st.paired[x.refresh] = x.access

\* A session that is open holds the token.
IsHeld(ss, id) ==
  \E i \in DOMAIN ss : ~ss[i].superseded /\ (id = ss[i].access \/ id = ss[i].refresh)

\* No two sessions share a token, and the live tokens are those of the open ones.
Fit(st, ss) ==
  /\ Sound(Users, st) /\ ss \in Seq(Session)
  /\ \A i \in DOMAIN ss : PairHeld(st, ss[i])
  /\ \A i, j \in DOMAIN ss :
       i # j => ss[i].access # ss[j].access /\ ss[i].refresh # ss[j].refresh
  /\ \A id : id \in st.live <=> IsHeld(ss, id)

(* The tokens of a session are two, and nobody else has one of them.         *)
LEMMA TokensApart ==
  ASSUME NEW st, NEW ss, Fit(st, ss), NEW i \in DOMAIN ss, NEW j \in DOMAIN ss
  PROVE  /\ ss[i].access # ss[j].refresh
         /\ i # j => ss[i].access # ss[j].access /\ ss[i].refresh # ss[j].refresh
  BY DEF Fit, PairHeld, Refreshes

(* A session that is open, or closed, in a step that revokes tokens.         *)
LEMMA FitGone ==
  ASSUME NEW st, NEW ss, Fit(st, ss), NEW ids, NEW kept, NEW n, TokensGone(Users, st, ids, kept, n),
         NEW tt \in Seq(Session), DOMAIN tt = DOMAIN ss,
         \A i \in DOMAIN ss :
           /\ tt[i].access = ss[i].access /\ tt[i].refresh = ss[i].refresh
           /\ tt[i].subject = ss[i].subject
           /\ ~tt[i].superseded => /\ ~ss[i].superseded /\ ss[i].access \notin ids
                                   /\ ss[i].refresh \notin ids /\ ss[i].refresh \in kept
           /\ ~ss[i].superseded /\ tt[i].superseded => ss[i].access \in ids /\ ss[i].refresh \in ids
  PROVE  Fit(n, tt)
<1>1. /\ n.live = st.live \ ids /\ n.issued = st.issued /\ Sound(Users, n)
      /\ DOMAIN n.paired = kept /\ \A r \in kept : n.paired[r] = st.paired[r]
  BY DEF TokensGone
<1>2. \A i \in DOMAIN tt : PairHeld(n, tt[i])
  BY <1>1 DEF Fit, PairHeld, Accesses, Refreshes
<1>3. ASSUME NEW id PROVE id \in n.live <=> IsHeld(tt, id)
  <2>1. ASSUME id \in n.live PROVE IsHeld(tt, id)
    <3>1. PICK i \in DOMAIN ss : ~ss[i].superseded /\ (id = ss[i].access \/ id = ss[i].refresh)
      BY <1>1, <2>1 DEF Fit, IsHeld
    <3>2. ~tt[i].superseded
      BY <1>1, <2>1, <3>1
    <3> QED
      BY <3>1, <3>2 DEF IsHeld
  <2>2. ASSUME IsHeld(tt, id) PROVE id \in n.live
    <3>1. PICK i \in DOMAIN ss : ~tt[i].superseded /\ (id = tt[i].access \/ id = tt[i].refresh)
      BY <2>2 DEF IsHeld
    <3>2. ~ss[i].superseded /\ id \notin ids /\ (id = ss[i].access \/ id = ss[i].refresh)
      BY <3>1
    <3> QED
      BY <1>1, <3>2 DEF Fit, IsHeld
  <2> QED
    BY <2>1, <2>2
<1> QED
  BY <1>1, <1>2, <1>3 DEF Fit

(* A pair that comes to a session opens it.                                  *)
LEMMA FitOpened ==
  ASSUME NEW st, NEW ss, Fit(st, ss), NEW s, NEW n, PairAdded(Users, st, s, n),
         NEW k, NEW tt \in Seq(Session), DOMAIN tt = DOMAIN ss \union {k},
         k \in DOMAIN ss => ss[k].superseded,
         \A i \in DOMAIN ss \ {k} : tt[i] = ss[i],
         tt[k].subject = s, ~tt[k].superseded,
         tt[k].access = Len(st.issued) + 1, tt[k].refresh = Len(st.issued) + 2
  PROVE  Fit(n, tt)
<1> DEFINE a == Len(st.issued) + 1
           r == Len(st.issued) + 2
<1>1. /\ Sound(Users, n) /\ n.live = st.live \union {a, r}
      /\ DOMAIN n.paired = DOMAIN st.paired \union {r} /\ n.paired[r] = a
      /\ \A x \in DOMAIN st.paired : n.paired[x] = st.paired[x]
      /\ Len(st.issued) \in Nat /\ DOMAIN st.issued = 1 .. Len(st.issued)
      /\ DOMAIN n.issued = 1 .. Len(st.issued) + 2
      /\ \A i \in DOMAIN st.issued : n.issued[i] = st.issued[i]
      /\ n.issued[a].subject = s /\ n.issued[a].kind = "access"
      /\ n.issued[r].subject = s /\ n.issued[r].kind = "refresh"
  BY DEF PairAdded
<1>2. tt[k].access = a /\ tt[k].refresh = r /\ tt[k].subject = s /\ ~tt[k].superseded
  OBVIOUS
<1>3. \A x \in DOMAIN st.issued : x # a /\ x # r
  BY <1>1
<1>4. \A i \in DOMAIN ss : ss[i].access \in DOMAIN st.issued /\ ss[i].refresh \in DOMAIN st.issued
  BY DEF Fit, PairHeld, Accesses, Refreshes
<1>5. ASSUME NEW i \in DOMAIN tt PROVE PairHeld(n, tt[i])
  <2>1. CASE i = k
    BY <1>1, <1>2, <2>1 DEF PairHeld, Accesses, Refreshes
  <2>2. CASE i # k
    <3>1. i \in DOMAIN ss /\ tt[i] = ss[i] /\ PairHeld(st, ss[i])
      BY <2>2 DEF Fit
    <3> DEFINE x == ss[i]
    <3>2. /\ x.access \in DOMAIN n.issued /\ n.issued[x.access] = st.issued[x.access]
          /\ x.refresh \in DOMAIN n.issued /\ n.issued[x.refresh] = st.issued[x.refresh]
      BY <1>1, <1>4, <3>1
    <3>3. ~x.superseded => x.refresh \in DOMAIN n.paired /\ n.paired[x.refresh] = x.access
      BY <1>1, <3>1 DEF PairHeld
    <3> HIDE DEF x
    <3>4. PairHeld(n, x)
      BY <3>1, <3>2, <3>3 DEF PairHeld, Accesses, Refreshes, x
    <3> QED
      BY <3>1, <3>4 DEF x
  <2> QED
    BY <2>1, <2>2
<1>6. ASSUME NEW i \in DOMAIN tt, NEW j \in DOMAIN tt, i # j
      PROVE  tt[i].access # tt[j].access /\ tt[i].refresh # tt[j].refresh
  BY <1>2, <1>3, <1>4, <1>6 DEF Fit
<1>7. ASSUME NEW id PROVE id \in n.live <=> IsHeld(tt, id)
  <2>1. ASSUME id \in n.live PROVE IsHeld(tt, id)
    <3>1. CASE id \in {a, r}
      BY <1>2, <3>1 DEF IsHeld
    <3>2. CASE id \in st.live
      <4>1. PICK i \in DOMAIN ss : ~ss[i].superseded /\ (id = ss[i].access \/ id = ss[i].refresh)
        BY <3>2 DEF Fit, IsHeld
      <4>2. tt[i] = ss[i]
        BY <4>1
      <4> QED
        BY <4>1, <4>2 DEF IsHeld
    <3> QED
      BY <1>1, <2>1, <3>1, <3>2
  <2>2. ASSUME IsHeld(tt, id) PROVE id \in n.live
    <3>1. PICK i \in DOMAIN tt : ~tt[i].superseded /\ (id = tt[i].access \/ id = tt[i].refresh)
      BY <2>2 DEF IsHeld
    <3>2. CASE i = k
      BY <1>1, <1>2, <3>1, <3>2
    <3>3. CASE i # k
      <4>1. IsHeld(ss, id)
        BY <3>1, <3>3 DEF IsHeld
      <4> QED
        BY <1>1, <4>1 DEF Fit
    <3> QED
      BY <3>2, <3>3
  <2> QED
    BY <2>1, <2>2
<1> QED
  BY <1>1, <1>5, <1>6, <1>7 DEF Fit


LEMMA OneMore ==
  ASSUME NEW S, NEW s \in Seq(S), NEW e \in S
  PROVE  /\ Append(s, e) \in Seq(S) /\ Len(s) \in Nat
         /\ DOMAIN s = 1 .. Len(s) /\ DOMAIN Append(s, e) = 1 .. Len(s) + 1
         /\ Len(s) + 1 \notin DOMAIN s /\ DOMAIN Append(s, e) = DOMAIN s \union {Len(s) + 1}
         /\ \A i \in DOMAIN s : Append(s, e)[i] = s[i]
         /\ Append(s, e)[Len(s) + 1] = e
  OBVIOUS

Attempt == [count : 0 .. MaxAttempts, until : Nat \union {Never}]
Bar == [since : Nat \union {Never}, tried : Nat, cut : Nat]
Grant == [for : Nat, at : Nat, since : Nat \union {Never}]

\* The passwords tried are those counted, and while a lockout has not been
\* lifted its end is known; once it is lifted, it is over.
UserFits(a, b, t) ==
  /\ a \in Attempt /\ b \in Bar
  /\ a.until = Never => /\ b.tried <= a.count
                        /\ b.since # Never => t >= b.since + Lockout
  /\ a.until # Never => b.tried = 0 /\ b.since # Never /\ a.until = b.since + Lockout

GrantFits(g) == g \in Grant /\ (g.since # Never => g.at >= g.since + Lockout)

\* The inductive invariant, in three parts.
LockoutInv ==
  /\ clock \in Nat
  /\ attempts \in [Users -> Attempt] /\ barred \in [Users -> Bar]
  /\ \A s \in Users : UserFits(attempts[s], barred[s], clock)

\* A refresh token that a pair was given for is revoked.
GrantsInv ==
  /\ grants \in Seq(Grant)
  /\ \A k \in DOMAIN grants : /\ GrantFits(grants[k])
                              /\ grants[k].for # 0 => grants[k].for \in tokens.revoked
  /\ \A j, k \in DOMAIN grants : j # k /\ grants[j].for # 0 => grants[j].for # grants[k].for

CutsFit(st, bars) ==
  /\ \A s \in Users : bars[s].cut \in Nat /\ bars[s].cut <= Len(st.issued)
  /\ \A id \in st.live : id > bars[st.issued[id].subject].cut

StoreInv == Fit(tokens, sessions) /\ CutsFit(tokens, barred)

SessionsInv == LockoutInv /\ GrantsInv /\ StoreInv

LEMMA SessionsInitInv == SessionsInit => SessionsInv
<1> SUFFICES ASSUME SessionsInit PROVE SessionsInv
  OBVIOUS
<1>1. LockoutInv
  <2>1. clock = 0 /\ attempts \in [Users -> Attempt] /\ barred \in [Users -> Bar]
    BY SessionsAssumption DEF SessionsInit, Attempt, Bar
  <2>2. \A s \in Users : /\ attempts[s].until = Never /\ attempts[s].count = 0
                         /\ barred[s].tried = 0 /\ barred[s].since = Never
    BY DEF SessionsInit
  <2> QED
    BY <2>1, <2>2 DEF LockoutInv, UserFits
<1>2. GrantsInv
  BY DEF SessionsInit, GrantsInv
<1>3. StoreInv
  <2>1. Sound(Users, tokens) /\ sessions = <<>> /\ tokens.live = {} /\ Len(tokens.issued) = 0
    BY EmptyIsSound DEF SessionsInit, EmptyStore
  <2>2. Fit(tokens, sessions)
    BY <2>1 DEF Fit, IsHeld
  <2>3. \A s \in Users : barred[s].cut = 0
    BY DEF SessionsInit
  <2> QED
    BY <2>1, <2>2, <2>3 DEF StoreInv, CutsFit
<1> QED
  BY <1>1, <1>2, <1>3 DEF SessionsInv

(* A step that touches what is kept of one user's passwords.                 *)
LEMMA OneUserFits ==
  ASSUME LockoutInv, NEW s \in Users, NEW a, NEW b, UserFits(a, b, clock),
         attempts' = [attempts EXCEPT ![s] = a], barred' = [barred EXCEPT ![s] = b],
         b.cut = barred[s].cut, UNCHANGED clock
  PROVE  LockoutInv' /\ \A u \in Users : barred'[u].cut = barred[u].cut
<1>1. a \in Attempt /\ b \in Bar
  BY DEF UserFits
<1>2. /\ attempts' \in [Users -> Attempt] /\ barred' \in [Users -> Bar]
      /\ attempts'[s] = a /\ barred'[s] = b
      /\ \A u \in Users \ {s} : attempts'[u] = attempts[u] /\ barred'[u] = barred[u]
  BY <1>1 DEF LockoutInv
<1>3. \A u \in Users : UserFits(attempts'[u], barred'[u], clock)
  BY <1>2 DEF LockoutInv
<1> QED
  BY <1>2, <1>3 DEF LockoutInv

(* The subject of a token is a user.                                         *)
LEMMA SubjectIsUser ==
  ASSUME NEW st, Sound(Users, st), NEW id \in DOMAIN st.issued
  PROVE  st.issued[id].subject \in Users
<1>1. st.issued \in Seq(Token(Users))
  BY DEF Sound, Stores
<1>2. st.issued[id] \in Token(Users)
  BY <1>1
<1> QED
  BY <1>2 DEF Token

(* A login that is refused touches no token.                                 *)
LEMMA RefusedInv ==
  ASSUME SessionsInv, LockoutInv', \A u \in Users : barred'[u].cut = barred[u].cut,
         UNCHANGED <<tokens, sessions, grants>>
  PROVE  SessionsInv'
<1>1. GrantsInv'
  BY DEF SessionsInv, GrantsInv
<1>2. CutsFit(tokens, barred')
  <2>1. CutsFit(tokens, barred) /\ Sound(Users, tokens)
    BY DEF SessionsInv, StoreInv, Fit
  <2>2. \A id \in tokens.live : tokens.issued[id].subject \in Users
    BY <2>1, SubjectIsUser DEF Sound, StoreIsSound
  <2> QED
    BY <2>1, <2>2 DEF CutsFit
<1> QED
  BY <1>1, <1>2 DEF SessionsInv, StoreInv

LEMMA LoginStartsLockoutInv ==
  ASSUME SessionsInv, NEW s \in Users, LoginStartsLockout(s), UNCHANGED clock
  PROVE  SessionsInv'
<1> DEFINE a == [attempts[s] EXCEPT !.until = clock + Lockout]
           b == [barred[s] EXCEPT !.since = clock, !.tried = 0]
<1>1. /\ attempts[s] \in Attempt /\ barred[s] \in Bar /\ clock \in Nat
      /\ attempts \in [Users -> Attempt] /\ barred \in [Users -> Bar]
  BY DEF SessionsInv, LockoutInv
<1>2. clock + Lockout \in Nat /\ clock + Lockout # Never /\ clock # Never
  BY <1>1, SessionsAssumption
<1>3. /\ a \in Attempt /\ a.until = clock + Lockout
      /\ b \in Bar /\ b.since = clock /\ b.tried = 0 /\ b.cut = barred[s].cut
  BY <1>1, <1>2 DEF Attempt, Bar
<1>4. attempts' = [attempts EXCEPT ![s] = a]
  BY DEF LoginStartsLockout
<1>5. barred' = [barred EXCEPT ![s] = b]
  BY <1>1 DEF LoginStartsLockout
<1> HIDE DEF a, b
<1>6. UserFits(a, b, clock)
  BY <1>2, <1>3 DEF UserFits
<1>7. LockoutInv' /\ \A u \in Users : barred'[u].cut = barred[u].cut
  BY <1>3, <1>4, <1>5, <1>6, OneUserFits DEF SessionsInv
<1>8. UNCHANGED <<tokens, sessions, grants>>
  BY DEF LoginStartsLockout
<1> QED
  BY <1>7, <1>8, RefusedInv

LEMMA LoginFailsInv ==
  ASSUME SessionsInv, NEW s \in Users, LoginFails(s), UNCHANGED clock
  PROVE  SessionsInv'
<1> DEFINE n == IF attempts[s].until = Never THEN attempts[s].count + 1 ELSE 1
           a == [count |-> n, until |-> Never]
           b == [barred[s] EXCEPT !.tried = @ + 1]
<1>1. /\ attempts[s] \in Attempt /\ barred[s] \in Bar /\ clock \in Nat
      /\ attempts \in [Users -> Attempt] /\ barred \in [Users -> Bar]
      /\ UserFits(attempts[s], barred[s], clock)
  BY DEF SessionsInv, LockoutInv
<1>2. /\ n \in 0 .. MaxAttempts /\ barred[s].tried + 1 <= n
      /\ barred[s].since # Never => clock >= barred[s].since + Lockout
  BY <1>1, SessionsAssumption DEF LoginFails, Exhausted, Locked, UserFits, Attempt, Bar
<1> HIDE DEF n
<1>3. /\ a \in Attempt /\ a.until = Never /\ a.count = n
      /\ b \in Bar /\ b.since = barred[s].since /\ b.tried = barred[s].tried + 1
      /\ b.cut = barred[s].cut
  BY <1>1, <1>2 DEF Attempt, Bar
<1>4. attempts' = [attempts EXCEPT ![s] = a] /\ barred' = [barred EXCEPT ![s] = b]
  BY DEF LoginFails, n
<1> HIDE DEF a, b
<1>5. UserFits(a, b, clock)
  BY <1>2, <1>3 DEF UserFits
<1>6. LockoutInv' /\ \A u \in Users : barred'[u].cut = barred[u].cut
  BY <1>3, <1>4, <1>5, OneUserFits DEF SessionsInv
<1> QED
  BY <1>6, RefusedInv DEF LoginFails

(* A pair more: its tokens come after every cut.                             *)
LEMMA CutsFitAdded ==
  ASSUME NEW st, Sound(Users, st), NEW bars, CutsFit(st, bars), NEW s \in Users, NEW n,
         PairAdded(Users, st, s, n)
  PROVE  CutsFit(n, bars)
<1>1. /\ Len(st.issued) \in Nat /\ Len(n.issued) = Len(st.issued) + 2
      /\ DOMAIN st.issued = 1 .. Len(st.issued) /\ Sound(Users, n)
      /\ n.live = st.live \union {Len(st.issued) + 1, Len(st.issued) + 2}
      /\ \A i \in DOMAIN st.issued : n.issued[i] = st.issued[i]
      /\ n.issued[Len(st.issued) + 1].subject = s /\ n.issued[Len(st.issued) + 2].subject = s
  BY DEF PairAdded
<1>2. ASSUME NEW id \in n.live PROVE id > bars[n.issued[id].subject].cut
  <2>1. CASE id \in st.live
    <3>1. id \in DOMAIN st.issued
      BY <2>1 DEF Sound, StoreIsSound
    <3> QED
      BY <1>1, <2>1, <3>1 DEF CutsFit
  <2>2. CASE id \in {Len(st.issued) + 1, Len(st.issued) + 2}
    BY <1>1, <2>2 DEF CutsFit
  <2> QED
    BY <1>1, <2>1, <2>2
<1>3. \A u \in Users : bars[u].cut \in Nat /\ bars[u].cut <= Len(n.issued)
  BY <1>1 DEF CutsFit
<1> QED
  BY <1>2, <1>3 DEF CutsFit

(* A pair more that was granted.                                             *)
LEMMA GrantedInv ==
  ASSUME GrantsInv, NEW g, GrantFits(g), grants' = Append(grants, g),
         tokens.revoked \subseteq tokens'.revoked,
         g.for # 0 => g.for \notin tokens.revoked /\ g.for \in tokens'.revoked
  PROVE  GrantsInv'
<1> DEFINE n == Len(grants) + 1
<1>1. g \in Grant /\ grants \in Seq(Grant)
  BY DEF GrantFits, GrantsInv
<1>2. /\ grants' \in Seq(Grant) /\ DOMAIN grants' = DOMAIN grants \union {n}
      /\ n \notin DOMAIN grants /\ grants'[n] = g
      /\ \A k \in DOMAIN grants : grants'[k] = grants[k]
  BY <1>1, OneMore
<1> HIDE DEF n
<1>3. ASSUME NEW k \in DOMAIN grants'
      PROVE  GrantFits(grants'[k]) /\ (grants'[k].for # 0 => grants'[k].for \in tokens'.revoked)
  BY <1>2 DEF GrantsInv
<1>4. ASSUME NEW j \in DOMAIN grants', NEW k \in DOMAIN grants', j # k, grants'[j].for # 0
      PROVE  grants'[j].for # grants'[k].for
  BY <1>2, <1>4 DEF GrantsInv
<1> QED
  BY <1>2, <1>3, <1>4 DEF GrantsInv

LEMMA LoginSucceedsInv ==
  ASSUME SessionsInv, NEW s \in Users, LoginSucceeds(s), UNCHANGED clock
  PROVE  SessionsInv'
<1> DEFINE a == [count |-> 0, until |-> Never]
           b == [barred[s] EXCEPT !.tried = 0]
           g == [for |-> 0, at |-> clock, since |-> barred[s].since]
           x == [subject |-> s, access |-> Len(tokens.issued) + 1,
                 refresh |-> Len(tokens.issued) + 2, superseded |-> FALSE]
<1>1. /\ attempts[s] \in Attempt /\ barred[s] \in Bar /\ clock \in Nat
      /\ attempts \in [Users -> Attempt] /\ barred \in [Users -> Bar]
      /\ UserFits(attempts[s], barred[s], clock)
      /\ Sound(Users, tokens) /\ Fit(tokens, sessions) /\ CutsFit(tokens, barred)
      /\ sessions \in Seq(Session)
  BY DEF SessionsInv, LockoutInv, StoreInv, Fit
<1>2. barred[s].since # Never => clock >= barred[s].since + Lockout
  BY <1>1 DEF LoginSucceeds, Exhausted, Locked, UserFits, Attempt, Bar
<1>3. /\ a \in Attempt /\ a.until = Never /\ a.count = 0
      /\ b \in Bar /\ b.since = barred[s].since /\ b.tried = 0 /\ b.cut = barred[s].cut
  <2>1. a \in Attempt
    BY SessionsAssumption DEF Attempt
  <2>2. b \in Bar /\ b.since = barred[s].since /\ b.tried = 0 /\ b.cut = barred[s].cut
    BY <1>1 DEF Bar
  <2> QED
    BY <2>1, <2>2
<1>4. UserFits(a, b, clock)
  BY <1>2, <1>3 DEF UserFits
<1>5. /\ attempts' = [attempts EXCEPT ![s] = a] /\ barred' = [barred EXCEPT ![s] = b]
      /\ sessions' = Append(sessions, x) /\ tokens' = IssuePair(tokens, s, clock)
      /\ grants' = Append(grants, g)
  BY DEF LoginSucceeds, NextAccess, NextRefresh
<1>6. g.for = 0 /\ GrantFits(g)
  BY <1>1, <1>2 DEF GrantFits, Grant, Bar
<1> HIDE DEF a, b, g
<1>7. LockoutInv' /\ \A u \in Users : barred'[u].cut = barred[u].cut
  BY <1>3, <1>4, <1>5, OneUserFits DEF SessionsInv
<1>8. PairAdded(Users, tokens, s, tokens')
  BY <1>1, <1>5, IssueIsSound
<1>9. GrantsInv'
  BY <1>5, <1>6, <1>8, GrantedInv DEF SessionsInv, PairAdded
<1>10. Fit(tokens', sessions')
  <2>1. x \in Session
    BY <1>8 DEF Session, PairAdded
  <2>2. /\ sessions' \in Seq(Session) /\ Len(sessions) + 1 \notin DOMAIN sessions
        /\ DOMAIN sessions' = DOMAIN sessions \union {Len(sessions) + 1}
        /\ \A i \in DOMAIN sessions : sessions'[i] = sessions[i]
        /\ sessions'[Len(sessions) + 1] = x
    <3> HIDE DEF x
    <3> QED
      BY <1>1, <1>5, <2>1, OneMore
  <2>3. \A i \in DOMAIN sessions \ {Len(sessions) + 1} : sessions'[i] = sessions[i]
    BY <2>2
  <2>4. x.subject = s /\ ~x.superseded /\ x.access = Len(tokens.issued) + 1
        /\ x.refresh = Len(tokens.issued) + 2
    OBVIOUS
  <2> HIDE DEF x
  <2> QED
    BY <1>1, <1>8, <2>2, <2>3, <2>4, FitOpened
<1>11. CutsFit(tokens', barred')
  <2>1. CutsFit(tokens', barred)
    BY <1>1, <1>8, CutsFitAdded
  <2>2. \A id \in tokens'.live : tokens'.issued[id].subject \in Users
    BY <1>10, SubjectIsUser DEF Fit, Sound, StoreIsSound
  <2> QED
    BY <1>7, <2>1, <2>2 DEF CutsFit
<1> QED
  BY <1>7, <1>9, <1>10, <1>11 DEF SessionsInv, StoreInv

LEMMA SupersedeIs ==
  ASSUME sessions \in Seq(Session), NEW ids
  PROVE  /\ Supersede(ids) \in Seq(Session) /\ DOMAIN Supersede(ids) = DOMAIN sessions
         /\ \A i \in DOMAIN sessions :
              /\ Supersede(ids)[i].access = sessions[i].access
              /\ Supersede(ids)[i].refresh = sessions[i].refresh
              /\ Supersede(ids)[i].subject = sessions[i].subject
              /\ Supersede(ids)[i].superseded <=> sessions[i].superseded \/ i \in ids
<1> DEFINE e(i) == IF i \in ids THEN [sessions[i] EXCEPT !.superseded = TRUE] ELSE sessions[i]
<1>1. ASSUME NEW i \in DOMAIN sessions
      PROVE  /\ e(i) \in Session /\ e(i).access = sessions[i].access
             /\ e(i).refresh = sessions[i].refresh /\ e(i).subject = sessions[i].subject
             /\ e(i).superseded <=> sessions[i].superseded \/ i \in ids
  <2>1. sessions[i] \in Session
    OBVIOUS
  <2> QED
    BY <2>1 DEF Session
<1>2. Supersede(ids) = [i \in DOMAIN sessions |-> e(i)]
  BY DEF Supersede
<1> HIDE DEF e
<1>3. DOMAIN sessions = 1 .. Len(sessions) /\ Len(sessions) \in Nat
  OBVIOUS
<1>4. Supersede(ids) \in Seq(Session)
  BY <1>1, <1>2, <1>3
<1> QED
  BY <1>1, <1>2, <1>4

LEMMA CutsFitGone ==
  ASSUME NEW st, NEW bars, CutsFit(st, bars), NEW ids, NEW kept, NEW n,
         TokensGone(Users, st, ids, kept, n)
  PROVE  CutsFit(n, bars)
  BY DEF CutsFit, TokensGone

(* A cut after which nothing of its user is live.                            *)
LEMMA CutOffInv ==
  ASSUME LockoutInv, Sound(Users, tokens'), CutsFit(tokens', barred), NEW s \in Users,
         \A id \in tokens'.live : tokens'.issued[id].subject # s,
         tokens'.issued = tokens.issued, Len(tokens.issued) \in Nat,
         barred' = CutOff(s), UNCHANGED <<clock, attempts>>
  PROVE  LockoutInv' /\ CutsFit(tokens', barred')
<1> DEFINE b == [barred[s] EXCEPT !.cut = Len(tokens.issued)]
<1>1. barred[s] \in Bar /\ barred \in [Users -> Bar]
  BY DEF LockoutInv
<1>2. /\ b \in Bar /\ b.since = barred[s].since /\ b.tried = barred[s].tried
      /\ b.cut = Len(tokens.issued)
  BY <1>1 DEF Bar
<1>3. barred' = [barred EXCEPT ![s] = b]
  BY <1>1 DEF CutOff
<1> HIDE DEF b
<1>4. /\ barred' \in [Users -> Bar] /\ barred'[s] = b
      /\ \A u \in Users \ {s} : barred'[u] = barred[u]
  BY <1>1, <1>2, <1>3
<1>5. \A u \in Users : UserFits(attempts'[u], barred'[u], clock')
  <2>1. UserFits(attempts[s], b, clock)
    BY <1>2 DEF LockoutInv, UserFits
  <2> QED
    BY <1>4, <2>1 DEF LockoutInv
<1>6. CutsFit(tokens', barred')
  <2>1. \A u \in Users : barred'[u].cut \in Nat /\ barred'[u].cut <= Len(tokens'.issued)
    BY <1>2, <1>4 DEF CutsFit
  <2>2. ASSUME NEW id \in tokens'.live PROVE id > barred'[tokens'.issued[id].subject].cut
    <3>1. tokens'.issued[id].subject \in Users \ {s}
      BY SubjectIsUser DEF Sound, StoreIsSound
    <3> QED
      BY <1>4, <3>1 DEF CutsFit
  <2> QED
    BY <2>1, <2>2 DEF CutsFit
<1> QED
  BY <1>4, <1>5, <1>6 DEF LockoutInv

(* A step that revokes tokens and grants none.                               *)
LEMMA GrantsKept ==
  ASSUME GrantsInv, UNCHANGED grants, tokens.revoked \subseteq tokens'.revoked
  PROVE  GrantsInv'
  BY DEF GrantsInv

LEMMA LogoutInv ==
  ASSUME SessionsInv, NEW i \in DOMAIN sessions, Logout(i), UNCHANGED clock
  PROVE  SessionsInv'
<1>1. /\ Fit(tokens, sessions) /\ Sound(Users, tokens) /\ sessions \in Seq(Session)
      /\ CutsFit(tokens, barred) /\ LockoutInv /\ GrantsInv
  BY DEF SessionsInv, StoreInv, Fit
<1>2. /\ tokens' = Revoke(tokens, Pair(i)) /\ sessions' = Supersede({i})
      /\ UNCHANGED <<attempts, grants, barred>>
  BY DEF Logout
<1>3. Pair(i) \subseteq DOMAIN tokens.issued
  BY <1>1 DEF Fit, PairHeld, Accesses, Refreshes, Pair
<1>4. TokensGone(Users, tokens, Pair(i), DOMAIN tokens.paired, tokens')
  BY <1>1, <1>2, <1>3, RevokeGone
<1>5. Fit(tokens', sessions')
  <2>1. /\ sessions' \in Seq(Session) /\ DOMAIN sessions' = DOMAIN sessions
        /\ \A j \in DOMAIN sessions :
             /\ sessions'[j].access = sessions[j].access
             /\ sessions'[j].refresh = sessions[j].refresh
             /\ sessions'[j].subject = sessions[j].subject
             /\ sessions'[j].superseded <=> sessions[j].superseded \/ j = i
    BY <1>1, <1>2, SupersedeIs
  <2>2. \A j \in DOMAIN sessions \ {i} :
          /\ sessions[j].access \notin Pair(i) /\ sessions[j].refresh \notin Pair(i)
          /\ ~sessions[j].superseded => sessions[j].refresh \in DOMAIN tokens.paired
    BY <1>1, TokensApart DEF Pair, Fit, PairHeld
  <2>3. sessions[i].access \in Pair(i) /\ sessions[i].refresh \in Pair(i)
    BY DEF Pair
  <2> QED
    BY <1>1, <1>4, <2>1, <2>2, <2>3, FitGone
<1>6. CutsFit(tokens', barred')
  BY <1>1, <1>2, <1>4, CutsFitGone
<1>7. GrantsInv'
  BY <1>1, <1>2, <1>4, GrantsKept DEF TokensGone
<1>8. LockoutInv'
  BY <1>1, <1>2 DEF LockoutInv
<1> QED
  BY <1>5, <1>6, <1>7, <1>8 DEF SessionsInv, StoreInv

(* All that a user has open is closed and all that is live of it revoked.    *)
LEMMA FitAllGone ==
  ASSUME NEW st, NEW ss, Fit(st, ss), NEW s,
         NEW tt \in Seq(Session), DOMAIN tt = DOMAIN ss,
         \A j \in DOMAIN ss :
           /\ tt[j].access = ss[j].access /\ tt[j].refresh = ss[j].refresh
           /\ tt[j].subject = ss[j].subject
           /\ ss[j].subject = s => tt[j].superseded
           /\ ss[j].subject # s => (tt[j].superseded <=> ss[j].superseded)
  PROVE  /\ Fit(RevokeAll(st, s), tt)
         /\ \A id \in RevokeAll(st, s).live : RevokeAll(st, s).issued[id].subject # s
<1> DEFINE ids == st.live \intersect Of(st, s)
           kept == DOMAIN st.paired \ ids
           n == RevokeAll(st, s)
<1>1. TokensGone(Users, st, ids, kept, n)
  BY RevokeAllGone DEF Fit
<1>2. \A j \in DOMAIN ss :
        /\ ss[j].access \in DOMAIN st.issued /\ ss[j].refresh \in DOMAIN st.issued
        /\ st.issued[ss[j].access].subject = ss[j].subject
        /\ st.issued[ss[j].refresh].subject = ss[j].subject
        /\ ~ss[j].superseded => /\ ss[j].access \in st.live /\ ss[j].refresh \in st.live
                                /\ ss[j].refresh \in DOMAIN st.paired
  BY DEF Fit, PairHeld, Accesses, Refreshes, IsHeld
<1>3. \A id : id \in ids <=> id \in st.live /\ id \in DOMAIN st.issued /\ st.issued[id].subject = s
  BY DEF Of
<1>4. \A r : r \in kept <=> r \in DOMAIN st.paired /\ r \notin ids
  OBVIOUS
<1> HIDE DEF ids, kept, n
<1>5. \A j \in DOMAIN ss :
        /\ ~tt[j].superseded => /\ ~ss[j].superseded /\ ss[j].access \notin ids
                                /\ ss[j].refresh \notin ids /\ ss[j].refresh \in kept
        /\ ~ss[j].superseded /\ tt[j].superseded => ss[j].access \in ids /\ ss[j].refresh \in ids
  BY <1>2, <1>3, <1>4
<1>6. Fit(n, tt)
  BY <1>1, <1>5, FitGone
<1>7. \A id \in n.live : n.issued[id].subject # s
  BY <1>1, <1>3 DEF TokensGone, Fit, Sound, StoreIsSound
<1> QED
  BY <1>6, <1>7 DEF n

LEMMA LogoutAllInv ==
  ASSUME SessionsInv, NEW s \in Users, LogoutAll(s), UNCHANGED clock
  PROVE  SessionsInv'
<1> DEFINE pairs == UNION {Pair(i) : i \in Open(s)}
           mid == Revoke(tokens, pairs)
<1>1. /\ Fit(tokens, sessions) /\ Sound(Users, tokens) /\ sessions \in Seq(Session)
      /\ CutsFit(tokens, barred) /\ LockoutInv /\ GrantsInv
  BY DEF SessionsInv, StoreInv, Fit
<1>2. /\ tokens' = RevokeAll(mid, s) /\ sessions' = Supersede(Open(s)) /\ barred' = CutOff(s)
      /\ UNCHANGED <<attempts, grants>>
  BY DEF LogoutAll
<1>3. pairs \subseteq DOMAIN tokens.issued
  BY <1>1 DEF Fit, PairHeld, Accesses, Refreshes, Pair, Open
<1>4. /\ \A i \in Open(s) : sessions[i].access \in pairs /\ sessions[i].refresh \in pairs
      /\ \A i \in DOMAIN sessions \ Open(s) :
           sessions[i].access \notin pairs /\ sessions[i].refresh \notin pairs
  <2>1. ASSUME NEW i \in DOMAIN sessions \ Open(s)
        PROVE  sessions[i].access \notin pairs /\ sessions[i].refresh \notin pairs
    <3>1. \A j \in Open(s) :
            sessions[i].access \notin Pair(j) /\ sessions[i].refresh \notin Pair(j)
      BY <1>1, TokensApart DEF Pair, Open
    <3> QED
      BY <3>1
  <2> QED
    BY <2>1 DEF Pair
<1> HIDE DEF pairs, mid
<1>5. TokensGone(Users, tokens, pairs, DOMAIN tokens.paired, mid)
  BY <1>1, <1>3, RevokeGone DEF mid
<1>6. /\ sessions' \in Seq(Session) /\ DOMAIN sessions' = DOMAIN sessions
      /\ \A j \in DOMAIN sessions :
           /\ sessions'[j].access = sessions[j].access
           /\ sessions'[j].refresh = sessions[j].refresh
           /\ sessions'[j].subject = sessions[j].subject
           /\ sessions'[j].superseded <=> sessions[j].superseded \/ j \in Open(s)
  BY <1>1, <1>2, SupersedeIs
<1>7. Fit(mid, sessions')
  <2>1. \A j \in DOMAIN sessions :
          ~sessions[j].superseded => sessions[j].refresh \in DOMAIN tokens.paired
    BY <1>1 DEF Fit, PairHeld
  <2> QED
    BY <1>1, <1>4, <1>5, <1>6, <2>1, FitGone
<1>8. Fit(tokens', sessions') /\ \A id \in tokens'.live : tokens'.issued[id].subject # s
  <2>1. /\ \A j \in DOMAIN sessions' : sessions'[j].subject = s => sessions'[j].superseded
    BY <1>6 DEF Open
  <2> QED
    BY <1>2, <1>6, <1>7, <2>1, FitAllGone
<1>9. /\ TokensGone(Users, mid, mid.live \intersect Of(mid, s),
                    DOMAIN mid.paired \ (mid.live \intersect Of(mid, s)), tokens')
  BY <1>2, <1>5, RevokeAllGone DEF TokensGone
<1>10. /\ tokens'.issued = tokens.issued /\ tokens.revoked \subseteq tokens'.revoked
       /\ Sound(Users, tokens')
  BY <1>5, <1>9 DEF TokensGone
<1>11. CutsFit(tokens', barred)
  BY <1>1, <1>5, <1>9, CutsFitGone
<1>12. Len(tokens.issued) \in Nat
  BY <1>1 DEF Sound, Stores
<1>13. LockoutInv' /\ CutsFit(tokens', barred')
  BY <1>1, <1>2, <1>8, <1>10, <1>11, <1>12, CutOffInv
<1>14. GrantsInv'
  BY <1>1, <1>2, <1>10, GrantsKept
<1> QED
  BY <1>8, <1>13, <1>14 DEF SessionsInv, StoreInv

LEMMA RefreshReplayedInv ==
  ASSUME SessionsInv, NEW id \in Refreshes(tokens), NEW i, RefreshReplayed(id, i), UNCHANGED clock
  PROVE  SessionsInv'
<1> DEFINE s == tokens.issued[id].subject
           closed == {j \in DOMAIN sessions : sessions[j].subject = s}
<1>1. /\ Fit(tokens, sessions) /\ Sound(Users, tokens) /\ sessions \in Seq(Session)
      /\ CutsFit(tokens, barred) /\ LockoutInv /\ GrantsInv
  BY DEF SessionsInv, StoreInv, Fit
<1>2. /\ tokens' = RevokeAll(tokens, s) /\ sessions' = Supersede(closed) /\ barred' = CutOff(s)
      /\ UNCHANGED <<attempts, grants>>
  BY DEF RefreshReplayed
<1>3. s \in Users
  BY <1>1, SubjectIsUser DEF Refreshes
<1>4. \A j \in DOMAIN sessions : j \in closed <=> sessions[j].subject = s
  OBVIOUS
<1> HIDE DEF s, closed
<1>5. /\ sessions' \in Seq(Session) /\ DOMAIN sessions' = DOMAIN sessions
      /\ \A j \in DOMAIN sessions :
           /\ sessions'[j].access = sessions[j].access
           /\ sessions'[j].refresh = sessions[j].refresh
           /\ sessions'[j].subject = sessions[j].subject
           /\ sessions'[j].superseded <=> sessions[j].superseded \/ j \in closed
  BY <1>1, <1>2, SupersedeIs
<1>6. Fit(tokens', sessions') /\ \A x \in tokens'.live : tokens'.issued[x].subject # s
  BY <1>1, <1>2, <1>4, <1>5, FitAllGone
<1>7. /\ TokensGone(Users, tokens, tokens.live \intersect Of(tokens, s),
                    DOMAIN tokens.paired \ (tokens.live \intersect Of(tokens, s)), tokens')
  BY <1>1, <1>2, RevokeAllGone
<1>8. /\ tokens'.issued = tokens.issued /\ tokens.revoked \subseteq tokens'.revoked
      /\ Sound(Users, tokens')
  BY <1>7 DEF TokensGone
<1>9. CutsFit(tokens', barred)
  BY <1>1, <1>7, CutsFitGone
<1>10. Len(tokens.issued) \in Nat
  BY <1>1 DEF Sound, Stores
<1>11. LockoutInv' /\ CutsFit(tokens', barred')
  BY <1>1, <1>2, <1>3, <1>6, <1>8, <1>9, <1>10, CutOffInv
<1>12. GrantsInv'
  BY <1>1, <1>2, <1>8, GrantsKept
<1> QED
  BY <1>6, <1>11, <1>12 DEF SessionsInv, StoreInv

(* The session that gets the new pair is the one that held the token: it is  *)
(* closed by the revocation of its pair and opened by the pair that follows. *)
LEMMA RefreshSessionInv ==
  ASSUME SessionsInv, NEW id \in Refreshes(tokens), NEW i \in DOMAIN sessions,
         RefreshSession(id, i), UNCHANGED clock
  PROVE  SessionsInv'
<1> DEFINE s == tokens.issued[id].subject
           ids == Rotated(tokens, id)
           kept == DOMAIN tokens.paired \ {id}
           closed == Supersede({i})
           x == [subject |-> s, access |-> Len(tokens.issued) + 1,
                 refresh |-> Len(tokens.issued) + 2, superseded |-> FALSE]
           g == [for |-> id, at |-> clock, since |-> Never]
<1>1. /\ Fit(tokens, sessions) /\ Sound(Users, tokens) /\ sessions \in Seq(Session)
      /\ CutsFit(tokens, barred) /\ LockoutInv /\ GrantsInv /\ clock \in Nat
  BY DEF SessionsInv, StoreInv, Fit, LockoutInv
<1>2. /\ SessionFor(id, i) /\ id \in tokens.live /\ id \notin tokens.revoked
      /\ tokens' = Rotate(tokens, id, clock)
      /\ sessions' = [sessions EXCEPT ![i].access = Len(tokens.issued) + 1,
                                      ![i].refresh = Len(tokens.issued) + 2]
      /\ grants' = Append(grants, g) /\ UNCHANGED <<attempts, barred>>
  BY DEF RefreshSession, CanRotate, IsReplay, NextAccess, NextRefresh
<1>3. sessions[i].refresh = id /\ ~sessions[i].superseded
  <2>1. PICK j \in DOMAIN sessions :
          ~sessions[j].superseded /\ (id = sessions[j].access \/ id = sessions[j].refresh)
    BY <1>1, <1>2 DEF Fit, IsHeld
  <2>2. id = sessions[j].refresh
    BY <1>1, <2>1 DEF Fit, PairHeld, Refreshes
  <2>3. Holders(id) = {j}
    BY <1>1, <2>2 DEF Holders, Fit
  <2> QED
    BY <1>2, <2>1, <2>2, <2>3 DEF SessionFor
<1>4. s \in Users /\ sessions[i].subject = s /\ ids = {id, sessions[i].access}
      /\ sessions[i] \in Session
  BY <1>1, <1>3, SubjectIsUser DEF Fit, PairHeld, Refreshes, Rotated
<1>5. PICK mid : TokensGone(Users, tokens, ids, kept, mid) /\ PairAdded(Users, mid, s, tokens')
  BY <1>1, <1>2, RotateIs
<1>6. /\ closed \in Seq(Session) /\ DOMAIN closed = DOMAIN sessions
      /\ \A j \in DOMAIN sessions :
           /\ closed[j].access = sessions[j].access /\ closed[j].refresh = sessions[j].refresh
           /\ closed[j].subject = sessions[j].subject
           /\ closed[j].superseded <=> sessions[j].superseded \/ j = i
      /\ \A j \in DOMAIN sessions \ {i} : closed[j] = sessions[j]
  <2>1. \A j \in DOMAIN sessions \ {i} : closed[j] = sessions[j]
    BY DEF Supersede
  <2> QED
    BY <1>1, <2>1, SupersedeIs
<1>7. mid.issued = tokens.issued
  BY <1>5 DEF TokensGone
<1>8. x \in Session
  BY <1>1, <1>4 DEF Session, Sound, Stores
<1>9. /\ sessions' \in Seq(Session) /\ DOMAIN sessions' = DOMAIN sessions /\ sessions'[i] = x
      /\ \A j \in DOMAIN sessions \ {i} : sessions'[j] = sessions[j]
  <2>1. x = [sessions[i] EXCEPT !.access = Len(tokens.issued) + 1,
                                !.refresh = Len(tokens.issued) + 2]
    <3> DEFINE a == Len(tokens.issued) + 1
               r == Len(tokens.issued) + 2
    <3> HIDE DEF a, r, s
    <3>1. PICK o, v : /\ sessions[i] = [subject |-> s, access |-> o, refresh |-> id,
                                        superseded |-> v]
                      /\ v = FALSE
      BY <1>3, <1>4 DEF Session
    <3>2. PICK m : m = [sessions[i] EXCEPT !.access = a]
      OBVIOUS
    <3>3. m = [subject |-> s, access |-> a, refresh |-> id, superseded |-> v]
      BY <3>1, <3>2
    <3>4. [sessions[i] EXCEPT !.access = a, !.refresh = r] = [m EXCEPT !.refresh = r]
      BY <3>1, <3>2
    <3> HIDE <3>2
    <3>5. [m EXCEPT !.refresh = r]
            = [subject |-> s, access |-> a, refresh |-> r, superseded |-> v]
      BY <3>3
    <3> QED
      BY <3>1, <3>4, <3>5 DEF a, r
  <2>2. sessions' = [sessions EXCEPT ![i] = x]
    BY <1>2, <2>1
  <2> HIDE DEF x
  <2> QED
    BY <1>1, <1>8, <2>2
<1> HIDE DEF s, ids, kept, closed
<1>10. Fit(mid, closed)
  <2>1. /\ \A j \in DOMAIN sessions \ {i} :
             /\ sessions[j].access \notin ids /\ sessions[j].refresh \notin ids
             /\ ~sessions[j].superseded => sessions[j].refresh \in kept
        /\ sessions[i].access \in ids /\ sessions[i].refresh \in ids
    BY <1>1, <1>3, <1>4, TokensApart DEF Fit, PairHeld, kept
  <2> QED
    BY <1>1, <1>5, <1>6, <2>1, FitGone
<1>11. Fit(tokens', sessions')
  <2>1. /\ DOMAIN sessions' = DOMAIN closed \union {i} /\ closed[i].superseded
        /\ \A j \in DOMAIN closed \ {i} : sessions'[j] = closed[j]
    BY <1>6, <1>9
  <2>2. /\ sessions'[i].subject = s /\ ~sessions'[i].superseded
        /\ sessions'[i].access = Len(mid.issued) + 1
        /\ sessions'[i].refresh = Len(mid.issued) + 2
    BY <1>7, <1>9
  <2> HIDE DEF x
  <2> QED
    BY <1>5, <1>9, <1>10, <2>1, <2>2, FitOpened
<1>12. CutsFit(tokens', barred')
  <2>1. CutsFit(mid, barred) /\ Sound(Users, mid)
    BY <1>1, <1>5, CutsFitGone DEF TokensGone
  <2> QED
    BY <1>2, <1>4, <1>5, <2>1, CutsFitAdded
<1>13. GrantsInv'
  <2>1. tokens'.revoked = tokens.revoked \union ids
    BY <1>5 DEF TokensGone, PairAdded
  <2>2. GrantFits(g) /\ g.for = id
    BY <1>1 DEF GrantFits, Grant, Sound, Stores, StoreIsSound, Refreshes
  <2> HIDE DEF g
  <2> QED
    BY <1>1, <1>2, <1>4, <2>1, <2>2, GrantedInv
<1>14. LockoutInv'
  BY <1>1, <1>2 DEF LockoutInv
<1> QED
  BY <1>11, <1>12, <1>13, <1>14 DEF SessionsInv, StoreInv

LEMMA SessionsStepInv == SessionsInv /\ [SessionsStep]_<<clock, sessionVars>> => SessionsInv'
<1> SUFFICES ASSUME SessionsInv, [SessionsStep]_<<clock, sessionVars>> PROVE SessionsInv'
  OBVIOUS
<1>1. CASE UNCHANGED sessionVars /\ (Pass \/ UNCHANGED clock)
  <2>1. clock' \in Nat /\ clock' >= clock
    BY <1>1 DEF Pass, SessionsInv, LockoutInv
  <2>2. LockoutInv'
    <3>1. \A s \in Users : UserFits(attempts[s], barred[s], clock')
      <4> SUFFICES ASSUME NEW s \in Users PROVE UserFits(attempts[s], barred[s], clock')
        OBVIOUS
      <4>1. UserFits(attempts[s], barred[s], clock) /\ clock \in Nat
        BY DEF SessionsInv, LockoutInv
      <4> QED
        BY <2>1, <4>1, SessionsAssumption DEF UserFits, Bar
    <3> QED
      BY <1>1, <2>1, <3>1 DEF SessionsInv, LockoutInv, sessionVars
  <2>3. GrantsInv' /\ StoreInv'
    BY <1>1 DEF SessionsInv, GrantsInv, StoreInv, sessionVars
  <2> QED
    BY <2>2, <2>3 DEF SessionsInv
<1>2. ASSUME SessionsNext, UNCHANGED clock PROVE SessionsInv'
  <2>1. ASSUME NEW s \in Users, LoginStartsLockout(s) PROVE SessionsInv'
    BY <1>2, <2>1, LoginStartsLockoutInv
  <2>2. ASSUME NEW s \in Users, LoginFails(s) PROVE SessionsInv'
    BY <1>2, <2>2, LoginFailsInv
  <2>3. ASSUME NEW s \in Users, LoginSucceeds(s) PROVE SessionsInv'
    BY <1>2, <2>3, LoginSucceedsInv
  <2>4. ASSUME NEW s \in Users, LogoutAll(s) PROVE SessionsInv'
    BY <1>2, <2>4, LogoutAllInv
  <2>5. ASSUME NEW i \in DOMAIN sessions, Logout(i) PROVE SessionsInv'
    BY <1>2, <2>5, LogoutInv
  <2>6. ASSUME NEW id \in Refreshes(tokens), NEW i \in DOMAIN sessions, RefreshSession(id, i)
        PROVE  SessionsInv'
    BY <1>2, <2>6, RefreshSessionInv
  <2>7. ASSUME NEW id \in Refreshes(tokens), NEW i \in DOMAIN sessions, RefreshReplayed(id, i)
        PROVE  SessionsInv'
    BY <1>2, <2>7, RefreshReplayedInv
  <2> QED
    BY <1>2, <2>1, <2>2, <2>3, <2>4, <2>5, <2>6, <2>7 DEF SessionsNext
<1> QED
  BY <1>1, <1>2 DEF SessionsStep

(* Every pair was given for a login or for one refresh token, what is live   *)
(* is what the open sessions hold, a lockout holds, and nothing that was cut *)
(* off verifies again.                                                       *)
THEOREM AccessStaysEarned == SessionsSpec => []AccessIsEarned
<1>1. SessionsInv => AccessIsEarned
  <2> SUFFICES ASSUME SessionsInv PROVE AccessIsEarned
    OBVIOUS
  <2>1. StoreIsSound(tokens)
    BY DEF SessionsInv, StoreInv, Fit, Sound
  <2>2. LockoutHolds
    <3>1. \A s \in Users : barred[s].tried <= MaxAttempts
      BY SessionsAssumption DEF SessionsInv, LockoutInv, UserFits, Attempt, Bar
    <3> QED
      BY <3>1 DEF SessionsInv, GrantsInv, GrantFits, LockoutHolds
  <2>3. tokens.live = UNION {Pair(i) : i \in {j \in DOMAIN sessions : ~sessions[j].superseded}}
    BY DEF SessionsInv, StoreInv, Fit, IsHeld, Pair
  <2>4. \A id \in DOMAIN tokens.issued :
          Verifies(tokens, id, clock) => id > barred[tokens.issued[id].subject].cut
    BY DEF SessionsInv, StoreInv, CutsFit, Verifies
  <2> QED
    BY <2>1, <2>2, <2>3, <2>4 DEF SessionsInv, GrantsInv, AccessIsEarned
<1> QED
  BY <1>1, SessionsInitInv, SessionsStepInv, PTL DEF SessionsSpec

-----------------------------------------------------------------------------
(* Account recovery.                                                       *)

Statuses == {"Pending", "Completed", "Cancelled"}
RecoveryRequest ==
  [subject : People, session : SessionIds, status : Statuses, expires : Nat]
Completion == [by : Nat, at : Nat, first : Nat]

\* Nothing of the subject that came before the id is live.
CutBy(st, s, first) ==
  /\ first \in Nat /\ first <= Len(st.issued) + 1
  /\ \A id \in st.live : st.issued[id].subject = s => id >= first

\* The requests that are completed are those of the completions, each once.
RequestsBooked ==
  /\ hour \in Nat /\ requests \in Seq(RecoveryRequest) /\ recoveries \in Seq(Completion)
  /\ redeemable \subseteq DOMAIN requests /\ redeemed \subseteq DOMAIN requests
  /\ \A i \in DOMAIN recoveries : /\ recoveries[i].by \in redeemed
                                  /\ recoveries[i].at < requests[recoveries[i].by].expires
  /\ \A k \in redeemed : \E i \in DOMAIN recoveries : recoveries[i].by = k
  /\ \A i, j \in DOMAIN recoveries : i # j => recoveries[i].by # recoveries[j].by
  /\ \A k \in DOMAIN requests : /\ requests[k].status = "Completed" <=> k \in redeemed
                                /\ k \in redeemable => requests[k].status = "Pending"

VaultCut ==
  /\ Sound(People, vault)
  /\ \A i \in DOMAIN recoveries :
       CutBy(vault, requests[recoveries[i].by].subject, recoveries[i].first)

\* The inductive invariant.
RecoveryInv == RequestsBooked /\ VaultCut

LEMMA CutByAdded ==
  ASSUME NEW st, Sound(People, st), NEW s, NEW first, CutBy(st, s, first), NEW u, NEW n,
         PairAdded(People, st, u, n)
  PROVE  CutBy(n, s, first)
<1>1. /\ Len(st.issued) \in Nat /\ Len(n.issued) = Len(st.issued) + 2
      /\ st.live \subseteq DOMAIN st.issued
      /\ n.live = st.live \union {Len(st.issued) + 1, Len(st.issued) + 2}
      /\ \A i \in DOMAIN st.issued : n.issued[i] = st.issued[i]
  BY DEF PairAdded, Sound, StoreIsSound
<1>2. ASSUME NEW id \in n.live, n.issued[id].subject = s PROVE id >= first
  BY <1>1, <1>2 DEF CutBy
<1> QED
  BY <1>1, <1>2 DEF CutBy

LEMMA CutByGone ==
  ASSUME NEW st, NEW s, NEW first, CutBy(st, s, first), NEW ids, NEW kept, NEW n,
         TokensGone(People, st, ids, kept, n)
  PROVE  CutBy(n, s, first)
  BY DEF CutBy, TokensGone

(* Whatever the owner of the store does, no old token comes back.            *)
LEMMA VaultRotates ==
  ASSUME NEW st, Sound(People, st), NEW id \in st.live, NEW t \in Nat
  PROVE  /\ Sound(People, Rotate(st, id, t))
         /\ \A s, first : CutBy(st, s, first) => CutBy(Rotate(st, id, t), s, first)
<1>1. PICK mid :
        /\ TokensGone(People, st, Rotated(st, id), DOMAIN st.paired \ {id}, mid)
        /\ PairAdded(People, mid, st.issued[id].subject, Rotate(st, id, t))
  BY RotateIs
<1>2. Sound(People, mid)
  BY <1>1 DEF TokensGone
<1>3. \A s, first : CutBy(st, s, first) => CutBy(mid, s, first)
  BY <1>1, CutByGone
<1>4. \A s, first : CutBy(mid, s, first) => CutBy(Rotate(st, id, t), s, first)
  BY <1>1, <1>2, CutByAdded
<1> QED
  BY <1>1, <1>3, <1>4 DEF PairAdded

LEMMA VaultRevokesAll ==
  ASSUME NEW st, Sound(People, st), NEW u
  PROVE  /\ Sound(People, RevokeAll(st, u)) /\ RevokeAll(st, u).issued = st.issued
         /\ \A id \in RevokeAll(st, u).live : RevokeAll(st, u).issued[id].subject # u
         /\ \A s, first : CutBy(st, s, first) => CutBy(RevokeAll(st, u), s, first)
<1> DEFINE ids == st.live \intersect Of(st, u)
           kept == DOMAIN st.paired \ ids
           n == RevokeAll(st, u)
<1>1. TokensGone(People, st, ids, kept, n)
  BY RevokeAllGone
<1>2. \A id \in n.live : n.issued[id].subject # u
  BY <1>1 DEF TokensGone, Of, Sound, StoreIsSound
<1> HIDE DEF ids, kept, n
<1>3. \A s, first : CutBy(st, s, first) => CutBy(n, s, first)
  BY <1>1, CutByGone
<1> QED
  BY <1>1, <1>2, <1>3 DEF TokensGone, n

LEMMA VaultIssues ==
  ASSUME NEW st, Sound(People, st), NEW u \in People, NEW t \in Nat
  PROVE  /\ Sound(People, IssuePair(st, u, t))
         /\ \A s, first : CutBy(st, s, first) => CutBy(IssuePair(st, u, t), s, first)
<1> DEFINE n == IssuePair(st, u, t)
<1>1. PairAdded(People, st, u, n)
  BY IssueIsSound
<1> HIDE DEF n
<1> QED
  BY <1>1, CutByAdded DEF PairAdded, n

(* A step of the owner of the store.                                         *)
LEMMA OwnerInv ==
  ASSUME RecoveryInv, Sound(People, vault'),
         \A s, first : CutBy(vault, s, first) => CutBy(vault', s, first),
         UNCHANGED <<hour, requests, redeemable, redeemed, recoveries>>
  PROVE  RecoveryInv'
  BY DEF RecoveryInv, RequestsBooked, VaultCut

LEMMA DirectIssueInv ==
  ASSUME RecoveryInv, NEW s \in People, DirectIssue(s), UNCHANGED hour
  PROVE  RecoveryInv'
<1>1. Sound(People, vault) /\ hour \in Nat
  BY DEF RecoveryInv, VaultCut, RequestsBooked
<1> QED
  BY <1>1, VaultIssues, OwnerInv DEF DirectIssue

LEMMA DirectRefreshInv ==
  ASSUME RecoveryInv, NEW id \in Refreshes(vault), DirectRefresh(id), UNCHANGED hour
  PROVE  RecoveryInv'
<1>1. Sound(People, vault) /\ hour \in Nat
  BY DEF RecoveryInv, VaultCut, RequestsBooked
<1>2. CASE vault' = RevokeAll(vault, vault.issued[id].subject)
  BY <1>1, <1>2, VaultRevokesAll, OwnerInv DEF DirectRefresh
<1>3. CASE CanRotate(vault, id, hour) /\ vault' = Rotate(vault, id, hour)
  BY <1>1, <1>3, VaultRotates, OwnerInv DEF DirectRefresh, CanRotate
<1> QED
  BY <1>2, <1>3 DEF DirectRefresh

LEMMA RequestRecoveryInv ==
  ASSUME RecoveryInv, NEW s \in People, NEW sid \in SessionIds, RequestRecovery(s, sid),
         UNCHANGED hour
  PROVE  RecoveryInv'
<1> DEFINE r == [subject |-> s, session |-> sid, status |-> "Pending",
                 expires |-> hour + RecoveryLife]
           k == Len(requests) + 1
<1>1. /\ requests \in Seq(RecoveryRequest) /\ redeemed \subseteq DOMAIN requests
      /\ redeemable \subseteq DOMAIN requests
      /\ \A i \in DOMAIN recoveries : recoveries[i].by \in redeemed
      /\ r \in RecoveryRequest /\ r.status = "Pending"
  BY RecoveryAssumption DEF RecoveryInv, RequestsBooked, RecoveryRequest, Statuses
<1>2. /\ requests' = Append(requests, r) /\ redeemable' = redeemable \union {k}
      /\ UNCHANGED <<vault, redeemed, recoveries>>
  BY DEF RequestRecovery
<1> HIDE DEF r
<1>3. /\ requests' \in Seq(RecoveryRequest) /\ DOMAIN requests' = DOMAIN requests \union {k}
      /\ k \notin DOMAIN requests /\ requests'[k] = r
      /\ \A i \in DOMAIN requests : requests'[i] = requests[i]
  BY <1>1, <1>2, OneMore
<1> HIDE DEF k
<1>4. RequestsBooked'
  BY <1>1, <1>2, <1>3 DEF RecoveryInv, RequestsBooked
<1>5. VaultCut'
  BY <1>1, <1>2, <1>3 DEF RecoveryInv, VaultCut
<1> QED
  BY <1>4, <1>5 DEF RecoveryInv

(* A request whose status changes.                                           *)
LEMMA RequestChanges ==
  ASSUME requests \in Seq(RecoveryRequest), NEW k \in DOMAIN requests, NEW status \in Statuses,
         requests' = [requests EXCEPT ![k].status = status]
  PROVE  /\ requests' \in Seq(RecoveryRequest) /\ DOMAIN requests' = DOMAIN requests
         /\ requests'[k].status = status
         /\ \A i \in DOMAIN requests : /\ requests'[i].subject = requests[i].subject
                                       /\ requests'[i].expires = requests[i].expires
                                       /\ i # k => requests'[i].status = requests[i].status
<1> DEFINE q == [requests[k] EXCEPT !.status = status]
<1>1. requests[k] \in RecoveryRequest
  OBVIOUS
<1>2. /\ q \in RecoveryRequest /\ q.status = status /\ q.subject = requests[k].subject
      /\ q.expires = requests[k].expires
  BY <1>1 DEF RecoveryRequest
<1>3. requests' = [requests EXCEPT ![k] = q]
  OBVIOUS
<1> HIDE DEF q
<1> QED
  BY <1>2, <1>3

LEMMA RecoveryExpiresInv ==
  ASSUME RecoveryInv, NEW k \in DOMAIN requests, RecoveryExpires(k), UNCHANGED hour
  PROVE  RecoveryInv'
  BY DEF RecoveryInv, RequestsBooked, VaultCut, RecoveryExpires

LEMMA CancelRecoveryInv ==
  ASSUME RecoveryInv, NEW k \in DOMAIN requests, CancelRecovery(k), UNCHANGED hour
  PROVE  RecoveryInv'
<1>1. /\ requests' = [requests EXCEPT ![k].status = "Cancelled"] /\ "Cancelled" \in Statuses
      /\ redeemable' = redeemable \ {k} /\ requests[k].status = "Pending"
      /\ UNCHANGED <<vault, redeemed, recoveries>> /\ requests \in Seq(RecoveryRequest)
  BY DEF CancelRecovery, Statuses, RecoveryInv, RequestsBooked
<1>2. /\ requests' \in Seq(RecoveryRequest) /\ DOMAIN requests' = DOMAIN requests
      /\ requests'[k].status = "Cancelled"
      /\ \A i \in DOMAIN requests : /\ requests'[i].subject = requests[i].subject
                                    /\ requests'[i].expires = requests[i].expires
                                    /\ i # k => requests'[i].status = requests[i].status
  BY <1>1, RequestChanges
<1>3. RequestsBooked'
  BY <1>1, <1>2 DEF RecoveryInv, RequestsBooked
<1>4. VaultCut'
  BY <1>1, <1>2 DEF RecoveryInv, RequestsBooked, VaultCut
<1> QED
  BY <1>3, <1>4 DEF RecoveryInv

LEMMA CompleteRecoveryInv ==
  ASSUME RecoveryInv, NEW k \in DOMAIN requests, CompleteRecovery(k), UNCHANGED hour
  PROVE  RecoveryInv'
<1> DEFINE s == requests[k].subject
           c == [by |-> k, at |-> hour, first |-> Len(vault.issued) + 1]
           n == Len(recoveries) + 1
           mid == RevokeAll(vault, s)
<1>1. /\ requests' = [requests EXCEPT ![k].status = "Completed"] /\ "Completed" \in Statuses
      /\ redeemable' = redeemable \ {k} /\ redeemed' = redeemed \union {k}
      /\ requests[k].status = "Pending" /\ requests[k].expires > hour
      /\ recoveries' = Append(recoveries, c) /\ vault' = IssuePair(mid, s, hour)
  BY DEF CompleteRecovery, Completed, Statuses, NextAccess
<1>2. /\ requests \in Seq(RecoveryRequest) /\ recoveries \in Seq(Completion) /\ hour \in Nat
      /\ Sound(People, vault) /\ vault.issued \in Seq(Token(People))
      /\ redeemable \subseteq DOMAIN requests /\ redeemed \subseteq DOMAIN requests
      /\ \A i \in DOMAIN recoveries : recoveries[i].by \in redeemed
  BY DEF RecoveryInv, RequestsBooked, VaultCut, Sound, Stores
<1>3. /\ requests' \in Seq(RecoveryRequest) /\ DOMAIN requests' = DOMAIN requests
      /\ requests'[k].status = "Completed"
      /\ \A i \in DOMAIN requests : /\ requests'[i].subject = requests[i].subject
                                    /\ requests'[i].expires = requests[i].expires
                                    /\ i # k => requests'[i].status = requests[i].status
  BY <1>1, <1>2, RequestChanges
<1>4. s \in People /\ k \in Nat /\ Len(vault.issued) \in Nat
  <2>1. requests[k] \in RecoveryRequest
    BY <1>2
  <2> QED
    BY <1>2, <2>1 DEF RecoveryRequest
<1>5. c \in Completion /\ c.by = k /\ c.at = hour /\ c.first = Len(vault.issued) + 1
  BY <1>2, <1>4 DEF Completion
<1> HIDE DEF c
<1>6. /\ recoveries' \in Seq(Completion) /\ DOMAIN recoveries' = DOMAIN recoveries \union {n}
      /\ n \notin DOMAIN recoveries /\ recoveries'[n] = c
      /\ \A i \in DOMAIN recoveries : recoveries'[i] = recoveries[i]
  BY <1>1, <1>2, <1>5, OneMore
<1> HIDE DEF n
<1>7. k \notin redeemed
  BY <1>1 DEF RecoveryInv, RequestsBooked
<1>8. RequestsBooked'
  <2>1. \A i \in DOMAIN recoveries' :
          /\ recoveries'[i].by \in redeemed'
          /\ recoveries'[i].at < requests'[recoveries'[i].by].expires
    BY <1>1, <1>2, <1>3, <1>5, <1>6 DEF RecoveryInv, RequestsBooked
  <2>2. \A x \in redeemed' : \E i \in DOMAIN recoveries' : recoveries'[i].by = x
    BY <1>1, <1>5, <1>6 DEF RecoveryInv, RequestsBooked
  <2>3. \A i, j \in DOMAIN recoveries' : i # j => recoveries'[i].by # recoveries'[j].by
    BY <1>2, <1>5, <1>6, <1>7 DEF RecoveryInv, RequestsBooked
  <2>4. \A x \in DOMAIN requests' :
          /\ requests'[x].status = "Completed" <=> x \in redeemed'
          /\ x \in redeemable' => requests'[x].status = "Pending"
    BY <1>1, <1>2, <1>3 DEF RecoveryInv, RequestsBooked
  <2>5. redeemable' \subseteq DOMAIN requests' /\ redeemed' \subseteq DOMAIN requests'
    BY <1>1, <1>2, <1>3
  <2> QED
    BY <1>2, <1>3, <1>6, <2>1, <2>2, <2>3, <2>4, <2>5 DEF RequestsBooked
<1> HIDE DEF s
<1>9. /\ Sound(People, mid) /\ mid.issued = vault.issued
      /\ \A id \in mid.live : mid.issued[id].subject # s
      /\ \A u, first : CutBy(vault, u, first) => CutBy(mid, u, first)
  BY <1>2, VaultRevokesAll
<1> HIDE DEF mid
<1>10. /\ Sound(People, vault')
       /\ \A u, first : CutBy(mid, u, first) => CutBy(vault', u, first)
  BY <1>1, <1>2, <1>4, <1>9, VaultIssues
<1>11. CutBy(vault', s, Len(vault.issued) + 1)
  <2>1. CutBy(mid, s, Len(vault.issued) + 1)
    BY <1>4, <1>9 DEF CutBy
  <2> QED
    BY <1>10, <2>1
<1>12. VaultCut'
  <2>1. ASSUME NEW i \in DOMAIN recoveries
        PROVE  CutBy(vault', requests'[recoveries'[i].by].subject, recoveries'[i].first)
    BY <1>2, <1>3, <1>6, <1>9, <1>10 DEF RecoveryInv, VaultCut
  <2>2. CutBy(vault', requests'[recoveries'[n].by].subject, recoveries'[n].first)
    BY <1>3, <1>5, <1>6, <1>11 DEF s
  <2> QED
    BY <1>6, <1>10, <2>1, <2>2 DEF VaultCut
<1> QED
  BY <1>8, <1>12 DEF RecoveryInv

LEMMA RecoveryInitInv == RecoveryInit => RecoveryInv
<1> SUFFICES ASSUME RecoveryInit PROVE RecoveryInv
  OBVIOUS
<1>1. RequestsBooked
  BY DEF RecoveryInit, RequestsBooked
<1>2. VaultCut
  BY EmptyIsSound DEF RecoveryInit, VaultCut
<1> QED
  BY <1>1, <1>2 DEF RecoveryInv

LEMMA RecoveryStepInv == RecoveryInv /\ [RecoveryStep]_<<hour, recoveryVars>> => RecoveryInv'
<1> SUFFICES ASSUME RecoveryInv, [RecoveryStep]_<<hour, recoveryVars>> PROVE RecoveryInv'
  OBVIOUS
<1>1. CASE UNCHANGED recoveryVars /\ (HourPasses \/ UNCHANGED hour)
  <2>1. hour' \in Nat
    BY <1>1 DEF HourPasses, RecoveryInv, RequestsBooked
  <2> QED
    BY <1>1, <2>1 DEF recoveryVars, RecoveryInv, RequestsBooked, VaultCut
<1>2. ASSUME RecoveryNext, UNCHANGED hour PROVE RecoveryInv'
  <2>1. ASSUME NEW s \in People, DirectIssue(s) PROVE RecoveryInv'
    BY <1>2, <2>1, DirectIssueInv
  <2>2. ASSUME NEW s \in People, NEW sid \in SessionIds, RequestRecovery(s, sid)
        PROVE  RecoveryInv'
    BY <1>2, <2>2, RequestRecoveryInv
  <2>3. ASSUME NEW id \in Refreshes(vault), DirectRefresh(id) PROVE RecoveryInv'
    BY <1>2, <2>3, DirectRefreshInv
  <2>4. ASSUME NEW k \in DOMAIN requests, RecoveryExpires(k) PROVE RecoveryInv'
    BY <1>2, <2>4, RecoveryExpiresInv
  <2>5. ASSUME NEW k \in DOMAIN requests, CancelRecovery(k) PROVE RecoveryInv'
    BY <1>2, <2>5, CancelRecoveryInv
  <2>6. ASSUME NEW k \in DOMAIN requests, CompleteRecovery(k) PROVE RecoveryInv'
    BY <1>2, <2>6, CompleteRecoveryInv
  <2> QED
    BY <1>2, <2>1, <2>2, <2>3, <2>4, <2>5, <2>6 DEF RecoveryNext
<1> QED
  BY <1>1, <1>2 DEF RecoveryStep

(* A recovery token is good once, in time and unless it was cancelled; and   *)
(* nothing a subject had before a recovery is live after it, whatever the    *)
(* owner of the store issues, refreshes or is replayed.                      *)
THEOREM RecoveryStaysExclusive == RecoverySpec => []RecoveryIsExclusive
<1>1. RecoveryInv => RecoveryIsExclusive
  <2> SUFFICES ASSUME RecoveryInv PROVE RecoveryIsExclusive
    OBVIOUS
  <2>1. redeemed = {recoveries[i].by : i \in DOMAIN recoveries}
    BY DEF RecoveryInv, RequestsBooked
  <2>2. \A k \in DOMAIN requests : /\ (requests[k].status = "Completed") = (k \in redeemed)
                                   /\ k \in redeemable => requests[k].status = "Pending"
    BY DEF RecoveryInv, RequestsBooked
  <2>3. \A i \in DOMAIN recoveries :
          /\ recoveries[i].at < requests[recoveries[i].by].expires
          /\ \A id \in vault.live \intersect Of(vault, requests[recoveries[i].by].subject) :
               id >= recoveries[i].first
    BY DEF RecoveryInv, RequestsBooked, VaultCut, CutBy, Of
  <2> QED
    BY <2>1, <2>2, <2>3 DEF RecoveryIsExclusive, RecoveryInv, RequestsBooked, VaultCut, Sound
<1> QED
  BY <1>1, RecoveryInitInv, RecoveryStepInv, PTL DEF RecoverySpec

-----------------------------------------------------------------------------
(* The requests of the backend.                                            *)

Link == 1 .. MaxLinks
Account == [verified : BOOLEAN, link : Link \union {Absent}, ends : Nat \union {Absent}]
Entry == [attempts : Nat, until : Nat \union {Absent}, start : Nat, touched : Nat]
Row == [jti : Nat, of : Accounts, ends : Nat, revoked : BOOLEAN, from : Nat \union {Absent}]
Flight == [at : {"idle", "finding", "comparing", "issuing", "saving", "revoking", "linking",
                 "looking", "marking"},
           of : Accounts \union {Absent}, item : Nat \union {Absent},
           pair : Nat \union {Absent}, verified : BOOLEAN]

\* The parts of the inductive invariant.  First the types.
AccountsTyped ==
  /\ users \in [Accounts -> Account]
  /\ \A a \in Accounts : users[a].verified => users[a].link = Absent
  /\ minute \in 0 .. MaxMinutes /\ links \in 0 .. MaxLinks /\ unique \in BOOLEAN
  /\ clients = [tokens |-> clients.tokens, links |-> clients.links]
  /\ clients.links \subseteq 1 .. links

FlightsTyped ==
  /\ inflight \in [Requests -> Flight]
  /\ \A r \in Requests : inflight[r] = Idle \/ inflight[r].of \in Accounts \/ At(r, "looking")

\* The requests that may still fail for an account.
Trying(a) == {r \in Requests : inflight[r].at \in {"finding", "comparing"} /\ inflight[r].of = a}

\* Of an entry that is locked, those in flight were counted when it was.
GuessesFit(a, e, n) ==
  e # Absent => /\ e \in Entry
                /\ IF e.until = Absent THEN e.attempts < LockAfter
                   ELSE e.attempts + n < LockAfter + Cardinality(Requests)

LockoutsInv ==
  /\ lockouts \in [Accounts -> Entry \union {Absent}]
  /\ \A a \in Accounts : GuessesFit(a, lockouts[a], Cardinality(Trying(a)))

\* A verification under way holds its key.
KeysInv ==
  /\ keys \in [Link -> Nat \union {Absent, Running}]
  /\ \A r \in Requests : Verifying(r) => inflight[r].item \in Link
                                         /\ keys[inflight[r].item] = Running
  /\ OneRunPerKey

\* A token has been replaced, by a successor that was saved twice.
Succeeded(rs, t) ==
  \E j, k \in DOMAIN rs : j < k /\ rs[j].jti = rs[k].jti /\ rs[j].from = t

\* The row of a successor that was saved once.
SavedOnce(rs, f) ==
  f.pair \in DOMAIN rs /\ rs[f.pair].jti = f.pair /\ rs[f.pair].from = f.item

RowsInv ==
  /\ rows \in Seq(Row) /\ clients.tokens \subseteq DOMAIN rows
  /\ \A i \in DOMAIN rows : rows[i].jti \in 1 .. i
  /\ \A i \in DOMAIN rows : rows[i].revoked => rows[i].jti \in ended \/ Succeeded(rows, rows[i].jti)
  /\ \A r \in Requests : At(r, "saving") \/ At(r, "revoking") => SavedOnce(rows, inflight[r])
  /\ \A r \in Requests : At(r, "revoking") => Succeeded(rows, inflight[r].item)

RequestsInv == AccountsTyped /\ FlightsTyped /\ LockoutsInv /\ KeysInv /\ RowsInv

(* The assumptions, one by one.                                              *)
LEMMA RequestsConstants ==
  /\ LockAfter \in Nat /\ LockAfter > 1 /\ LockWindow \in Nat /\ LockFor \in Nat /\ RowLife \in Nat
  /\ LinkLife \in Nat /\ KeyLife \in Nat /\ MaxMinutes \in Nat /\ MaxRows \in Nat /\ MaxLinks \in Nat
  /\ IsFiniteSet(Requests) /\ Absent \notin Int /\ Absent \notin Nat /\ Absent \notin Accounts
  BY RequestsAssumption

(* A request that goes on, or is answered.                                   *)
LEMMA FlightGoes ==
  ASSUME FlightsTyped, NEW r \in Requests, NEW f \in Flight,
         inflight' = [inflight EXCEPT ![r] = f],
         f = Idle \/ f.of \in Accounts \/ f.at = "looking"
  PROVE  /\ FlightsTyped' /\ inflight'[r] = f
         /\ \A q \in Requests \ {r} : inflight'[q] = inflight[q]
  BY DEF FlightsTyped, At

(* Fewer requests try, and what is kept of an account's failures is kept.    *)
LEMMA GuessesKept ==
  ASSUME LockoutsInv, NEW a \in Accounts, Trying(a)' \subseteq Trying(a)
  PROVE  GuessesFit(a, lockouts[a], Cardinality(Trying(a)'))
<1>1. IsFiniteSet(Trying(a))
  BY RequestsConstants, FS_Subset DEF Trying
<1>2. /\ Cardinality(Trying(a)') <= Cardinality(Trying(a)) /\ Cardinality(Trying(a)) \in Nat
      /\ Cardinality(Trying(a)') \in Nat
  BY <1>1, FS_Subset, FS_CardinalityType
<1>3. Cardinality(Requests) \in Nat
  BY RequestsConstants, FS_CardinalityType
<1>4. GuessesFit(a, lockouts[a], Cardinality(Trying(a)))
  BY DEF LockoutsInv
<1> QED
  BY <1>2, <1>3, <1>4, RequestsConstants DEF GuessesFit, Entry

\* A request that does not begin to try.
LEMMA LockoutsKept ==
  ASSUME LockoutsInv, UNCHANGED lockouts, NEW r \in Requests,
         \A q \in Requests \ {r} : inflight'[q] = inflight[q],
         \/ inflight'[r].at \notin {"finding", "comparing"}
         \/ inflight[r].at = "finding" /\ inflight'[r].of = inflight[r].of
  PROVE  LockoutsInv'
<1>1. \A a \in Accounts : Trying(a)' \subseteq Trying(a)
  BY DEF Trying
<1>2. \A a \in Accounts : GuessesFit(a, lockouts[a], Cardinality(Trying(a)'))
  BY <1>1, GuessesKept
<1> QED
  BY <1>2 DEF LockoutsInv

(* A request that verifies nothing, before and after.                        *)
LEMMA KeysKept ==
  ASSUME KeysInv, UNCHANGED keys, NEW r \in Requests,
         \A q \in Requests \ {r} : inflight'[q] = inflight[q],
         \/ inflight'[r].at \notin {"looking", "marking"}
         \/ At(r, "looking") /\ inflight'[r].item = inflight[r].item
  PROVE  KeysInv'
<1>1. \A q \in Requests : Verifying(q)' => Verifying(q) /\ inflight'[q].item = inflight[q].item
  BY DEF Verifying, At
<1> QED
  BY <1>1 DEF KeysInv, OneRunPerKey

(* A request that has no row to look after, after the step.                  *)
LEMMA RowsKept ==
  ASSUME RowsInv, UNCHANGED <<rows, ended>>, NEW r \in Requests,
         clients'.tokens \subseteq DOMAIN rows,
         \A q \in Requests \ {r} : inflight'[q] = inflight[q],
         inflight'[r].at \notin {"saving", "revoking"}
  PROVE  RowsInv'
<1>1. \A q \in Requests : /\ At(q, "saving")' => At(q, "saving") /\ inflight'[q] = inflight[q]
                          /\ At(q, "revoking")' => At(q, "revoking") /\ inflight'[q] = inflight[q]
  BY DEF At
<1> QED
  BY <1>1 DEF RowsInv


(* A step that leaves the accounts and what has reached somebody.            *)
LEMMA AccountsKept ==
  ASSUME AccountsTyped, UNCHANGED <<minute, users, links, unique, clients>>
  PROVE  AccountsTyped'
  BY DEF AccountsTyped

LEMMA StartSignInInv ==
  ASSUME RequestsInv, NEW r \in Requests, NEW a \in Accounts, StartSignIn(r, a), UNCHANGED minute
  PROVE  RequestsInv'
<1> DEFINE f == [Idle EXCEPT !.at = "finding", !.of = a]
<1>1. f \in Flight /\ f.at = "finding" /\ f.of = a
  BY DEF Flight, Idle
<1>2. inflight' = [inflight EXCEPT ![r] = f]
  BY DEF StartSignIn, Goes
<1> HIDE DEF f
<1>3. /\ FlightsTyped' /\ inflight'[r] = f
      /\ \A q \in Requests \ {r} : inflight'[q] = inflight[q]
  BY <1>1, <1>2, FlightGoes DEF RequestsInv
<1>4. AccountsTyped' /\ KeysInv' /\ RowsInv'
  BY <1>1, <1>3, AccountsKept, KeysKept, RowsKept DEF RequestsInv, StartSignIn, RowsInv
<1>5. \A b \in Accounts \ {a} : lockouts'[b] = lockouts[b] /\ Trying(b)' \subseteq Trying(b)
  BY <1>1, <1>3 DEF Trying, StartSignIn, RequestsInv, LockoutsInv
<1>6. \A b \in Accounts \ {a} : GuessesFit(b, lockouts'[b], Cardinality(Trying(b)'))
  BY <1>5, GuessesKept DEF RequestsInv
<1>7. lockouts' \in [Accounts -> Entry \union {Absent}]
  BY DEF StartSignIn, RequestsInv, LockoutsInv
\* An entry that is still there has not locked.
<1>8. lockouts'[a] # Absent => lockouts'[a] = lockouts[a] /\ lockouts[a].until = Absent
  <2>1. lockouts[a] # Absent =>
          /\ lockouts[a].until \in Nat \union {Absent}
          /\ minute \in Nat
    BY RequestsConstants DEF RequestsInv, LockoutsInv, Entry, AccountsTyped
  <2> QED
    BY <2>1, RequestsConstants DEF StartSignIn, IsLocked, RequestsInv, LockoutsInv
<1>9. GuessesFit(a, lockouts'[a], Cardinality(Trying(a)'))
  BY <1>8 DEF GuessesFit, RequestsInv, LockoutsInv
<1> QED
  BY <1>3, <1>4, <1>6, <1>7, <1>9 DEF RequestsInv, LockoutsInv

LEMMA FindUserInv ==
  ASSUME RequestsInv, NEW r \in Requests, FindUser(r), UNCHANGED minute
  PROVE  RequestsInv'
<1> PICK f : f = [inflight[r] EXCEPT !.at = "comparing", !.verified = users[inflight[r].of].verified]
  OBVIOUS
<1>0. inflight[r] \in Flight /\ inflight[r].at = "finding" /\ inflight[r].of \in Accounts
  BY DEF RequestsInv, FlightsTyped, FindUser, At, Idle
<1>1. f \in Flight /\ f.at = "comparing" /\ f.of = inflight[r].of
  <2>1. users[inflight[r].of].verified \in BOOLEAN
    BY <1>0 DEF RequestsInv, AccountsTyped, Account
  <2> QED
    BY <1>0, <2>1 DEF Flight
<1>2. inflight' = [inflight EXCEPT ![r] = f]
  BY DEF FindUser, Goes
<1>3. /\ FlightsTyped' /\ inflight'[r] = f
      /\ \A q \in Requests \ {r} : inflight'[q] = inflight[q]
  BY <1>0, <1>1, <1>2, FlightGoes DEF RequestsInv
<1>4. AccountsTyped' /\ KeysInv' /\ RowsInv'
  BY <1>1, <1>3, AccountsKept, KeysKept, RowsKept DEF RequestsInv, FindUser, RowsInv
<1>5. LockoutsInv'
  BY <1>0, <1>1, <1>3, LockoutsKept DEF RequestsInv, FindUser
<1> QED
  BY <1>3, <1>4, <1>5 DEF RequestsInv

\* One failure more, of an account for which k requests try besides.
LEMMA OneFailureFits ==
  ASSUME AccountsTyped, NEW a, NEW e \in Entry \union {Absent}, NEW k \in Nat,
         GuessesFit(a, e, k + 1), k < Cardinality(Requests)
  PROVE  OneFailure(e) \in Entry /\ GuessesFit(a, OneFailure(e), k)
<1>1. minute \in Nat /\ Cardinality(Requests) \in Nat
  BY RequestsConstants, FS_CardinalityType DEF AccountsTyped
<1> PICK o : o = OneFailure(e)
  OBVIOUS
<1>2. CASE e = Absent \/ WindowOver(e)
  <2>1. o = [attempts |-> 1, until |-> Absent, start |-> minute, touched |-> minute]
    BY <1>2 DEF OneFailure
  <2> QED
    BY <1>1, <2>1, RequestsConstants DEF GuessesFit, Entry
<1>3. CASE ~(e = Absent \/ WindowOver(e))
  <2>1. e \in Entry
    BY <1>3
  <2> DEFINE u == IF e.attempts + 1 >= LockAfter /\ e.until = Absent THEN minute + LockFor ELSE e.until
  <2>2. o = [attempts |-> e.attempts + 1, until |-> u, start |-> e.start, touched |-> minute]
    BY <1>3, <2>1 DEF OneFailure, Entry
  <2>3. u \in Nat \union {Absent} /\ e.attempts \in Nat
    BY <1>1, <2>1, RequestsConstants DEF Entry
  <2>4. o \in Entry /\ o.attempts = e.attempts + 1 /\ o.until = u
    BY <1>1, <2>1, <2>2, <2>3 DEF Entry
  <2>5. CASE e.until # Absent
    BY <1>1, <1>3, <2>3, <2>4, <2>5, RequestsConstants DEF GuessesFit
  <2>6. CASE e.until = Absent /\ e.attempts + 1 >= LockAfter
    <3>1. u = minute + LockFor /\ u # Absent
      BY <1>1, <2>6, RequestsConstants
    <3>2. e.attempts < LockAfter
      BY <1>3, <2>6 DEF GuessesFit
    <3> QED
      BY <1>1, <2>3, <2>4, <2>6, <3>1, <3>2, RequestsConstants DEF GuessesFit
  <2>7. CASE e.until = Absent /\ ~(e.attempts + 1 >= LockAfter)
    BY <1>1, <1>3, <2>3, <2>4, <2>7, RequestsConstants DEF GuessesFit
  <2> QED
    BY <2>4, <2>5, <2>6, <2>7
<1> QED
  BY <1>2, <1>3

LEMMA WrongPasswordInv ==
  ASSUME RequestsInv, NEW r \in Requests, WrongPassword(r), UNCHANGED minute
  PROVE  RequestsInv'
<1>0. inflight[r] \in Flight /\ inflight[r].at = "comparing" /\ inflight[r].of \in Accounts
  BY DEF RequestsInv, FlightsTyped, WrongPassword, At, Idle
<1>1. Idle \in Flight /\ Idle.at = "idle"
  BY DEF Flight, Idle
<1>2. inflight' = [inflight EXCEPT ![r] = Idle]
  BY DEF WrongPassword, Goes, Answered
<1>3. /\ FlightsTyped' /\ inflight'[r] = Idle
      /\ \A q \in Requests \ {r} : inflight'[q] = inflight[q]
  BY <1>1, <1>2, FlightGoes DEF RequestsInv
<1>4. AccountsTyped' /\ KeysInv' /\ RowsInv'
  BY <1>1, <1>3, AccountsKept, KeysKept, RowsKept DEF RequestsInv, WrongPassword, RowsInv
<1> PICK a \in Accounts : a = inflight[r].of
  BY <1>0
<1>5. PICK gone \in Evictions :
        lockouts' = [b \in Accounts |->
          LET kept == IF b \in gone THEN Absent ELSE lockouts[b]
          IN IF b = a THEN OneFailure(kept) ELSE kept]
  BY DEF WrongPassword
<1>6. \A b \in Accounts : b # a => lockouts'[b] \in {Absent, lockouts[b]}
  BY <1>5
<1>7. PICK e \in {Absent, lockouts[a]} : lockouts'[a] = OneFailure(e)
  BY <1>0, <1>5
<1>8. \A b \in Accounts : Trying(b)' \subseteq Trying(b)
  BY <1>1, <1>3 DEF Trying
<1>9. \A b \in Accounts : b # a => GuessesFit(b, lockouts'[b], Cardinality(Trying(b)'))
  <2>1. \A b \in Accounts : GuessesFit(b, lockouts[b], Cardinality(Trying(b)'))
    BY <1>8, GuessesKept DEF RequestsInv
  <2> QED
    BY <1>6, <2>1 DEF GuessesFit
<1>10. /\ Cardinality(Trying(a)') \in Nat
       /\ Cardinality(Trying(a)) = Cardinality(Trying(a)') + 1
       /\ Cardinality(Trying(a)') < Cardinality(Requests)
  <2>1. IsFiniteSet(Trying(a)) /\ IsFiniteSet(Requests)
    BY RequestsConstants, FS_Subset DEF Trying
  <2>2. Trying(a)' = Trying(a) \ {r} /\ r \in Trying(a)
    BY <1>0, <1>1, <1>3 DEF Trying
  <2>3. Cardinality(Trying(a) \ {r}) = Cardinality(Trying(a)) - 1
    BY <2>1, <2>2, FS_RemoveElement
  <2>4. Cardinality(Trying(a)) <= Cardinality(Requests)
    BY <2>1, FS_Subset DEF Trying
  <2>5. Cardinality(Trying(a)) \in Nat /\ Cardinality(Trying(a) \ {r}) \in Nat /\ Cardinality(Requests) \in Nat
    BY <2>1, FS_CardinalityType, FS_Subset
  <2> QED
    BY <2>2, <2>3, <2>4, <2>5
<1>11. OneFailure(e) \in Entry /\ GuessesFit(a, OneFailure(e), Cardinality(Trying(a)'))
  <2>1. e \in Entry \union {Absent}
    BY <1>0, <1>7 DEF RequestsInv, LockoutsInv
  <2>2. GuessesFit(a, e, Cardinality(Trying(a)') + 1)
    BY <1>0, <1>7, <1>10 DEF RequestsInv, LockoutsInv, GuessesFit
  <2> QED
    BY <1>10, <2>1, <2>2, OneFailureFits DEF RequestsInv
<1>12. lockouts' \in [Accounts -> Entry \union {Absent}]
  <2>1. lockouts' = [b \in Accounts |-> lockouts'[b]]
    BY <1>5
  <2>2. \A b \in Accounts : lockouts'[b] \in Entry \union {Absent}
    BY <1>6, <1>7, <1>11 DEF RequestsInv, LockoutsInv
  <2> QED
    BY <2>1, <2>2
<1>13. LockoutsInv'
  BY <1>7, <1>9, <1>11, <1>12 DEF LockoutsInv
<1> QED
  BY <1>3, <1>4, <1>13 DEF RequestsInv

LEMMA RightPasswordInv ==
  ASSUME RequestsInv, NEW r \in Requests, RightPassword(r), UNCHANGED minute
  PROVE  RequestsInv'
<1> PICK f : f = [inflight[r] EXCEPT !.at = "issuing"]
  OBVIOUS
<1>0. inflight[r] \in Flight /\ inflight[r].at = "comparing" /\ inflight[r].of \in Accounts
  BY DEF RequestsInv, FlightsTyped, RightPassword, At, Idle
<1>1. f \in Flight /\ f.at = "issuing" /\ f.of = inflight[r].of
  BY <1>0 DEF Flight
<1>2. inflight' = [inflight EXCEPT ![r] = f]
  BY <1>0 DEF RightPassword, Moves, RequestsInv, FlightsTyped
<1>3. /\ FlightsTyped' /\ inflight'[r] = f
      /\ \A q \in Requests \ {r} : inflight'[q] = inflight[q]
  BY <1>0, <1>1, <1>2, FlightGoes DEF RequestsInv
<1>4. AccountsTyped' /\ KeysInv' /\ RowsInv'
  BY <1>1, <1>3, AccountsKept, KeysKept, RowsKept DEF RequestsInv, RightPassword, RowsInv
<1>5. \A b \in Accounts : Trying(b)' \subseteq Trying(b)
  BY <1>1, <1>3 DEF Trying
<1>6. \A b \in Accounts : GuessesFit(b, lockouts[b], Cardinality(Trying(b)'))
  BY <1>5, GuessesKept DEF RequestsInv
<1>7. LockoutsInv'
  BY <1>6 DEF LockoutsInv, GuessesFit, RightPassword, RequestsInv
<1> QED
  BY <1>3, <1>4, <1>7 DEF RequestsInv

\* The tokens that have reached somebody, after a step that lets one more.
LEMMA ReachesToken ==
  ASSUME AccountsTyped, UNCHANGED <<minute, users, links, unique>>, NEW t, Reaches("tokens", t)
  PROVE  AccountsTyped' /\ clients'.tokens \subseteq clients.tokens \union {t}
<1> PICK c, l : clients = [tokens |-> c, links |-> l]
  BY DEF AccountsTyped
<1>1. \/ clients' = [tokens |-> c, links |-> l]
      \/ clients' = [tokens |-> c \union {t}, links |-> l]
  BY DEF Reaches
<1>2. clients' = [tokens |-> clients'.tokens, links |-> clients'.links] /\ clients'.links = clients.links
  BY <1>1
<1> QED
  BY <1>1, <1>2 DEF AccountsTyped

\* One row more takes nothing from the others.
LEMMA RowAdded ==
  ASSUME RowsInv, NEW row \in Row, rows' = Append(rows, row), ~row.revoked,
         row.jti \in 1 .. (Len(rows) + 1), UNCHANGED ended
  PROVE  /\ rows' \in Seq(Row) /\ DOMAIN rows \subseteq DOMAIN rows'
         /\ Len(rows) + 1 \in DOMAIN rows' /\ rows'[Len(rows) + 1] = row
         /\ \A i \in DOMAIN rows : rows'[i] = rows[i]
         /\ \A i \in DOMAIN rows' : rows'[i].jti \in 1 .. i
         /\ \A t : Succeeded(rows, t) => Succeeded(rows', t)
         /\ \A f : SavedOnce(rows, f) => SavedOnce(rows', f)
         /\ \A i \in DOMAIN rows' :
              rows'[i].revoked => rows'[i].jti \in ended' \/ Succeeded(rows', rows'[i].jti)
<1>0. rows \in Seq(Row)
  BY DEF RowsInv
<1>1. /\ rows' \in Seq(Row) /\ Len(rows') = Len(rows) + 1 /\ Len(rows) \in Nat
      /\ DOMAIN rows = 1 .. Len(rows) /\ DOMAIN rows' = 1 .. (Len(rows) + 1)
      /\ \A i \in 1 .. Len(rows) : rows'[i] = rows[i]
      /\ rows'[Len(rows) + 1] = row
  BY <1>0
<1>2. /\ DOMAIN rows \subseteq DOMAIN rows' /\ Len(rows) + 1 \in DOMAIN rows'
      /\ DOMAIN rows' = DOMAIN rows \union {Len(rows) + 1}
  BY <1>1
<1>3. \A t : Succeeded(rows, t) => Succeeded(rows', t)
  BY <1>1, <1>2 DEF Succeeded
<1>4. \A f : SavedOnce(rows, f) => SavedOnce(rows', f)
  BY <1>1, <1>2 DEF SavedOnce
<1>5. \A i \in DOMAIN rows' : rows'[i].jti \in 1 .. i
  <2>1. \A i \in DOMAIN rows : rows'[i].jti \in 1 .. i
    BY <1>1 DEF RowsInv
  <2>2. rows'[Len(rows) + 1].jti \in 1 .. (Len(rows) + 1)
    BY <1>1
  <2> QED
    BY <1>2, <2>1, <2>2
<1>6. \A i \in DOMAIN rows' :
        rows'[i].revoked => rows'[i].jti \in ended' \/ Succeeded(rows', rows'[i].jti)
  <2>1. \A i \in DOMAIN rows : rows'[i].revoked => rows'[i].jti \in ended \/ Succeeded(rows, rows'[i].jti)
    BY <1>1 DEF RowsInv
  <2> QED
    BY <1>1, <1>2, <1>3, <2>1
<1> QED
  BY <1>1, <1>2, <1>3, <1>4, <1>5, <1>6

LEMMA NewRowIs ==
  ASSUME RequestsInv, NEW r \in Requests, inflight[r].at \in {"issuing", "saving"}, NEW jti \in Nat
  PROVE  /\ inflight[r] \in Flight /\ inflight[r].of \in Accounts
         /\ NewRow(r, jti) \in Row /\ NewRow(r, jti).jti = jti /\ ~NewRow(r, jti).revoked
         /\ NewRow(r, jti).from = inflight[r].item
<1>1. inflight[r] \in Flight /\ inflight[r].of \in Accounts
  BY DEF RequestsInv, FlightsTyped, At, Idle
<1>2. minute + RowLife \in Nat
  BY RequestsConstants DEF RequestsInv, AccountsTyped
<1> QED
  BY <1>1, <1>2 DEF NewRow, Row, Flight

LEMMA SaveTokensInv ==
  ASSUME RequestsInv, NEW r \in Requests, SaveTokens(r), UNCHANGED minute
  PROVE  RequestsInv'
<1>1. Idle \in Flight /\ Idle.at = "idle"
  BY DEF Flight, Idle
<1>2. inflight' = [inflight EXCEPT ![r] = Idle]
  BY DEF SaveTokens, Goes, Answered
<1>3. /\ FlightsTyped' /\ inflight'[r] = Idle
      /\ \A q \in Requests \ {r} : inflight'[q] = inflight[q]
  BY <1>1, <1>2, FlightGoes DEF RequestsInv
<1>4. KeysInv' /\ LockoutsInv'
  BY <1>1, <1>3, KeysKept, LockoutsKept DEF RequestsInv, SaveTokens
<1>5. AccountsTyped' /\ clients'.tokens \subseteq clients.tokens \union {Len(rows) + 1}
  BY ReachesToken DEF RequestsInv, SaveTokens
<1>6. Len(rows) \in Nat
  BY DEF RequestsInv, RowsInv
<1> PICK row : row = NewRow(r, Len(rows) + 1)
  OBVIOUS
<1>7. row \in Row /\ row.jti = Len(rows) + 1 /\ ~row.revoked
  BY <1>6, NewRowIs DEF SaveTokens, At
<1>8. /\ rows' \in Seq(Row) /\ DOMAIN rows \subseteq DOMAIN rows'
      /\ Len(rows) + 1 \in DOMAIN rows'
      /\ \A i \in DOMAIN rows' : rows'[i].jti \in 1 .. i
      /\ \A t : Succeeded(rows, t) => Succeeded(rows', t)
      /\ \A f : SavedOnce(rows, f) => SavedOnce(rows', f)
      /\ \A i \in DOMAIN rows' :
           rows'[i].revoked => rows'[i].jti \in ended' \/ Succeeded(rows', rows'[i].jti)
  BY <1>6, <1>7, RowAdded DEF RequestsInv, SaveTokens
<1>9. \A q \in Requests : /\ At(q, "saving")' => At(q, "saving") /\ inflight'[q] = inflight[q]
                          /\ At(q, "revoking")' => At(q, "revoking") /\ inflight'[q] = inflight[q]
  BY <1>1, <1>3 DEF At
<1>10. RowsInv'
  BY <1>5, <1>8, <1>9 DEF RowsInv, RequestsInv
<1> QED
  BY <1>3, <1>4, <1>5, <1>10 DEF RequestsInv

LEMMA SaveSuccessorInv ==
  ASSUME RequestsInv, NEW r \in Requests, SaveSuccessor(r), UNCHANGED minute
  PROVE  RequestsInv'
<1>0. Len(rows) \in Nat
  BY DEF RequestsInv, RowsInv
<1> PICK row : row = NewRow(r, Len(rows) + 1)
  OBVIOUS
<1>1. /\ inflight[r] \in Flight /\ inflight[r].of \in Accounts
      /\ row \in Row /\ row.jti = Len(rows) + 1 /\ ~row.revoked /\ row.from = inflight[r].item
  BY <1>0, NewRowIs DEF SaveSuccessor, At
<1> PICK g : g = [inflight[r] EXCEPT !.at = "saving"]
  OBVIOUS
<1> PICK f : f = [g EXCEPT !.pair = Len(rows) + 1]
  OBVIOUS
<1>2. g \in Flight /\ g.at = "saving" /\ g.of = inflight[r].of /\ g.item = inflight[r].item
  BY <1>1 DEF Flight
<1>3. f \in Flight /\ f.at = "saving" /\ f.of \in Accounts /\ f.item = inflight[r].item
      /\ f.pair = Len(rows) + 1
  <2> PICK n \in Nat : n = Len(rows) + 1
    BY <1>0
  <2>1. f = [g EXCEPT !.pair = n]
    OBVIOUS
  <2>2. g \in Flight /\ g.of \in Accounts /\ n \in Nat
    BY <1>1, <1>2
  <2>3. f \in Flight /\ f.at = g.at /\ f.of = g.of /\ f.item = g.item /\ f.pair = n
    BY <2>1, <2>2 DEF Flight
  <2> QED
    BY <1>1, <1>2, <2>3
<1>4. inflight' = [inflight EXCEPT ![r] = f]
  BY DEF SaveSuccessor, Goes
<1>5. /\ FlightsTyped' /\ inflight'[r] = f
      /\ \A q \in Requests \ {r} : inflight'[q] = inflight[q]
  BY <1>3, <1>4, FlightGoes DEF RequestsInv
<1>6. KeysInv' /\ LockoutsInv' /\ AccountsTyped'
  BY <1>3, <1>5, KeysKept, LockoutsKept, AccountsKept DEF RequestsInv, SaveSuccessor
<1>7. /\ rows' \in Seq(Row) /\ DOMAIN rows \subseteq DOMAIN rows'
      /\ Len(rows) + 1 \in DOMAIN rows' /\ rows'[Len(rows) + 1] = row
      /\ \A i \in DOMAIN rows' : rows'[i].jti \in 1 .. i
      /\ \A t : Succeeded(rows, t) => Succeeded(rows', t)
      /\ \A h : SavedOnce(rows, h) => SavedOnce(rows', h)
      /\ \A i \in DOMAIN rows' :
           rows'[i].revoked => rows'[i].jti \in ended' \/ Succeeded(rows', rows'[i].jti)
  BY <1>0, <1>1, RowAdded DEF RequestsInv, SaveSuccessor
<1>8. SavedOnce(rows', f)
  BY <1>1, <1>3, <1>7 DEF SavedOnce
<1>9. \A q \in Requests : At(q, "saving")' \/ At(q, "revoking")' => SavedOnce(rows', inflight'[q])
  BY <1>5, <1>7, <1>8 DEF RowsInv, RequestsInv, At
<1>10. \A q \in Requests : At(q, "revoking")' => Succeeded(rows', inflight'[q].item)
  BY <1>3, <1>5, <1>7 DEF RowsInv, RequestsInv, At
<1>11. clients'.tokens \subseteq DOMAIN rows'
  BY <1>7 DEF RowsInv, RequestsInv, SaveSuccessor
<1>12. RowsInv'
  BY <1>7, <1>9, <1>10, <1>11 DEF RowsInv
<1> QED
  BY <1>5, <1>6, <1>12 DEF RequestsInv

LEMMA StartRefreshInv ==
  ASSUME RequestsInv, NEW r \in Requests, NEW t \in clients.tokens, StartRefresh(r, t), UNCHANGED minute
  PROVE  RequestsInv'
<1> PICK i \in DOMAIN rows :
       /\ rows[i].jti = t /\ Live(rows[i])
       /\ Goes(r, [Idle EXCEPT !.at = "issuing", !.of = rows[i].of, !.item = t])
  BY DEF StartRefresh
<1> DEFINE f == [Idle EXCEPT !.at = "issuing", !.of = rows[i].of, !.item = t]
<1>0. rows[i].of \in Accounts /\ t \in Nat
  <2>1. rows[i] \in Row
    BY DEF RequestsInv, RowsInv
  <2> QED
    BY <2>1 DEF Row
<1>1. f \in Flight /\ f.at = "issuing" /\ f.of \in Accounts
  BY <1>0 DEF Flight, Idle
<1>2. inflight' = [inflight EXCEPT ![r] = f]
  BY DEF Goes
<1> HIDE DEF f
<1>3. PICK e : e = f
  OBVIOUS
<1>4. /\ FlightsTyped' /\ inflight'[r] = e
      /\ \A q \in Requests \ {r} : inflight'[q] = inflight[q]
  BY <1>1, <1>2, <1>3, FlightGoes DEF RequestsInv
<1>5. AccountsTyped' /\ KeysInv' /\ RowsInv' /\ LockoutsInv'
  BY <1>1, <1>3, <1>4, AccountsKept, KeysKept, RowsKept, LockoutsKept DEF RequestsInv, StartRefresh, RowsInv
<1> QED
  BY <1>4, <1>5 DEF RequestsInv

LEMMA SaveAgainInv ==
  ASSUME RequestsInv, NEW r \in Requests, SaveAgain(r), UNCHANGED minute
  PROVE  RequestsInv'
<1>0. /\ SavedOnce(rows, inflight[r]) /\ Len(rows) \in Nat /\ rows \in Seq(Row)
      /\ inflight[r].pair \in DOMAIN rows
  BY DEF RequestsInv, RowsInv, SaveAgain, SavedOnce
<1> PICK row : row = NewRow(r, inflight[r].pair)
  OBVIOUS
<1>1. inflight[r].pair \in 1 .. Len(rows)
  BY <1>0
<1>2. /\ inflight[r] \in Flight /\ inflight[r].of \in Accounts
      /\ row \in Row /\ row.jti = inflight[r].pair /\ ~row.revoked /\ row.from = inflight[r].item
  BY <1>1, NewRowIs DEF SaveAgain, At
<1> PICK f : f = [inflight[r] EXCEPT !.at = "revoking"]
  OBVIOUS
<1>3. /\ f \in Flight /\ f.at = "revoking" /\ f.of \in Accounts /\ f.item = inflight[r].item
      /\ f.pair = inflight[r].pair
  BY <1>2 DEF Flight
<1>4. inflight' = [inflight EXCEPT ![r] = f]
  BY <1>2 DEF SaveAgain, Moves, RequestsInv, FlightsTyped
<1>5. /\ FlightsTyped' /\ inflight'[r] = f
      /\ \A q \in Requests \ {r} : inflight'[q] = inflight[q]
  BY <1>3, <1>4, FlightGoes DEF RequestsInv
<1>6. KeysInv' /\ LockoutsInv' /\ AccountsTyped'
  BY <1>3, <1>5, KeysKept, LockoutsKept, AccountsKept DEF RequestsInv, SaveAgain
<1>7. /\ rows' \in Seq(Row) /\ DOMAIN rows \subseteq DOMAIN rows'
      /\ Len(rows) + 1 \in DOMAIN rows' /\ rows'[Len(rows) + 1] = row
      /\ \A i \in DOMAIN rows : rows'[i] = rows[i]
      /\ \A i \in DOMAIN rows' : rows'[i].jti \in 1 .. i
      /\ \A t : Succeeded(rows, t) => Succeeded(rows', t)
      /\ \A h : SavedOnce(rows, h) => SavedOnce(rows', h)
      /\ \A i \in DOMAIN rows' :
           rows'[i].revoked => rows'[i].jti \in ended' \/ Succeeded(rows', rows'[i].jti)
  BY <1>0, <1>1, <1>2, RowAdded DEF RequestsInv, SaveAgain
\* The two rows of the successor.
<1>8. Succeeded(rows', inflight[r].item)
  <2>1. /\ inflight[r].pair \in DOMAIN rows' /\ inflight[r].pair < Len(rows) + 1
        /\ rows'[inflight[r].pair].jti = rows'[Len(rows) + 1].jti
        /\ rows'[inflight[r].pair].from = inflight[r].item
    BY <1>0, <1>1, <1>2, <1>7 DEF SavedOnce
  <2> QED
    BY <1>7, <2>1 DEF Succeeded
<1>9. \A q \in Requests : At(q, "saving")' \/ At(q, "revoking")' => SavedOnce(rows', inflight'[q])
  <2>1. SavedOnce(rows', f)
    BY <1>0, <1>3, <1>7 DEF SavedOnce
  <2> QED
    BY <1>5, <1>7, <2>1 DEF RowsInv, RequestsInv, At
<1>10. \A q \in Requests : At(q, "revoking")' => Succeeded(rows', inflight'[q].item)
  BY <1>3, <1>5, <1>7, <1>8 DEF RowsInv, RequestsInv, At
<1>11. clients'.tokens \subseteq DOMAIN rows'
  BY <1>7 DEF RowsInv, RequestsInv, SaveAgain
<1>12. RowsInv'
  BY <1>7, <1>9, <1>10, <1>11 DEF RowsInv
<1> QED
  BY <1>5, <1>6, <1>12 DEF RequestsInv

\* Rows are revoked whose token is given up or replaced.
LEMMA RowsRevoked ==
  ASSUME RowsInv, NEW jtis, rows' = Revoked(jtis), ended \subseteq ended',
         \A t \in jtis : t \in ended' \/ Succeeded(rows, t)
  PROVE  /\ rows' \in Seq(Row) /\ DOMAIN rows' = DOMAIN rows
         /\ \A i \in DOMAIN rows' : rows'[i].jti \in 1 .. i
         /\ \A t : Succeeded(rows, t) => Succeeded(rows', t)
         /\ \A f : SavedOnce(rows, f) => SavedOnce(rows', f)
         /\ \A i \in DOMAIN rows' :
              rows'[i].revoked => rows'[i].jti \in ended' \/ Succeeded(rows', rows'[i].jti)
<1>0. rows \in Seq(Row) /\ Len(rows) \in Nat /\ DOMAIN rows = 1 .. Len(rows)
  BY DEF RowsInv
<1>1. \A i \in DOMAIN rows : rows[i] \in Row
  BY <1>0
<1>2. DOMAIN rows' = DOMAIN rows
  BY DEF Revoked
<1>3. \A i \in DOMAIN rows :
        /\ rows'[i] \in Row /\ rows'[i].jti = rows[i].jti /\ rows'[i].from = rows[i].from
        /\ rows'[i].revoked => rows[i].revoked \/ rows[i].jti \in jtis
  <2> SUFFICES ASSUME NEW i \in DOMAIN rows
               PROVE  /\ rows'[i] \in Row /\ rows'[i].jti = rows[i].jti /\ rows'[i].from = rows[i].from
                      /\ rows'[i].revoked => rows[i].revoked \/ rows[i].jti \in jtis
    OBVIOUS
  <2> PICK b \in BOOLEAN : b = (rows[i].revoked \/ rows[i].jti \in jtis)
    OBVIOUS
  <2>1. rows'[i] = [rows[i] EXCEPT !.revoked = b]
    BY DEF Revoked
  <2>2. rows[i] \in Row
    BY <1>1
  <2> QED
    BY <2>1, <2>2 DEF Row
<1>4. rows' \in Seq(Row)
  <2>1. rows' = [i \in 1 .. Len(rows) |-> rows'[i]]
    BY <1>0 DEF Revoked
  <2> QED
    BY <1>0, <1>3, <2>1
<1>5. \A t : Succeeded(rows, t) => Succeeded(rows', t)
  BY <1>2, <1>3 DEF Succeeded
<1>6. \A f : SavedOnce(rows, f) => SavedOnce(rows', f)
  BY <1>2, <1>3 DEF SavedOnce
<1>7. \A i \in DOMAIN rows' : rows'[i].jti \in 1 .. i
  BY <1>2, <1>3 DEF RowsInv
<1>8. \A i \in DOMAIN rows' :
        rows'[i].revoked => rows'[i].jti \in ended' \/ Succeeded(rows', rows'[i].jti)
  <2>1. \A i \in DOMAIN rows : rows[i].revoked => rows[i].jti \in ended' \/ Succeeded(rows', rows[i].jti)
    BY <1>5 DEF RowsInv
  <2> QED
    BY <1>2, <1>3, <1>5, <2>1
<1> QED
  BY <1>2, <1>4, <1>5, <1>6, <1>7, <1>8


LEMMA RevokeOldInv ==
  ASSUME RequestsInv, NEW r \in Requests, RevokeOld(r), UNCHANGED minute
  PROVE  RequestsInv'
<1>0. /\ Succeeded(rows, inflight[r].item) /\ inflight[r] \in Flight
      /\ rows \in Seq(Row)
  BY DEF RequestsInv, RowsInv, RevokeOld, FlightsTyped
<1>1. Idle \in Flight /\ Idle.at = "idle"
  BY DEF Flight, Idle
<1>2. inflight' = [inflight EXCEPT ![r] = Idle]
  BY DEF RevokeOld, Goes, Answered
<1>3. /\ FlightsTyped' /\ inflight'[r] = Idle
      /\ \A q \in Requests \ {r} : inflight'[q] = inflight[q]
  BY <1>1, <1>2, FlightGoes DEF RequestsInv
<1>4. KeysInv' /\ LockoutsInv'
  BY <1>1, <1>3, KeysKept, LockoutsKept DEF RequestsInv, RevokeOld
<1>5. AccountsTyped' /\ clients'.tokens \subseteq clients.tokens \union {inflight[r].pair}
  BY ReachesToken DEF RequestsInv, RevokeOld
<1>6. /\ rows' \in Seq(Row) /\ DOMAIN rows' = DOMAIN rows
      /\ \A i \in DOMAIN rows' : rows'[i].jti \in 1 .. i
      /\ \A t : Succeeded(rows, t) => Succeeded(rows', t)
      /\ \A f : SavedOnce(rows, f) => SavedOnce(rows', f)
      /\ \A i \in DOMAIN rows' :
           rows'[i].revoked => rows'[i].jti \in ended' \/ Succeeded(rows', rows'[i].jti)
  BY <1>0, RowsRevoked DEF RequestsInv, RevokeOld
<1>7. \A q \in Requests : /\ At(q, "saving")' => At(q, "saving") /\ inflight'[q] = inflight[q]
                          /\ At(q, "revoking")' => At(q, "revoking") /\ inflight'[q] = inflight[q]
  BY <1>1, <1>3 DEF At
<1>8. clients'.tokens \subseteq DOMAIN rows
  <2>1. inflight[r].pair \in DOMAIN rows
    BY DEF RequestsInv, RowsInv, RevokeOld, SavedOnce
  <2> QED
    BY <1>5, <2>1 DEF RequestsInv, RowsInv
<1>9. RowsInv'
  BY <1>6, <1>7, <1>8 DEF RowsInv, RequestsInv
<1> QED
  BY <1>3, <1>4, <1>5, <1>9 DEF RequestsInv

LEMMA SignOutInv ==
  ASSUME RequestsInv, NEW jtis, SignOut(jtis), UNCHANGED minute
  PROVE  RequestsInv'
<1>1. /\ rows' \in Seq(Row) /\ DOMAIN rows' = DOMAIN rows
      /\ \A i \in DOMAIN rows' : rows'[i].jti \in 1 .. i
      /\ \A t : Succeeded(rows, t) => Succeeded(rows', t)
      /\ \A f : SavedOnce(rows, f) => SavedOnce(rows', f)
      /\ \A i \in DOMAIN rows' :
           rows'[i].revoked => rows'[i].jti \in ended' \/ Succeeded(rows', rows'[i].jti)
  BY RowsRevoked DEF RequestsInv, SignOut
<1>2. RowsInv'
  BY <1>1 DEF RowsInv, RequestsInv, SignOut, At
<1>3. AccountsTyped' /\ FlightsTyped'
  BY AccountsKept DEF RequestsInv, SignOut, FlightsTyped, At
<1>4. KeysInv'
  BY DEF RequestsInv, SignOut, KeysInv, OneRunPerKey, Verifying, At
<1>5. LockoutsInv'
  <2>1. \A a \in Accounts : Trying(a)' = Trying(a)
    BY DEF Trying, SignOut
  <2> QED
    BY <2>1 DEF RequestsInv, SignOut, LockoutsInv, GuessesFit
<1> QED
  BY <1>2, <1>3, <1>4, <1>5 DEF RequestsInv

LEMMA StartResendInv ==
  ASSUME RequestsInv, NEW r \in Requests, NEW a \in Accounts, StartResend(r, a), UNCHANGED minute
  PROVE  RequestsInv'
<1> PICK f : f = [Idle EXCEPT !.at = "linking", !.of = a]
  OBVIOUS
<1>1. f \in Flight /\ f.at = "linking" /\ f.of = a
  BY DEF Flight, Idle
<1>2. inflight' = [inflight EXCEPT ![r] = f]
  BY DEF StartResend, Goes
<1>3. /\ FlightsTyped' /\ inflight'[r] = f
      /\ \A q \in Requests \ {r} : inflight'[q] = inflight[q]
  BY <1>1, <1>2, FlightGoes DEF RequestsInv
<1>4. AccountsTyped' /\ KeysInv' /\ RowsInv' /\ LockoutsInv'
  BY <1>1, <1>3, AccountsKept, KeysKept, RowsKept, LockoutsKept DEF RequestsInv, StartResend, RowsInv
<1> QED
  BY <1>3, <1>4 DEF RequestsInv

LEMMA SaveLinkInv ==
  ASSUME RequestsInv, NEW r \in Requests, SaveLink(r), UNCHANGED minute
  PROVE  RequestsInv'
<1>0. inflight[r] \in Flight /\ inflight[r].of \in Accounts
  BY DEF RequestsInv, FlightsTyped, SaveLink, At, Idle
<1>1. Idle \in Flight /\ Idle.at = "idle"
  BY DEF Flight, Idle
<1>2. inflight' = [inflight EXCEPT ![r] = Idle]
  BY DEF SaveLink, Goes, Answered
<1>3. /\ FlightsTyped' /\ inflight'[r] = Idle
      /\ \A q \in Requests \ {r} : inflight'[q] = inflight[q]
  BY <1>1, <1>2, FlightGoes DEF RequestsInv
<1> PICK c, l : clients = [tokens |-> c, links |-> l]
  BY DEF RequestsInv, AccountsTyped
<1>4. \/ clients' = [tokens |-> c, links |-> l]
      \/ clients' = [tokens |-> c, links |-> l \union {links + 1}]
  BY DEF SaveLink, Reaches
<1>5. /\ clients' = [tokens |-> clients'.tokens, links |-> clients'.links]
      /\ clients'.tokens = clients.tokens /\ clients'.links \subseteq clients.links \union {links + 1}
  BY <1>4
<1>6. KeysInv' /\ LockoutsInv' /\ RowsInv'
  BY <1>1, <1>3, <1>5, KeysKept, LockoutsKept, RowsKept DEF RequestsInv, RowsInv, SaveLink
<1>7. AccountsTyped'
  <2>1. /\ links \in 0 .. MaxLinks /\ links < MaxLinks /\ links' = links + 1 /\ minute \in Nat
        /\ clients.links \subseteq 1 .. links
    BY RequestsConstants DEF SaveLink, RequestsInv, AccountsTyped
  <2>2. links' \in 0 .. MaxLinks /\ links + 1 \in Link /\ minute + LinkLife \in Nat
    BY <2>1, RequestsConstants DEF Link
  <2> PICK a \in Accounts : a = inflight[r].of
    BY <1>0
  <2> PICK u : u = [verified |-> FALSE, link |-> links + 1, ends |-> minute + LinkLife]
    OBVIOUS
  <2>3. u \in Account /\ ~u.verified
    BY <2>2 DEF Account
  <2>4. users' = [users EXCEPT ![a] = u] /\ users \in [Accounts -> Account]
    BY DEF SaveLink, RequestsInv, AccountsTyped
  <2>5. users' \in [Accounts -> Account] /\ \A b \in Accounts : users'[b].verified => users'[b].link = Absent
    BY <2>3, <2>4 DEF RequestsInv, AccountsTyped
  <2>6. clients'.links \subseteq 1 .. links'
    BY <1>5, <2>1
  <2> QED
    BY <1>5, <2>2, <2>5, <2>6 DEF AccountsTyped, RequestsInv, SaveLink
<1> QED
  BY <1>3, <1>6, <1>7 DEF RequestsInv

LEMMA StartVerifyInv ==
  ASSUME RequestsInv, NEW r \in Requests, NEW l \in clients.links, StartVerify(r, l), UNCHANGED minute
  PROVE  RequestsInv'
<1>0. l \in Link /\ l \in Nat
  BY RequestsConstants DEF RequestsInv, AccountsTyped, Link
<1> PICK f : f = [Idle EXCEPT !.at = "looking", !.item = l]
  OBVIOUS
<1>1. f \in Flight /\ f.at = "looking" /\ f.item = l
  BY <1>0 DEF Flight, Idle
<1>2. inflight' = [inflight EXCEPT ![r] = f]
  BY DEF StartVerify, Goes
<1>3. /\ FlightsTyped' /\ inflight'[r] = f
      /\ \A q \in Requests \ {r} : inflight'[q] = inflight[q]
  BY <1>1, <1>2, FlightGoes DEF RequestsInv
<1>4. AccountsTyped' /\ RowsInv' /\ LockoutsInv'
  BY <1>1, <1>3, AccountsKept, RowsKept, LockoutsKept DEF RequestsInv, StartVerify, RowsInv
\* Nobody holds the key that is absent.
<1>5. \A q \in Requests \ {r} : Verifying(q)' => Verifying(q) /\ inflight'[q].item = inflight[q].item
                                                 /\ inflight[q].item # l
  BY <1>0, <1>3, RequestsConstants DEF Verifying, At, RequestsInv, KeysInv, StartVerify, Running
<1>6. keys' \in [Link -> Nat \union {Absent, Running}] /\ keys'[l] = Running
      /\ \A k \in Link : k # l => keys'[k] = keys[k]
  BY <1>0 DEF RequestsInv, KeysInv, StartVerify
<1>7. KeysInv'
  <2>1. \A q \in Requests : Verifying(q)' => inflight'[q].item \in Link /\ keys'[inflight'[q].item] = Running
    BY <1>0, <1>1, <1>3, <1>5, <1>6 DEF RequestsInv, KeysInv
  <2>2. OneRunPerKey'
    BY <1>1, <1>3, <1>5 DEF RequestsInv, KeysInv, OneRunPerKey
  <2> QED
    BY <1>6, <2>1, <2>2 DEF KeysInv
<1> QED
  BY <1>3, <1>4, <1>7 DEF RequestsInv

LEMMA FindLinkInv ==
  ASSUME RequestsInv, NEW r \in Requests, NEW a \in Accounts, FindLink(r, a), UNCHANGED minute
  PROVE  RequestsInv'
<1>0. inflight[r] \in Flight
  BY DEF RequestsInv, FlightsTyped
<1> PICK g : g = [inflight[r] EXCEPT !.at = "marking"]
  OBVIOUS
<1> PICK f : f = [g EXCEPT !.of = a]
  OBVIOUS
<1>1. g \in Flight /\ g.at = "marking" /\ g.item = inflight[r].item
  BY <1>0 DEF Flight
<1>2. f \in Flight /\ f.at = "marking" /\ f.of \in Accounts /\ f.item = inflight[r].item
  BY <1>1 DEF Flight
<1>3. inflight' = [inflight EXCEPT ![r] = f]
  BY DEF FindLink, Goes
<1>4. /\ FlightsTyped' /\ inflight'[r] = f
      /\ \A q \in Requests \ {r} : inflight'[q] = inflight[q]
  BY <1>2, <1>3, FlightGoes DEF RequestsInv
<1>5. AccountsTyped' /\ KeysInv' /\ RowsInv' /\ LockoutsInv'
  BY <1>2, <1>4, AccountsKept, KeysKept, RowsKept, LockoutsKept DEF RequestsInv, FindLink, RowsInv
<1> QED
  BY <1>4, <1>5 DEF RequestsInv

\* A verification ends, and gives up its key.
LEMMA KeyGivenUp ==
  ASSUME KeysInv, FlightsTyped, NEW r \in Requests, Verifying(r),
         NEW end \in Nat \union {Absent}, keys' = [keys EXCEPT ![inflight[r].item] = end],
         inflight'[r].at = "idle", \A q \in Requests \ {r} : inflight'[q] = inflight[q]
  PROVE  KeysInv'
<1>1. /\ inflight[r].item \in Link /\ keys' \in [Link -> Nat \union {Absent, Running}]
      /\ \A k \in Link : k # inflight[r].item => keys'[k] = keys[k]
  BY DEF KeysInv
<1>2. \A q \in Requests : Verifying(q)' => Verifying(q) /\ inflight'[q].item = inflight[q].item /\ q # r
                                           /\ inflight[q].item # inflight[r].item
  BY DEF Verifying, At, KeysInv, OneRunPerKey
<1> QED
  BY <1>1, <1>2 DEF KeysInv, OneRunPerKey

LEMMA MarkVerifiedInv ==
  ASSUME RequestsInv, NEW r \in Requests, MarkVerified(r), UNCHANGED minute
  PROVE  RequestsInv'
<1>0. inflight[r] \in Flight /\ inflight[r].of \in Accounts /\ Verifying(r)
  BY DEF RequestsInv, FlightsTyped, MarkVerified, At, Idle, Verifying
<1>1. Idle \in Flight /\ Idle.at = "idle"
  BY DEF Flight, Idle
<1>2. inflight' = [inflight EXCEPT ![r] = Idle]
  BY DEF MarkVerified, Goes, Answered
<1>3. /\ FlightsTyped' /\ inflight'[r] = Idle
      /\ \A q \in Requests \ {r} : inflight'[q] = inflight[q]
  BY <1>1, <1>2, FlightGoes DEF RequestsInv
<1>4. LockoutsInv' /\ RowsInv'
  BY <1>1, <1>3, LockoutsKept, RowsKept DEF RequestsInv, RowsInv, MarkVerified
<1>5. KeysInv'
  <2>1. minute + KeyLife \in Nat
    BY RequestsConstants DEF RequestsInv, AccountsTyped
  <2> PICK end \in Nat \union {Absent} : keys' = [keys EXCEPT ![inflight[r].item] = end]
    BY <2>1 DEF MarkVerified
  <2> QED
    BY <1>0, <1>1, <1>3, KeyGivenUp DEF RequestsInv
<1>6. AccountsTyped'
  <2> PICK u : u = NoLink(TRUE)
    OBVIOUS
  <2>1. u \in Account /\ u.link = Absent
    BY DEF Account, NoLink
  <2>2. users' = [users EXCEPT ![inflight[r].of] = u] /\ users \in [Accounts -> Account]
    BY DEF MarkVerified, RequestsInv, AccountsTyped
  <2>3. users' \in [Accounts -> Account] /\ \A b \in Accounts : users'[b].verified => users'[b].link = Absent
    BY <1>0, <2>1, <2>2 DEF RequestsInv, AccountsTyped
  <2> QED
    BY <2>3 DEF AccountsTyped, RequestsInv, MarkVerified
<1> QED
  BY <1>3, <1>4, <1>5, <1>6 DEF RequestsInv

LEMMA FailsInv ==
  ASSUME RequestsInv, NEW r \in Requests, Fails(r), UNCHANGED minute
  PROVE  RequestsInv'
<1>1. Idle \in Flight /\ Idle.at = "idle"
  BY DEF Flight, Idle
<1>2. inflight' = [inflight EXCEPT ![r] = Idle]
  BY DEF Fails, Goes, Answered
<1>3. /\ FlightsTyped' /\ inflight'[r] = Idle
      /\ \A q \in Requests \ {r} : inflight'[q] = inflight[q]
  BY <1>1, <1>2, FlightGoes DEF RequestsInv
<1>4. AccountsTyped' /\ LockoutsInv' /\ RowsInv'
  BY <1>1, <1>3, AccountsKept, LockoutsKept, RowsKept DEF RequestsInv, RowsInv, Fails
<1>5. KeysInv'
  <2>1. CASE Verifying(r)
    <3>1. keys' = [keys EXCEPT ![inflight[r].item] = Absent]
      BY <2>1 DEF Fails
    <3> QED
      BY <1>1, <1>3, <2>1, <3>1, KeyGivenUp DEF RequestsInv
  <2>2. CASE ~Verifying(r)
    BY <1>1, <1>3, <2>2, KeysKept DEF RequestsInv, Fails
  <2> QED
    BY <2>1, <2>2
<1> QED
  BY <1>3, <1>4, <1>5 DEF RequestsInv

\* No timer takes the key of a verification that runs.
LEMMA ForgetKeyInv ==
  ASSUME RequestsInv, NEW l \in Link, ForgetKey(l), UNCHANGED minute
  PROVE  RequestsInv'
<1>1. AccountsTyped' /\ FlightsTyped' /\ RowsInv'
  BY AccountsKept DEF RequestsInv, ForgetKey, FlightsTyped, At, RowsInv
<1>2. LockoutsInv'
  <2>1. \A a \in Accounts : Trying(a)' = Trying(a)
    BY DEF Trying, ForgetKey
  <2> QED
    BY <2>1 DEF RequestsInv, ForgetKey, LockoutsInv, GuessesFit
<1>3. KeysInv'
  <2>1. keys' \in [Link -> Nat \union {Absent, Running}] /\ \A k \in Link : k # l => keys'[k] = keys[k]
    BY DEF RequestsInv, KeysInv, ForgetKey
  <2>2. \A q \in Requests : Verifying(q)' <=> Verifying(q)
    BY DEF Verifying, At, ForgetKey
  <2>3. \A q \in Requests : Verifying(q) => inflight[q].item # l
    BY DEF RequestsInv, KeysInv, ForgetKey
  <2> QED
    BY <2>1, <2>2, <2>3 DEF RequestsInv, KeysInv, OneRunPerKey, ForgetKey
<1> QED
  BY <1>1, <1>2, <1>3 DEF RequestsInv

\* With all requests gone, nobody tries and nobody holds a key.
LEMMA NobodyInv ==
  ASSUME AccountsTyped, RowsInv, lockouts = [a \in Accounts |-> Absent],
         keys = [l \in Link |-> Absent], inflight = [r \in Requests |-> Idle]
  PROVE  RequestsInv
<1>1. Idle \in Flight /\ Idle.at = "idle"
  BY DEF Flight, Idle
<1>2. FlightsTyped /\ KeysInv
  BY <1>1 DEF FlightsTyped, KeysInv, OneRunPerKey, Verifying, At
<1>3. LockoutsInv
  BY DEF LockoutsInv, GuessesFit
<1> QED
  BY <1>2, <1>3 DEF RequestsInv

LEMMA RestartInv == RequestsInv /\ Restart /\ UNCHANGED minute => RequestsInv'
<1> SUFFICES ASSUME RequestsInv, Restart, UNCHANGED minute PROVE RequestsInv'
  OBVIOUS
<1>1. AccountsTyped'
  BY AccountsKept DEF RequestsInv, Restart
<1>2. RowsInv'
  BY DEF RequestsInv, RowsInv, Restart, At, Idle
<1>3. (lockouts = [a \in Accounts |-> Absent] /\ keys = [l \in Link |-> Absent]
         /\ inflight = [r \in Requests |-> Idle])'
  BY DEF Restart, Link
<1> QED
  BY <1>1, <1>2, <1>3, NobodyInv, PTL

LEMMA RequestsInitInv == RequestsInit => RequestsInv
<1> SUFFICES ASSUME RequestsInit PROVE RequestsInv
  OBVIOUS
<1>1. AccountsTyped
  <2>1. \A v \in BOOLEAN : NoLink(v) \in Account /\ NoLink(v).link = Absent
    BY DEF NoLink, Account
  <2>2. users \in [Accounts -> Account] /\ \A a \in Accounts : users[a].link = Absent
    BY <2>1 DEF RequestsInit
  <2> QED
    BY <2>2, RequestsConstants DEF AccountsTyped, RequestsInit
<1>2. RowsInv
  BY DEF RowsInv, RequestsInit, At, Idle
<1> QED
  BY <1>1, <1>2, NobodyInv DEF RequestsInit, Link

LEMMA RequestsStepInv ==
  RequestsInv /\ [RequestsStep]_<<minute, requestVars>> => RequestsInv'
<1> SUFFICES ASSUME RequestsInv, [RequestsStep]_<<minute, requestVars>> PROVE RequestsInv'
  OBVIOUS
<1>1. CASE UNCHANGED requestVars /\ (UNCHANGED minute \/ MinutePasses)
  <2>1. minute' \in 0 .. MaxMinutes
    BY <1>1, RequestsConstants DEF MinutePasses, RequestsInv, AccountsTyped
  <2>2. AccountsTyped' /\ FlightsTyped' /\ RowsInv'
    BY <1>1, <2>1 DEF RequestsInv, AccountsTyped, FlightsTyped, RowsInv, At, requestVars
  <2>3. KeysInv'
    BY <1>1 DEF RequestsInv, KeysInv, OneRunPerKey, Verifying, At, requestVars
  <2>4. LockoutsInv'
    <3>1. \A a \in Accounts : Trying(a)' = Trying(a)
      BY <1>1 DEF Trying, requestVars
    <3> QED
      BY <1>1, <3>1 DEF RequestsInv, LockoutsInv, GuessesFit, requestVars
  <2> QED
    BY <2>2, <2>3, <2>4 DEF RequestsInv
<1>2. CASE RequestsNext /\ UNCHANGED minute
  <2>1. ASSUME NEW r \in Requests, NEW a \in Accounts,
               StartSignIn(r, a) \/ StartResend(r, a) \/ FindLink(r, a)
        PROVE  RequestsInv'
    BY <1>2, <2>1, StartSignInInv, StartResendInv, FindLinkInv
  <2>2. ASSUME NEW r \in Requests,
               FindUser(r) \/ WrongPassword(r) \/ RightPassword(r) \/ SaveTokens(r)
        PROVE  RequestsInv'
    BY <1>2, <2>2, FindUserInv, WrongPasswordInv, RightPasswordInv, SaveTokensInv
  <2>3. ASSUME NEW r \in Requests,
               \/ \E t \in clients.tokens : StartRefresh(r, t)
               \/ SaveSuccessor(r) \/ SaveAgain(r) \/ RevokeOld(r)
        PROVE  RequestsInv'
    BY <1>2, <2>3, StartRefreshInv, SaveSuccessorInv, SaveAgainInv, RevokeOldInv
  <2>4. ASSUME NEW r \in Requests,
               \/ \E l \in clients.links : StartVerify(r, l)
               \/ SaveLink(r) \/ MarkVerified(r) \/ Fails(r)
        PROVE  RequestsInv'
    BY <1>2, <2>4, StartVerifyInv, SaveLinkInv, MarkVerifiedInv, FailsInv
  <2>5. ASSUME NEW jtis, SignOut(jtis) PROVE RequestsInv'
    BY <1>2, <2>5, SignOutInv
  <2>6. ASSUME NEW l \in 1 .. MaxLinks, ForgetKey(l) PROVE RequestsInv'
    BY <1>2, <2>6, ForgetKeyInv DEF Link
  <2>7. CASE Restart
    BY <1>2, <2>7, RestartInv
  <2> QED
    BY <1>2, <2>1, <2>2, <2>3, <2>4, <2>5, <2>6, <2>7 DEF RequestsNext
<1> QED
  BY <1>1, <1>2 DEF RequestsStep

\* For every number of accounts and of requests that interleave at every await:
\* the passwords tried while an entry stands are bounded by the limit and the
\* requests, a verification runs once per key, and a row is revoked only when a
\* logout revoked its token or a successor was saved.
THEOREM RequestsStayHonest == RequestsSpec => []RequestsKeepPromises
<1>1. RequestsInv => RequestsKeepPromises
  <2> SUFFICES ASSUME RequestsInv PROVE RequestsKeepPromises
    OBVIOUS
  <2>1. RequestsTypeOK
    <3>1. \A i \in DOMAIN rows : rows[i].of \in Accounts
      <4>1. \A i \in DOMAIN rows : rows[i] \in Row
        BY DEF RequestsInv, RowsInv
      <4> QED
        BY <4>1 DEF Row
    <3> QED
      BY <3>1 DEF RequestsTypeOK, RequestsInv, AccountsTyped, FlightsTyped, RowsInv
  <2>2. GuessesAreBounded
    <3> SUFFICES ASSUME NEW a \in Accounts, lockouts[a] # Absent
                 PROVE  lockouts[a].attempts < LockAfter + Cardinality(Requests)
      BY DEF GuessesAreBounded
    <3>1. IsFiniteSet(Trying(a)) /\ IsFiniteSet(Requests)
      BY RequestsConstants, FS_Subset DEF Trying
    <3>2. Cardinality(Trying(a)) \in Nat /\ Cardinality(Requests) \in Nat
      BY <3>1, FS_CardinalityType
    <3>3. lockouts[a].attempts \in Nat /\ GuessesFit(a, lockouts[a], Cardinality(Trying(a)))
      BY DEF RequestsInv, LockoutsInv, Entry, GuessesFit
    <3> QED
      BY <3>2, <3>3, RequestsConstants DEF GuessesFit
  <2>3. OneRunPerKey
    BY DEF RequestsInv, KeysInv
  <2>4. RevokedIsSucceeded
    BY DEF RequestsInv, RowsInv, RevokedIsSucceeded, Succeeded
  <2> QED
    BY <2>1, <2>2, <2>3, <2>4 DEF RequestsKeepPromises
<1> QED
  BY <1>1, RequestsInitInv, RequestsStepInv, PTL DEF RequestsSpec

-----------------------------------------------------------------------------
(* Amounts.                                                                *)

(* Numbers read from the left: what TenTo and Value are recursive            *)
(* definitions of.                                                         *)
IsRead(r, start, d, n) ==
  r = [k \in 0 .. n |-> IF k = 0 THEN start ELSE 10 * r[k - 1] + d[k]]

\* The number that the digits d read as, from 0.
IsNumber(r, d, n) == IsRead(r, 0, d, n)

(* A reading exists, for any digits and any number of them. *)
LEMMA ReadExists ==
  ASSUME NEW start, NEW d, NEW n \in Nat
  PROVE  \E r : IsRead(r, start, d, n)
<1>1. PICK Bad : Bad = {k \in 0 .. n : ~ \E r : IsRead(r, start, d, k)}
  OBVIOUS
<1>2. SUFFICES ASSUME Bad # {} PROVE FALSE
  BY <1>1
<1>3. PICK k \in Bad : \A m \in 0 .. k - 1 : m \notin Bad
  BY <1>1, <1>2, LeastNatural
<1>4. k \in 0 .. n /\ ~ \E r : IsRead(r, start, d, k)
  BY <1>1
<1>5. k # 0
  <2>1. PICK r : r = [m \in 0 .. 0 |-> start]
    OBVIOUS
  <2>2. r = [m \in 0 .. 0 |-> IF m = 0 THEN start ELSE 10 * r[m - 1] + d[m]]
    BY ONLY <2>1
  <2> QED
    BY <1>4, <2>2 DEF IsRead
<1>6. PICK g : IsRead(g, start, d, k - 1)
  <2>1. k - 1 \in 0 .. k - 1 /\ k - 1 \in 0 .. n
    BY <1>4, <1>5
  <2> QED
    BY <1>1, <1>3, <2>1
<1>7. PICK r : r = [m \in 0 .. k |-> IF m = k THEN 10 * g[k - 1] + d[k] ELSE g[m]]
  OBVIOUS
<1>8. ASSUME NEW m \in 0 .. k
      PROVE  r[m] = IF m = 0 THEN start ELSE 10 * r[m - 1] + d[m]
  <2>1. CASE m = k
    <3>1. r[k] = 10 * g[k - 1] + d[k] /\ r[k - 1] = g[k - 1]
      BY ONLY <1>4, <1>5, <1>7
    <3> QED
      BY ONLY <1>5, <2>1, <3>1
  <2>2. CASE m # k
    <3>1. m \in 0 .. k - 1 /\ (m # 0 => m - 1 \in 0 .. k - 1)
      BY ONLY <1>4, <1>8, <2>2
    <3>2. g[m] = IF m = 0 THEN start ELSE 10 * g[m - 1] + d[m]
      BY ONLY <1>6, <3>1 DEF IsRead
    <3>3. r[m] = g[m] /\ (m # 0 => r[m - 1] = g[m - 1])
      BY ONLY <1>4, <1>7, <1>8, <2>2, <3>1
    <3> QED
      BY ONLY <3>2, <3>3
  <2> QED
    BY <2>1, <2>2
<1>9. IsRead(r, start, d, k)
  <2>1. r = [m \in 0 .. k |-> r[m]]
    BY ONLY <1>7
  <2> QED
    BY ONLY <1>8, <2>1 DEF IsRead
<1> QED
  BY <1>4, <1>9

(* What is read from natural digits is natural. *)
LEMMA ReadType ==
  ASSUME NEW start \in Nat, NEW d, NEW n \in Nat, NEW r, IsRead(r, start, d, n),
         \A k \in 1 .. n : d[k] \in Nat
  PROVE  \A k \in 0 .. n : r[k] \in Nat
<1>1. PICK Bad : Bad = {k \in 0 .. n : r[k] \notin Nat}
  OBVIOUS
<1>2. SUFFICES ASSUME Bad # {} PROVE FALSE
  BY <1>1
<1>3. PICK k \in Bad : \A m \in 0 .. k - 1 : m \notin Bad
  BY <1>1, <1>2, LeastNatural
<1>4. k \in 0 .. n /\ r[k] \notin Nat
  BY <1>1
<1>5. r[k] = IF k = 0 THEN start ELSE 10 * r[k - 1] + d[k]
  BY <1>4 DEF IsRead
<1>6. k # 0
  BY <1>4, <1>5
<1>7. r[k - 1] \in Nat
  <2>1. k - 1 \in 0 .. k - 1 /\ k - 1 \in 0 .. n
    BY <1>4, <1>6
  <2> QED
    BY <1>1, <1>3, <2>1
<1>8. d[k] \in Nat
  BY <1>4, <1>6
<1> QED
  BY <1>4, <1>5, <1>6, <1>7, <1>8

(* Two readings of the same digits agree. *)
LEMMA ReadsAgree ==
  ASSUME NEW start, NEW c, NEW d, NEW n \in Nat, NEW m \in Nat, NEW r, NEW s,
         IsRead(r, start, c, n), IsRead(s, start, d, m), NEW l \in Nat, l <= n, l <= m,
         \A k \in 1 .. l : c[k] = d[k]
  PROVE  r[l] = s[l]
<1>1. PICK Bad : Bad = {k \in 0 .. l : r[k] # s[k]}
  OBVIOUS
<1>2. SUFFICES ASSUME Bad # {} PROVE FALSE
  BY <1>1
<1>3. PICK k \in Bad : \A j \in 0 .. k - 1 : j \notin Bad
  BY <1>1, <1>2, LeastNatural
<1>4. k \in 0 .. n /\ k \in 0 .. m /\ k \in 0 .. l /\ r[k] # s[k]
  BY <1>1
<1>5. /\ r[k] = IF k = 0 THEN start ELSE 10 * r[k - 1] + c[k]
      /\ s[k] = IF k = 0 THEN start ELSE 10 * s[k - 1] + d[k]
  BY <1>4 DEF IsRead
<1>6. k # 0
  BY <1>4, <1>5
<1>7. r[k - 1] = s[k - 1] /\ c[k] = d[k]
  <2>1. k - 1 \in 0 .. k - 1 /\ k - 1 \in 0 .. l /\ k \in 1 .. l
    BY <1>4, <1>6
  <2> QED
    BY <1>1, <1>3, <2>1
<1> QED
  BY <1>4, <1>5, <1>6, <1>7

(* The powers of ten. *)
LEMMA PowersOfTen ==
  ASSUME NEW n \in Nat
  PROVE  \E p : /\ IsRead(p, 1, [k \in 1 .. n |-> 0], n)
                /\ \A k \in 0 .. n : p[k] \in Nat
                /\ p[n] = TenTo(n)
<1>1. PICK d : d = [k \in 1 .. n |-> 0]
  OBVIOUS
<1> DEFINE IsPower(p) == p = [k \in 0 .. n |-> IF k = 0 THEN 1 ELSE 10 * p[k - 1]]
<1>2. PICK r : IsRead(r, 1, d, n)
  BY ReadExists
<1>3. \A k \in 0 .. n : r[k] \in Nat
  BY <1>1, <1>2, ReadType
<1>4. IsPower(r)
  <2>1. ASSUME NEW k \in 0 .. n PROVE r[k] = IF k = 0 THEN 1 ELSE 10 * r[k - 1]
    <3>1. r[k] = IF k = 0 THEN 1 ELSE 10 * r[k - 1] + d[k]
      BY <1>2 DEF IsRead
    <3>2. k # 0 => d[k] = 0 /\ r[k - 1] \in Nat
      BY <1>1, <1>3
    <3> QED
      BY <3>1, <3>2
  <2>2. r = [k \in 0 .. n |-> r[k]]
    BY <1>2 DEF IsRead
  <2> QED
    BY ONLY <2>1, <2>2
<1> DEFINE p == CHOOSE p : IsPower(p)
<1>5. IsPower(p)
  BY <1>4
<1>6. p[n] = TenTo(n)
  BY DEF TenTo
<1>7. IsRead(p, 1, d, n) /\ \A k \in 0 .. n : p[k] \in Nat
  <2> HIDE DEF p
  <2>0. PICK q : q = p
    OBVIOUS
  <2>1. PICK Bad : Bad = {k \in 0 .. n : q[k] # r[k]}
    OBVIOUS
  <2>2. ASSUME Bad # {} PROVE FALSE
    <3>1. PICK k \in Bad : \A j \in 0 .. k - 1 : j \notin Bad
      BY <2>1, <2>2, LeastNatural
    <3>2. k \in 0 .. n /\ q[k] # r[k]
      BY <2>1
    <3>3. q[k] = (IF k = 0 THEN 1 ELSE 10 * q[k - 1]) /\ r[k] = (IF k = 0 THEN 1 ELSE 10 * r[k - 1])
      BY <1>4, <1>5, <2>0, <3>2
    <3>4. k # 0
      BY <3>2, <3>3
    <3>5. q[k - 1] = r[k - 1]
      <4>1. k - 1 \in 0 .. k - 1 /\ k - 1 \in 0 .. n
        BY <3>2, <3>4
      <4> QED
        BY <2>1, <3>1, <4>1
    <3> QED
      BY <3>2, <3>3, <3>4, <3>5
  <2>3. \A k \in 0 .. n : q[k] = r[k]
    BY <2>1, <2>2
  <2>4. r = [k \in 0 .. n |-> r[k]]
    BY <1>2 DEF IsRead
  <2>5. q = [k \in 0 .. n |-> q[k]]
    BY <1>5, <2>0
  <2>6. q = r
    BY ONLY <2>3, <2>4, <2>5
  <2> QED
    BY <1>2, <1>3, <2>0, <2>6
<1> QED
  BY <1>1, <1>6, <1>7

(* TenTo is the power of ten. *)
LEMMA TenToIs ==
  /\ TenTo(0) = 1
  /\ \A n \in Nat : TenTo(n) \in Nat /\ TenTo(n) >= 1 /\ TenTo(n + 1) = 10 * TenTo(n)
<1>1. ASSUME NEW n \in Nat PROVE TenTo(n) \in Nat /\ TenTo(n + 1) = 10 * TenTo(n)
  <2>1. PICK p : /\ IsRead(p, 1, [k \in 1 .. n |-> 0], n)
                 /\ \A k \in 0 .. n : p[k] \in Nat
                 /\ p[n] = TenTo(n)
    BY PowersOfTen
  <2>2. PICK q : /\ IsRead(q, 1, [k \in 1 .. n + 1 |-> 0], n + 1)
                 /\ \A k \in 0 .. n + 1 : q[k] \in Nat
                 /\ q[n + 1] = TenTo(n + 1)
    BY PowersOfTen
  <2>3. PICK c : c = [k \in 1 .. n |-> 0]
    OBVIOUS
  <2>4. PICK d : d = [k \in 1 .. n + 1 |-> 0]
    OBVIOUS
  <2>5. p[n] = q[n]
    <3>1. IsRead(p, 1, c, n) /\ IsRead(q, 1, d, n + 1) /\ \A k \in 1 .. n : c[k] = d[k]
      BY <2>1, <2>2, <2>3, <2>4
    <3>2. n <= n /\ n <= n + 1 /\ n + 1 \in Nat
      OBVIOUS
    <3> QED
      BY ONLY <3>1, <3>2, ReadsAgree, n \in Nat
  <2>6. q[n + 1] = 10 * q[n] + d[n + 1] /\ d[n + 1] = 0 /\ q[n] \in Nat
    BY <2>2, <2>4 DEF IsRead
  <2> QED
    BY <2>1, <2>2, <2>5, <2>6
<1>2. TenTo(0) = 1
  <2>1. PICK p : /\ IsRead(p, 1, [k \in 1 .. 0 |-> 0], 0)
                 /\ p[0] = TenTo(0)
    BY PowersOfTen
  <2> QED
    BY <2>1 DEF IsRead
<1>3. ASSUME NEW n \in Nat PROVE TenTo(n) >= 1
  <2>1. PICK Bad : Bad = {k \in 0 .. n : ~(TenTo(k) >= 1)}
    OBVIOUS
  <2>2. ASSUME Bad # {} PROVE FALSE
    <3>1. PICK k \in Bad : \A j \in 0 .. k - 1 : j \notin Bad
      BY <2>1, <2>2, LeastNatural
    <3>2. k \in 0 .. n /\ ~(TenTo(k) >= 1) /\ k # 0
      BY <1>2, <2>1
    <3>3. k - 1 \in 0 .. k - 1 /\ k - 1 \in 0 .. n /\ k - 1 \in Nat /\ (k - 1) + 1 = k
      BY <3>2
    <3>4. TenTo(k - 1) >= 1
      BY <2>1, <3>1, <3>3
    <3>5. TenTo(k) = 10 * TenTo(k - 1) /\ TenTo(k - 1) \in Nat
      BY <1>1, <3>3
    <3> QED
      BY <3>2, <3>4, <3>5
  <2> QED
    BY <2>1, <2>2
<1> QED
  BY <1>1, <1>2, <1>3

(* What a place adds.                                                        *)
LEMMA PlaceAdds ==
  ASSUME NEW a \in Int, NEW b \in Int, NEW t \in Int, NEW s \in Int
  PROVE  (s + a * (10 * t)) + b * t = s + (10 * a + b) * t /\ (10 * a + b) * t \in Int /\ b * t \in Int
  OBVIOUS

\* Behind S come the n digits d, weighed by f, the last by the m-th power of ten.
AddsPlaces(S, f, o, n, m, d) ==
  /\ o \in Nat /\ n \in Nat /\ m \in Nat
  /\ IsFiniteSet(S) /\ \A x \in S : f[x] \in Int
  /\ \A k \in 1 .. n : o + k \notin S
  /\ \A k \in 1 .. n : d[k] \in Nat /\ f[o + k] = d[k] * TenTo(m + n - k)

\* They add the number r reads them as.
PlacesAdded(S, f, o, n, m, r) ==
  SumFunctionOnSet(f, S \cup ((o + 1) .. (o + n))) = SumFunctionOnSet(f, S) + r[n] * TenTo(m)

(* Digits weighed by their places add up to the number they read as.         *)
LEMMA PlaceValue ==
  ASSUME NEW S, NEW f, NEW o, NEW n, NEW m, NEW d, NEW r,
         IsNumber(r, d, n), AddsPlaces(S, f, o, n, m, d)
  PROVE  PlacesAdded(S, f, o, n, m, r)
<1> SUFFICES ASSUME o \in Nat, n \in Nat, m \in Nat
             PROVE  SumFunctionOnSet(f, S \cup ((o + 1) .. (o + n))) = SumFunctionOnSet(f, S) + r[n] * TenTo(m)
  BY DEF AddsPlaces, PlacesAdded
<1>0. /\ IsFiniteSet(S) /\ \A x \in S : f[x] \in Int
      /\ \A k \in 1 .. n : o + k \notin S
      /\ \A k \in 1 .. n : d[k] \in Nat /\ f[o + k] = d[k] * TenTo(m + n - k)
  BY DEF AddsPlaces
<1>1. PICK Bad : Bad = {j \in 0 .. n : SumFunctionOnSet(f, S \cup ((o + 1) .. (o + j)))
                                     # SumFunctionOnSet(f, S) + r[j] * TenTo(m + n - j)}
  OBVIOUS
<1>2. ASSUME Bad # {} PROVE FALSE
  <2>1. PICK j \in Bad : \A i \in 0 .. j - 1 : i \notin Bad
    BY <1>1, <1>2, LeastNatural
  <2>2. j \in 0 .. n /\ SumFunctionOnSet(f, S \cup ((o + 1) .. (o + j)))
                          # SumFunctionOnSet(f, S) + r[j] * TenTo(m + n - j)
    BY <1>1
  <2>3. SumFunctionOnSet(f, S) \in Int
    BY <1>0, SumType
  <2>4. \A k \in 0 .. n : r[k] \in Nat
    BY <1>0, ReadType DEF IsNumber
  <2>5. j # 0
    <3>1. ASSUME j = 0 PROVE FALSE
      <4>1. S \cup ((o + 1) .. (o + j)) = S
        BY <3>1
      <4>2. r[j] = 0
        BY <3>1 DEF IsRead, IsNumber
      <4>3. m + n - j \in Nat
        BY <3>1
      <4>4. TenTo(m + n - j) \in Nat
        BY <4>3, TenToIs
      <4>5. r[j] * TenTo(m + n - j) = 0
        BY ONLY <4>2, <4>4
      <4>6. SumFunctionOnSet(f, S \cup ((o + 1) .. (o + j))) = SumFunctionOnSet(f, S)
        BY ONLY <4>1
      <4> QED
        BY ONLY <2>2, <2>3, <4>5, <4>6
    <3> QED
      BY <3>1
  <2>6. PICK i \in Nat : i = j - 1 /\ i + 1 = j /\ i \in 0 .. n /\ i \in 0 .. j - 1
    BY <2>2, <2>5
  <2>7. PICK t \in Nat : t = TenTo(m + n - j) /\ TenTo(m + n - i) = 10 * t
    <3>1. m + n - j \in Nat /\ (m + n - j) + 1 = m + n - i
      BY <2>2, <2>6
    <3>2. TenTo(m + n - j) \in Nat /\ TenTo((m + n - j) + 1) = 10 * TenTo(m + n - j)
      BY <3>1, TenToIs
    <3> QED
      BY <3>1, <3>2
  <2>8. SumFunctionOnSet(f, S \cup ((o + 1) .. (o + i))) = SumFunctionOnSet(f, S) + r[i] * (10 * t)
    BY <1>1, <2>1, <2>6, <2>7
  <2>9. PICK T : T = S \cup ((o + 1) .. (o + i))
    OBVIOUS
  <2>10. S \cup ((o + 1) .. (o + j)) = T \cup {o + j} /\ o + j \notin T
    <3>1. o + j \notin S
      BY <1>0, <2>2, <2>5
    <3>2. (o + 1) .. (o + j) = ((o + 1) .. (o + i)) \cup {o + j}
      BY <2>6
    <3>3. o + j \notin (o + 1) .. (o + i)
      BY <2>6
    <3> QED
      BY ONLY <2>9, <3>1, <3>2, <3>3
  <2>11. d[j] \in Nat /\ f[o + j] = d[j] * t
    BY <1>0, <2>2, <2>5, <2>7
  <2>12. f[o + j] \in Int
    BY <2>11
  <2>13. IsFiniteSet(T) /\ \A x \in T : f[x] \in Int
    <3>1. IsFiniteSet(T)
      <4>1. IsFiniteSet((o + 1) .. (o + i))
        BY FS_Interval
      <4> QED
        BY <1>0, <2>9, <4>1, FS_Union
    <3>2. ASSUME NEW x \in (o + 1) .. (o + i) PROVE f[x] \in Int
      <4>1. PICK k : k = x - o /\ x = o + k /\ k \in 1 .. n
        BY <2>6
      <4>2. d[k] \in Nat /\ f[x] = d[k] * TenTo(m + n - k) /\ m + n - k \in Nat
        BY <1>0, <4>1
      <4>3. TenTo(m + n - k) \in Nat
        BY <4>2, TenToIs
      <4> QED
        BY <4>2, <4>3
    <3> QED
      BY <1>0, <2>9, <3>1, <3>2
  <2>14. SumFunctionOnSet(f, T \cup {o + j}) = f[o + j] + SumFunctionOnSet(f, T)
    BY ONLY <2>10, <2>12, <2>13, SumAdd
  <2>15. r[j] = 10 * r[i] + d[j] /\ r[i] \in Nat
    BY <2>2, <2>4, <2>5, <2>6 DEF IsRead, IsNumber
  <2>16. /\ (SumFunctionOnSet(f, S) + r[i] * (10 * t)) + d[j] * t = SumFunctionOnSet(f, S) + (10 * r[i] + d[j]) * t
         /\ d[j] * t \in Int /\ (10 * r[i] + d[j]) * t \in Int
    <3>1. r[i] \in Int /\ d[j] \in Int /\ t \in Int
      BY <2>7, <2>11, <2>15
    <3> QED
      BY ONLY <2>3, <3>1, PlaceAdds
  <2>17. r[i] * (10 * t) \in Int
    BY ONLY <2>7, <2>15
  <2>18. SumFunctionOnSet(f, S \cup ((o + 1) .. (o + j))) = d[j] * t + (SumFunctionOnSet(f, S) + r[i] * (10 * t))
    BY ONLY <2>8, <2>9, <2>10, <2>11, <2>14
  <2>19. SumFunctionOnSet(f, S \cup ((o + 1) .. (o + j))) = SumFunctionOnSet(f, S) + r[j] * t
    BY ONLY <2>3, <2>15, <2>16, <2>17, <2>18
  <2> QED
    BY ONLY <2>2, <2>7, <2>19
<1>3. n \in 0 .. n /\ m + n - n = m
  OBVIOUS
<1> QED
  BY <1>1, <1>2, <1>3

\* The digits e are the n digits d and z zeros.
PadsDigits(d, e, n, z) ==
  /\ \A k \in 1 .. n : d[k] \in Nat /\ e[k] = d[k]
  /\ \A k \in 1 .. z : e[n + k] = 0

(* Zeros behind a number multiply it by ten each.                            *)
LEMMA ReadPadded ==
  ASSUME NEW n \in Nat, NEW z \in Nat, NEW d, NEW e, NEW r, NEW s,
         IsNumber(r, d, n), IsNumber(s, e, n + z), PadsDigits(d, e, n, z)
  PROVE  s[n + z] = r[n] * TenTo(z)
<1>0. /\ \A k \in 1 .. n : d[k] \in Nat /\ e[k] = d[k]
      /\ \A k \in 1 .. z : e[n + k] = 0
  BY DEF PadsDigits
<1>1. PICK Bad : Bad = {j \in 0 .. z : s[n + j] # r[n] * TenTo(j)}
  OBVIOUS
<1>2. r[n] \in Nat
  BY <1>0, ReadType DEF IsNumber
<1>3. ASSUME Bad # {} PROVE FALSE
  <2>1. PICK j \in Bad : \A i \in 0 .. j - 1 : i \notin Bad
    BY <1>1, <1>3, LeastNatural
  <2>2. j \in 0 .. z /\ s[n + j] # r[n] * TenTo(j)
    BY <1>1
  <2>3. j # 0
    <3>1. s[n] = r[n]
      <4>0. PICK zero : zero = 0
        OBVIOUS
      <4>1. PICK m \in Nat : m = n + z /\ n <= m /\ n <= n
        OBVIOUS
      <4>2. IsRead(r, zero, d, n) /\ IsRead(s, zero, e, m) /\ \A k \in 1 .. n : d[k] = e[k]
        BY <1>0, <4>0, <4>1 DEF IsNumber
      <4>3. r[n] = s[n]
        BY ONLY n \in Nat, <4>1, <4>2, ReadsAgree
      <4> QED
        BY <4>3
    <3> QED
      BY <1>2, <2>2, <3>1, TenToIs
  <2>4. PICK i \in Nat : i = j - 1 /\ i + 1 = j /\ i \in 0 .. z /\ i \in 0 .. j - 1
    BY <2>2, <2>3
  <2>5. s[n + i] = r[n] * TenTo(i)
    BY <1>1, <2>1, <2>4
  <2>6. s[n + j] = 10 * s[n + i] + e[n + j]
    <3>1. n + j \in 0 .. n + z /\ n + j # 0 /\ (n + j) - 1 = n + i
      BY <2>2, <2>4
    <3>2. s[n + j] = 10 * s[(n + j) - 1] + e[n + j]
      BY <3>1 DEF IsRead, IsNumber
    <3> QED
      BY ONLY <3>1, <3>2
  <2>7. e[n + j] = 0
    BY <1>0, <2>2, <2>3
  <2>8. TenTo(j) = 10 * TenTo(i) /\ TenTo(i) \in Nat
    BY <2>4, TenToIs
  <2>9. r[n] * (10 * TenTo(i)) = 10 * (r[n] * TenTo(i))
    BY ONLY <1>2, <2>8
  <2>10. r[n] * TenTo(i) \in Nat
    BY ONLY <1>2, <2>8
  <2> QED
    BY ONLY <2>2, <2>5, <2>6, <2>7, <2>8, <2>9, <2>10
<1>4. z \in 0 .. z
  OBVIOUS
<1> QED
  BY <1>1, <1>3, <1>4

(* The digits and no other character. *)
LEMMA DigitIs ==
  /\ \A c \in DOMAIN Digit : Digit[c] \in 0 .. 9
  /\ "0" \in DOMAIN Digit /\ Digit["0"] = 0
  /\ "." \notin DOMAIN Digit /\ "+" \notin DOMAIN Digit
<1>1. DOMAIN Digits = 1 .. 10
  BY DEF Digits
<1>2. DOMAIN Digit = ToSet(Digits)
  BY DEF Digit
<1>3. ASSUME NEW c \in DOMAIN Digit PROVE Digit[c] \in 0 .. 9 /\ Digits[Digit[c] + 1] = c
  <2>1. PICK i \in 1 .. 10 : Digits[i] = c
    BY <1>1, <1>2 DEF ToSet
  <2>2. i - 1 \in 0 .. 9 /\ (i - 1) + 1 = i
    OBVIOUS
  <2>3. Digit[c] = CHOOSE n \in 0 .. 9 : Digits[n + 1] = c
    BY <1>2 DEF Digit
  <2> QED
    BY <2>1, <2>2, <2>3
<1>4. "0" \in DOMAIN Digit
  <2>1. Digits[1] = "0"
    BY DEF Digits
  <2> QED
    BY <1>1, <1>2, <2>1 DEF ToSet
<1>5. ASSUME NEW i \in 1 .. 10 PROVE Digits[i] # "." /\ Digits[i] # "+" /\ (i # 1 => Digits[i] # "0")
  BY DEF Digits
<1>6. Digit["0"] = 0
  BY <1>3, <1>4, <1>5
<1>7. "." \notin DOMAIN Digit /\ "+" \notin DOMAIN Digit
  BY <1>1, <1>2, <1>5 DEF ToSet
<1> QED
  BY <1>3, <1>4, <1>6, <1>7

\* (The provers do not know of a literal that it is a string.)
Chars == STRING \cup {"0"}

(* Value reads its digits. *)
LEMMA ValueIs ==
  ASSUME NEW digits \in Seq(Chars)
  PROVE  \E d, r : /\ d = [k \in 1 .. Len(digits) |-> Digit[digits[k]]]
                   /\ IsNumber(r, d, Len(digits)) /\ r[Len(digits)] = Value(digits)
                   /\ AllDigits(digits) => \A k \in 1 .. Len(digits) : d[k] \in Nat
<1>1. PICK n \in Nat : n = Len(digits)
  OBVIOUS
<1>2. PICK d : d = [k \in 1 .. n |-> Digit[digits[k]]]
  OBVIOUS
<1> DEFINE Reads(r) == r = [k \in 0 .. n |-> IF k = 0 THEN 0 ELSE 10 * r[k - 1] + Digit[digits[k]]]
<1>3. ASSUME NEW r PROVE Reads(r) <=> IsNumber(r, d, n)
  <2>1. \A k \in 0 .. n : (IF k = 0 THEN 0 ELSE 10 * r[k - 1] + Digit[digits[k]])
                        = (IF k = 0 THEN 0 ELSE 10 * r[k - 1] + d[k])
    BY <1>2
  <2> QED
    BY <2>1 DEF IsRead, IsNumber
<1>4. \E r : Reads(r)
  <2>1. PICK r : IsNumber(r, d, n)
    BY ReadExists DEF IsNumber
  <2> QED
    BY <1>3, <2>1 DEF IsNumber
<1> DEFINE read == CHOOSE r : Reads(r)
<1>5. Reads(read)
  BY <1>4
<1>6. read[n] = Value(digits)
  BY <1>1 DEF Value
<1>7. IsNumber(read, d, n)
  <2> HIDE DEF read, Reads
  <2> QED
    BY <1>3, <1>5
<1>8. AllDigits(digits) => \A k \in 1 .. n : d[k] \in Nat
  BY <1>1, <1>2, DigitIs DEF AllDigits
<1> QED
  <2> HIDE DEF read
  <2> QED
    BY <1>1, <1>2, <1>6, <1>7, <1>8

(* Digits read as a natural number. *)
LEMMA ValueNatural ==
  ASSUME NEW text \in Seq(Chars), AllDigits(text) PROVE Value(text) \in Nat
<1>1. PICK n \in Nat : n = Len(text)
  OBVIOUS
<1>2. PICK zero \in Nat : zero = 0
  OBVIOUS
<1>3. PICK d, r : /\ IsNumber(r, d, n) /\ r[n] = Value(text)
                  /\ \A k \in 1 .. n : d[k] \in Nat
  BY <1>1, ValueIs
<1>4. IsRead(r, zero, d, n) /\ \A k \in 1 .. n : d[k] \in Nat
  BY <1>2, <1>3 DEF IsNumber
<1>5. \A k \in 0 .. n : r[k] \in Nat
  BY ONLY n \in Nat, zero \in Nat, <1>4, ReadType
<1> QED
  BY <1>3, <1>5

\* No text has a plus sign: u64::from_str takes one, behind the point too.
NoSigns == \A t \in Texts : \A i \in DOMAIN t : t[i] # "+"

(* What is parsed of a text without a sign. *)
LEMMA ParsedIs ==
  ASSUME NEW text \in Seq(Chars), \A i \in DOMAIN text : text[i] # "+"
  PROVE  /\ Parsed(text) = IF text = <<>> \/ ~AllDigits(text) \/ Value(text) \notin U64
                           THEN Err("NotRepresentable") ELSE Ok(Value(text))
         /\ AllDigits(text) => Value(text) \in Nat
         /\ text = <<>> => Value(text) = 0
<1>1. Unsigned(text) = text
  <2>1. text # <<>> => 1 \in DOMAIN text
    OBVIOUS
  <2> QED
    BY <2>1 DEF Unsigned
<1>2. PICK d, r : IsNumber(r, d, Len(text)) /\ r[Len(text)] = Value(text)
  BY ValueIs
<1>3. AllDigits(text) => Value(text) \in Nat
  BY ValueNatural
<1>4. text = <<>> => Value(text) = 0
  BY <1>2 DEF IsRead, IsNumber
<1> QED
  BY <1>1, <1>3, <1>4 DEF Parsed

\* The fraction as FractionOf pads it.
Padded(digits, z) == digits \o [i \in 1 .. z |-> "0"]

(* Padding keeps the digits and multiplies what they say. *)
LEMMA PaddedIs ==
  ASSUME NEW digits \in Seq(Chars), NEW z \in Nat, NEW padded, padded = Padded(digits, z)
  PROVE  /\ padded \in Seq(Chars) /\ Len(padded) = Len(digits) + z
         /\ AllDigits(padded) <=> AllDigits(digits)
         /\ AllDigits(digits) => Value(padded) = Value(digits) * TenTo(z)
         /\ \A i \in DOMAIN padded : padded[i] # "+" \/ \E j \in DOMAIN digits : digits[j] = "+"
<1>1. PICK n \in Nat : n = Len(digits) /\ DOMAIN digits = 1 .. n
  OBVIOUS
<1>2. PICK zeros : zeros = [i \in 1 .. z |-> "0"]
  OBVIOUS
<1>3. zeros \in Seq(Chars) /\ Len(zeros) = z
  <2>1. "0" \in Chars
    BY DEF Chars
  <2>2. zeros \in [1 .. z -> Chars]
    BY ONLY <1>2, <2>1
  <2> QED
    BY <2>2
<1>4. padded \in Seq(Chars) /\ Len(padded) = n + z
  BY <1>1, <1>2, <1>3 DEF Padded
<1>5. /\ \A i \in 1 .. n : padded[i] = digits[i]
      /\ \A i \in 1 .. z : padded[n + i] = "0"
  <2>1. \A i \in 1 .. n + z : padded[i] = IF i <= n THEN digits[i] ELSE zeros[i - n]
    BY <1>1, <1>2, <1>3 DEF Padded
  <2>2. ASSUME NEW i \in 1 .. z PROVE padded[n + i] = "0"
    <3>1. n + i \in 1 .. n + z /\ ~(n + i <= n) /\ (n + i) - n = i
      OBVIOUS
    <3>2. padded[n + i] = zeros[i]
      BY <2>1, <3>1
    <3> QED
      BY <1>2, <3>2
  <2> QED
    <3>1. ASSUME NEW i \in 1 .. n PROVE padded[i] = digits[i]
      <4>1. i \in 1 .. n + z /\ i <= n
        OBVIOUS
      <4> QED
        BY <2>1, <4>1
    <3> QED
      BY <2>2, <3>1
<1>6. DOMAIN padded = 1 .. n + z
  BY <1>4
<1>7. ASSUME NEW i \in DOMAIN padded PROVE i \in 1 .. n \/ padded[i] = "0"
  <2>1. CASE ~(i \in 1 .. n)
    <3>1. i \in 1 .. n + z
      BY <1>6
    <3>2. i - n \in 1 .. z /\ n + (i - n) = i
      BY ONLY n \in Nat, z \in Nat, <2>1, <3>1
    <3> QED
      BY <1>5, <3>2
  <2> QED
    BY <2>1
<1>8. AllDigits(padded) <=> AllDigits(digits)
  <2>1. ASSUME AllDigits(digits) PROVE AllDigits(padded)
    BY <1>1, <1>5, <1>7, <2>1, DigitIs DEF AllDigits
  <2>2. ASSUME AllDigits(padded) PROVE AllDigits(digits)
    <3>1. 1 .. n \subseteq DOMAIN padded
      BY <1>6
    <3> QED
      BY <1>1, <1>5, <2>2, <3>1 DEF AllDigits
  <2> QED
    BY <2>1, <2>2
<1>9. ASSUME AllDigits(digits) PROVE Value(padded) = Value(digits) * TenTo(z)
  <2>1. PICK d, r : /\ d = [k \in 1 .. n |-> Digit[digits[k]]]
                    /\ IsNumber(r, d, n) /\ r[n] = Value(digits)
                    /\ \A k \in 1 .. n : d[k] \in Nat
    BY <1>1, <1>9, ValueIs
  <2>2. PICK e, s : /\ e = [k \in 1 .. n + z |-> Digit[padded[k]]]
                    /\ IsNumber(s, e, n + z) /\ s[n + z] = Value(padded)
    BY <1>4, ValueIs
  <2>3. \A k \in 1 .. n : d[k] \in Nat /\ e[k] = d[k]
    <3>1. ASSUME NEW k \in 1 .. n PROVE e[k] = d[k]
      <4>1. k \in 1 .. n + z
        OBVIOUS
      <4> QED
        BY <1>5, <2>1, <2>2, <4>1
    <3> QED
      BY <2>1, <3>1
  <2>4. \A k \in 1 .. z : e[n + k] = 0
    <3>1. ASSUME NEW k \in 1 .. z PROVE e[n + k] = 0
      <4>1. n + k \in 1 .. n + z
        BY ONLY n \in Nat, z \in Nat, <3>1
      <4>2. padded[n + k] = "0"
        BY <1>5
      <4> QED
        BY <2>2, <4>1, <4>2, DigitIs
    <3> QED
      BY <3>1
  <2>5. s[n + z] = r[n] * TenTo(z)
    <3>1. PadsDigits(d, e, n, z)
      BY ONLY <2>3, <2>4 DEF PadsDigits
    <3> QED
      BY ONLY n \in Nat, z \in Nat, <2>1, <2>2, <3>1, ReadPadded
  <2> QED
    BY <2>1, <2>2, <2>5
<1>10. ASSUME NEW i \in DOMAIN padded PROVE padded[i] # "+" \/ \E j \in DOMAIN digits : digits[j] = "+"
  BY <1>1, <1>5, <1>7
<1> QED
  BY <1>1, <1>4, <1>8, <1>9, <1>10

(* What a text with digits and at most a point means is what its parts read. *)
LEMMA MeaningIs ==
  ASSUME NEW text \in Seq(Chars), NEW P \in 1 .. Len(text) + 1, P = Point(text),
         \A i \in DOMAIN text : i # P => text[i] \in DOMAIN Digit,
         NEW before, before = SubSeq(text, 1, P - 1),
         NEW digits, digits = SubSeq(text, P + 1, Len(text)),
         NEW z \in Nat, P <= Len(text) => z = Decimals - Len(digits)
  PROVE  /\ Meaning(text) = Value(before) * Xlm
                            + (IF P <= Len(text) THEN Value(digits) * TenTo(z) ELSE 0)
         /\ AllDigits(before) /\ AllDigits(digits)
<1>1. PICK N \in Nat : N = Len(text) /\ DOMAIN text = 1 .. N
  OBVIOUS
<1>0. P \in 1 .. N + 1 /\ P \in Nat
  BY <1>1
<1>2. PICK p \in Nat : p = P - 1 /\ P = p + 1 /\ p <= N
  BY <1>0
<1>3. /\ before \in Seq(Chars) /\ Len(before) = p
      /\ \A k \in 1 .. p : before[k] = text[k]
  BY <1>1, <1>2
<1>4. /\ digits \in Seq(Chars)
      /\ P <= N => Len(digits) = N - P
      /\ \A k \in 1 .. Len(digits) : digits[k] = text[P + k] /\ P + k \in 1 .. N /\ P <= N
  <2>1. digits \in Seq(Chars) /\ Len(digits) = IF P + 1 <= N THEN N - P ELSE 0
    BY <1>0, <1>1
  <2>2. ASSUME NEW k \in 1 .. Len(digits) PROVE digits[k] = text[P + k] /\ P + k \in 1 .. N /\ P <= N
    <3>1. P + 1 <= N /\ k \in 1 .. N - P
      BY <1>0, <2>1
    <3>2. digits[k] = text[(P + 1) + k - 1] /\ (P + 1) + k - 1 = P + k
      BY <1>0, <1>1, <3>1
    <3> QED
      BY ONLY <1>0, N \in Nat, <3>1, <3>2
  <2>3. P <= N => Len(digits) = N - P
    BY <1>0, <2>1
  <2> QED
    BY <2>1, <2>2, <2>3
<1>5. AllDigits(before) /\ AllDigits(digits)
  <2>1. ASSUME NEW k \in DOMAIN before PROVE before[k] \in DOMAIN Digit
    <3>1. k \in 1 .. p
      BY <1>3
    <3>2. k \in 1 .. N /\ k # P
      BY ONLY p \in Nat, N \in Nat, <1>2, <3>1
    <3> QED
      BY <1>1, <1>3, <3>1, <3>2
  <2>2. ASSUME NEW k \in DOMAIN digits PROVE digits[k] \in DOMAIN Digit
    <3>1. k \in 1 .. Len(digits)
      BY <1>4
    <3>2. digits[k] = text[P + k] /\ P + k \in DOMAIN text
      BY <1>1, <1>4, <3>1
    <3>3. P + k # P
      BY <1>0, <1>4, <3>1
    <3> QED
      BY <3>2, <3>3
  <2> QED
    BY <2>1, <2>2 DEF AllDigits
<1>6. PICK f : f = [i \in DOMAIN text |-> IF i = Point(text) THEN 0 ELSE Digit[text[i]] * Weight(text, i)]
  OBVIOUS
<1>7. Meaning(text) = SumFunctionOnSet(f, 1 .. N)
  BY <1>1, <1>6 DEF Meaning
<1>8. Decimals \in Nat
  BY AmountAssumption
<1>14. ASSUME NEW i \in 1 .. N
       PROVE  f[i] = IF i = P THEN 0
                     ELSE Digit[text[i]] * (IF i < P THEN TenTo(Decimals + P - 1 - i)
                                            ELSE TenTo(Decimals + P - i))
  BY <1>1, <1>6 DEF Weight
<1>15. ASSUME NEW i \in 1 .. N, i # P PROVE Digit[text[i]] \in Nat
  <2>1. text[i] \in DOMAIN Digit
    BY <1>1, <1>15
  <2>2. Digit[text[i]] \in 0 .. 9
    BY <2>1, DigitIs
  <2> QED
    BY ONLY <2>2
<1>16. ASSUME NEW i \in 1 .. N, i <= P PROVE f[i] \in Int
  <2>1. CASE i = P
    BY <1>14, <2>1
  <2>2. CASE i # P
    <3>1. i < P /\ Decimals + P - 1 - i \in Nat
      BY ONLY <1>0, <1>8, <1>16, <2>2
    <3>2. TenTo(Decimals + P - 1 - i) \in Nat
      BY <3>1, TenToIs
    <3>3. f[i] = Digit[text[i]] * TenTo(Decimals + P - 1 - i)
      BY <1>14, <2>2, <3>1
    <3> QED
      BY <1>15, <2>2, <3>2, <3>3
  <2> QED
    BY <2>1, <2>2
<1>9. PICK d, r : /\ IsNumber(r, d, p) /\ r[p] = Value(before)
                  /\ d = [k \in 1 .. p |-> Digit[before[k]]]
                  /\ \A k \in 1 .. p : d[k] \in Nat
  BY <1>3, <1>5, ValueIs
<1>10. SumFunctionOnSet(f, 1 .. p) = Value(before) * Xlm
  <2>1. PICK S : S = {}
    OBVIOUS
  <2>2. ASSUME NEW k \in 1 .. p PROVE d[k] \in Nat /\ f[0 + k] = d[k] * TenTo(Decimals + p - k)
    <3>1. k \in 1 .. N /\ k # P /\ k < P /\ 0 + k = k
      BY ONLY p \in Nat, <1>2, <2>2
    <3>2. Decimals + P - 1 - k = Decimals + p - k
      BY <1>2, <1>8
    <3>3. d[k] = Digit[text[k]]
      BY <1>3, <1>9
    <3>4. f[k] = Digit[text[k]] * TenTo(Decimals + P - 1 - k)
      BY <1>14, <3>1
    <3> QED
      BY <1>9, <3>1, <3>2, <3>3, <3>4
  <2>3. IsFiniteSet(S) /\ (\A x \in S : f[x] \in Int) /\ \A k \in 1 .. p : 0 + k \notin S
    BY <2>1, FS_EmptySet
  <2>4. PICK o \in Nat : o = 0
    OBVIOUS
  <2>5. (\A k \in 1 .. p : o + k \notin S) /\ \A k \in 1 .. p : d[k] \in Nat /\ f[o + k] = d[k] * TenTo(Decimals + p - k)
    BY <2>2, <2>3, <2>4
  <2>6. IsNumber(r, d, p)
    BY <1>9
  <2>7. SumFunctionOnSet(f, S \cup ((o + 1) .. (o + p))) = SumFunctionOnSet(f, S) + r[p] * TenTo(Decimals)
    <3>1. AddsPlaces(S, f, o, p, Decimals, d)
      BY ONLY p \in Nat, <1>8, <2>3, <2>5 DEF AddsPlaces
    <3>2. PlacesAdded(S, f, o, p, Decimals, r)
      BY ONLY <2>6, <3>1, PlaceValue
    <3> QED
      BY ONLY <3>2 DEF PlacesAdded
  <2>8. S \cup ((o + 1) .. (o + p)) = 1 .. p
    BY <2>1, <2>4
  <2>9. r[p] * TenTo(Decimals) \in Int
    <3>1. r[p] \in Nat
      BY <1>3, <1>5, <1>9, ValueNatural
    <3>2. TenTo(Decimals) \in Nat
      BY <1>8, TenToIs
    <3> QED
      BY <3>1, <3>2
  <2> QED
    BY <1>9, <2>1, <2>7, <2>8, <2>9, SumEmpty DEF Xlm
<1>11. Value(before) * Xlm \in Int
  <2>1. Value(before) \in Nat
    BY <1>3, <1>5, ValueNatural
  <2>2. Xlm \in Nat
    BY <1>8, TenToIs DEF Xlm
  <2> QED
    BY <2>1, <2>2
<1>12. CASE ~(P <= Len(text))
  <2>1. p = N
    BY <1>1, <1>2, <1>12
  <2> QED
    BY <1>5, <1>7, <1>10, <1>11, <1>12, <2>1
<1>13. CASE P <= Len(text)
  <2>1. PICK n \in Nat : n = Len(digits) /\ n = N - P /\ z = Decimals - n
    BY <1>1, <1>4, <1>13
  <2>2. PICK e, s : /\ IsNumber(s, e, n) /\ s[n] = Value(digits)
                    /\ e = [k \in 1 .. n |-> Digit[digits[k]]]
                    /\ \A k \in 1 .. n : e[k] \in Nat
    <3>1. PICK e, s : /\ e = [k \in 1 .. Len(digits) |-> Digit[digits[k]]]
                      /\ IsNumber(s, e, Len(digits)) /\ s[Len(digits)] = Value(digits)
                      /\ AllDigits(digits) => \A k \in 1 .. Len(digits) : e[k] \in Nat
      BY <1>4, ValueIs
    <3> QED
      BY ONLY <1>5, <2>1, <3>1
  <2>3. PICK S : S = 1 .. P
    OBVIOUS
  <2>4. ASSUME NEW k \in 1 .. n PROVE e[k] \in Nat /\ f[P + k] = e[k] * TenTo(z + n - k)
    <3>1. P + k \in 1 .. N /\ P + k # P /\ ~(P + k < P)
      BY ONLY <1>0, n \in Nat, N \in Nat, <2>1, <2>4
    <3>2. Decimals + P - (P + k) = z + n - k
      BY ONLY <1>0, <1>8, n \in Nat, z \in Nat, <2>1, <2>4
    <3>3. digits[k] = text[P + k]
      BY <1>4, <2>1
    <3>4. f[P + k] = Digit[text[P + k]] * TenTo(Decimals + P - (P + k))
      BY <1>14, <3>1
    <3> QED
      BY ONLY <2>2, <2>4, <3>2, <3>3, <3>4
  <2>5. SumFunctionOnSet(f, S) = Value(before) * Xlm
    <3>1. P \notin 1 .. p /\ S = (1 .. p) \cup {P} /\ P \in 1 .. N
      BY ONLY <1>0, <1>1, <1>2, <1>13, <2>3
    <3>2. IsFiniteSet(1 .. p)
      BY ONLY 1 \in Int, p \in Int, FS_Interval
    <3>3. ASSUME NEW k \in 1 .. p PROVE f[k] \in Int
      <4>1. k \in 1 .. N /\ k <= P
        BY ONLY p \in Nat, <1>2, <3>3
      <4> QED
        BY <1>16, <4>1
    <3>5. f[P] = 0
      BY <1>14, <3>1
    <3>4. SumFunctionOnSet(f, (1 .. p) \cup {P}) = f[P] + SumFunctionOnSet(f, 1 .. p)
      <4>1. f[P] \in Int
        BY <3>5
      <4> QED
        BY ONLY <3>1, <3>2, <3>3, <4>1, SumAdd
    <3> QED
      BY ONLY <1>10, <1>11, <3>1, <3>4, <3>5
  <2>6. IsFiniteSet(S) /\ (\A x \in S : f[x] \in Int) /\ \A k \in 1 .. n : P + k \notin S
    <3>1. IsFiniteSet(S)
      BY <2>3, FS_Interval
    <3>2. ASSUME NEW x \in S PROVE f[x] \in Int
      <4>1. x \in 1 .. N /\ x <= P
        BY ONLY <1>0, <1>1, <1>13, <2>3, <3>2
      <4> QED
        BY <1>16, <4>1
    <3>3. \A k \in 1 .. n : P + k \notin S
      BY ONLY <1>0, n \in Nat, <2>3
    <3> QED
      BY <3>1, <3>2, <3>3
  <2>7. P \in Nat /\ IsNumber(s, e, n) /\ \A k \in 1 .. n : e[k] \in Nat /\ f[P + k] = e[k] * TenTo(z + n - k)
    BY <1>0, <2>2, <2>4
  <2>8. SumFunctionOnSet(f, S \cup ((P + 1) .. (P + n))) = SumFunctionOnSet(f, S) + s[n] * TenTo(z)
    <3>1. AddsPlaces(S, f, P, n, z, e)
      BY ONLY n \in Nat, z \in Nat, <2>6, <2>7 DEF AddsPlaces
    <3>2. IsNumber(s, e, n)
      BY ONLY <2>7
    <3>3. PlacesAdded(S, f, P, n, z, s)
      BY ONLY <3>1, <3>2, PlaceValue
    <3> QED
      BY ONLY <3>3 DEF PlacesAdded
  <2>9. S \cup ((P + 1) .. (P + n)) = 1 .. N
    BY ONLY <1>0, <2>1, <2>3
  <2> QED
    BY <1>5, <1>7, <1>13, <2>2, <2>5, <2>8, <2>9
<1> QED
  BY <1>12, <1>13

(* What an amount is made of. *)
LEMMA NewIs ==
  ASSUME NEW n \in Nat
  PROVE  IF n \in 1 .. MaxStroops THEN New(n) = Ok(n) ELSE ~New(n).ok
  BY AmountAssumption DEF New, Ok, Err

(* A number of XLM is at least as many stroops. *)
LEMMA ManyStroops ==
  ASSUME NEW v \in Nat, NEW x \in Nat, x >= 1
  PROVE  v * x \in Nat /\ v * x >= v
<1>1. v * (x - 1) \in Nat
  OBVIOUS
<1>2. v * x = v * (x - 1) + v
  OBVIOUS
<1> QED
  BY ONLY <1>1, <1>2, v \in Nat

(* Text without a point. *)
LEMMA WholeIs ==
  ASSUME NEW text \in Seq(Chars), \A i \in DOMAIN text : text[i] # "+", Dots(text) = {}
  PROVE  IF IsAmountText(text) THEN FromDecimal(text) = Ok(Meaning(text)) ELSE ~FromDecimal(text).ok
<1>1. FromDecimal(text) = IF Parsed(text).ok THEN FromXlm(Parsed(text).stroops) ELSE Parsed(text)
  BY DEF FromDecimal
<1>2. Parsed(text) = IF text = <<>> \/ ~AllDigits(text) \/ Value(text) \notin U64
                     THEN Err("NotRepresentable") ELSE Ok(Value(text))
  BY ParsedIs
<1>3. Point(text) = Len(text) + 1
  BY DEF Point
<1>4. IsAmountText(text) <=> AllDigits(text) /\ Meaning(text) \in 1 .. MaxStroops
  <2>1. Len(text) - Point(text) <= Decimals
    BY <1>3, AmountAssumption
  <2> QED
    BY <2>1 DEF IsAmountText, AllDigits
<1>5. CASE ~AllDigits(text)
  BY <1>1, <1>2, <1>4, <1>5 DEF Err
<1>6. CASE AllDigits(text)
  <2>1. PICK v \in Nat : v = Value(text)
    BY <1>6, ValueNatural
  <2>2. PICK x \in Nat : x = Xlm /\ x >= 1
    BY AmountAssumption, TenToIs DEF Xlm
  <2>3. Meaning(text) = v * x
    <3>1. PICK P \in 1 .. Len(text) + 1 : P = Point(text) /\ P = Len(text) + 1
      BY <1>3
    <3>2. text = SubSeq(text, 1, P - 1)
      BY <3>1
    <3>3. PICK digits : digits = SubSeq(text, P + 1, Len(text))
      OBVIOUS
    <3>4. \A i \in DOMAIN text : i # P => text[i] \in DOMAIN Digit
      BY <1>6 DEF AllDigits
    <3>5. ~(P <= Len(text))
      BY <3>1
    <3>6. PICK z \in Nat : z = 0
      OBVIOUS
    <3>7. Meaning(text) = Value(text) * Xlm + (IF P <= Len(text) THEN Value(digits) * TenTo(z) ELSE 0)
      BY ONLY text \in Seq(Chars), <3>1, <3>2, <3>3, <3>4, <3>5, <3>6, MeaningIs
    <3> QED
      BY ONLY <2>1, <2>2, <3>5, <3>7
  <2>4. v * x \in Nat /\ v * x >= v
    BY <2>2, ManyStroops
  <2>5. MaxStroops \in Nat
    BY AmountAssumption
  <2>6. CASE text = <<>>
    <3>1. v = 0
      BY <2>1, <2>6, ParsedIs
    <3>2. ~IsAmountText(text)
      BY ONLY <1>4, <2>2, <2>3, <2>5, <3>1
    <3> QED
      BY <1>1, <1>2, <2>6, <3>2 DEF Err
  <2>7. CASE v \notin U64
    <3>1. ~IsAmountText(text)
      BY ONLY <1>4, <2>1, <2>3, <2>4, <2>5, <2>7 DEF U64
    <3> QED
      BY <1>1, <1>2, <2>1, <2>7, <3>1 DEF Err
  <2>8. CASE text # <<>> /\ v \in U64
    <3>1. FromDecimal(text) = FromXlm(v)
      BY <1>1, <1>2, <1>6, <2>1, <2>8 DEF Ok
    <3>2. CASE v * x \in U64
      <4>1. FromDecimal(text) = New(v * x)
        BY <2>2, <3>1, <3>2 DEF FromXlm
      <4>2. PICK n \in Nat : n = v * x
        BY <2>4
      <4> QED
        BY <1>4, <1>6, <2>3, <4>1, <4>2, NewIs
    <3>3. CASE v * x \notin U64
      <4>1. ~FromDecimal(text).ok
        BY <2>2, <3>1, <3>3 DEF FromXlm, Err
      <4>2. ~IsAmountText(text)
        BY ONLY <1>4, <2>3, <2>4, <2>5, <3>3 DEF U64
      <4> QED
        BY <4>1, <4>2
    <3> QED
      BY <3>2, <3>3
  <2> QED
    BY <2>6, <2>7, <2>8
<1> QED
  BY <1>5, <1>6

(* Text with one point. *)
LEMMA DecimalIs ==
  ASSUME NEW text \in Seq(Chars), \A i \in DOMAIN text : text[i] # "+", NEW P, Dots(text) = {P}
  PROVE  IF IsAmountText(text) THEN FromDecimal(text) = Ok(Meaning(text)) ELSE ~FromDecimal(text).ok
<1>1. PICK N \in Nat : N = Len(text) /\ DOMAIN text = 1 .. N
  OBVIOUS
<1>2. P \in 1 .. N /\ P \in 1 .. N + 1 /\ \A i \in 1 .. N : i # P => text[i] # "."
  BY <1>1 DEF Dots
<1>3. Point(text) = P
  BY DEF Point
<1>4. PICK before : before = SubSeq(text, 1, P - 1)
  OBVIOUS
<1>5. PICK digits : digits = SubSeq(text, P + 1, Len(text))
  OBVIOUS
<1>6. PICK whole : whole = Parsed(IF before = <<>> THEN <<"0">> ELSE before)
  OBVIOUS
<1>7. PICK frac : frac = FractionOf(digits)
  OBVIOUS
<1>8. FromDecimal(text) =
        IF Len(digits) > Decimals THEN Err("LossOfPrecision")
        ELSE IF ~whole.ok THEN whole
        ELSE IF ~frac.ok THEN frac
        ELSE IF whole.stroops * Xlm \notin U64 THEN Err("Overflow")
        ELSE IF whole.stroops * Xlm + frac.stroops \notin U64 THEN Err("Overflow")
        ELSE New(whole.stroops * Xlm + frac.stroops)
  <2>1. Dots(text) # {} /\ ~ \E i, j \in Dots(text) : i # j
    OBVIOUS
  <2>2. (CHOOSE i \in Dots(text) : TRUE) = P
    OBVIOUS
  <2> QED
    BY ONLY <1>4, <1>5, <1>6, <1>7, <2>1, <2>2 DEF FromDecimal
<1>9. /\ before \in Seq(Chars) /\ Len(before) = P - 1
      /\ \A k \in 1 .. P - 1 : before[k] = text[k]
  BY ONLY text \in Seq(Chars), <1>1, <1>2, <1>4
<1>10. /\ digits \in Seq(Chars) /\ Len(digits) = N - P
       /\ \A k \in 1 .. N - P : digits[k] = text[P + k]
  <2>1. digits \in Seq(Chars) /\ Len(digits) = N - P
    BY ONLY text \in Seq(Chars), <1>1, <1>2, <1>5
  <2>2. ASSUME NEW k \in 1 .. N - P PROVE digits[k] = text[P + k]
    <3>1. digits[k] = text[(P + 1) + k - 1]
      BY ONLY text \in Seq(Chars), <1>1, <1>2, <1>5, <2>2
    <3>2. (P + 1) + k - 1 = P + k
      BY ONLY <1>1, <1>2, <2>2
    <3> QED
      BY ONLY <3>1, <3>2
  <2> QED
    BY <2>1, <2>2
<1>11. IsAmountText(text) <=> /\ AllDigits(before) /\ AllDigits(digits)
                              /\ N - P <= Decimals /\ Meaning(text) \in 1 .. MaxStroops
  <2>1. (\A i \in DOMAIN text \ Dots(text) : text[i] \in DOMAIN Digit)
          <=> AllDigits(before) /\ AllDigits(digits)
    <3>1. ASSUME \A i \in DOMAIN text \ Dots(text) : text[i] \in DOMAIN Digit
          PROVE  AllDigits(before) /\ AllDigits(digits)
      <4>1. ASSUME NEW k \in DOMAIN before PROVE before[k] \in DOMAIN Digit
        <5>1. k \in 1 .. P - 1 /\ k \in 1 .. N /\ k # P
          BY <1>1, <1>2, <1>9
        <5> QED
          BY <1>1, <1>9, <3>1, <5>1
      <4>2. ASSUME NEW k \in DOMAIN digits PROVE digits[k] \in DOMAIN Digit
        <5>1. k \in 1 .. N - P /\ P + k \in 1 .. N /\ P + k # P
          BY <1>1, <1>2, <1>10
        <5> QED
          BY <1>1, <1>10, <3>1, <5>1
      <4> QED
        BY <4>1, <4>2 DEF AllDigits
    <3>2. ASSUME AllDigits(before), AllDigits(digits), NEW i \in DOMAIN text \ Dots(text)
          PROVE  text[i] \in DOMAIN Digit
      <4>1. i \in 1 .. N /\ i # P
        BY <1>1
      <4>2. CASE i < P
        <5>1. i \in 1 .. P - 1 /\ i \in DOMAIN before
          BY <1>2, <1>9, <4>1, <4>2
        <5> QED
          BY <1>9, <3>2, <5>1 DEF AllDigits
      <4>3. CASE ~(i < P)
        <5>1. i - P \in 1 .. N - P /\ P + (i - P) = i
          BY ONLY <1>1, <1>2, <4>1, <4>3
        <5>2. i - P \in DOMAIN digits
          BY <1>10, <5>1
        <5>3. digits[i - P] \in DOMAIN Digit
          BY <3>2, <5>2 DEF AllDigits
        <5> QED
          BY <1>10, <5>1, <5>3
      <4> QED
        BY <4>2, <4>3
    <3> QED
      BY <3>1, <3>2
  <2>2. \A i, j \in Dots(text) : i = j
    OBVIOUS
  <2> QED
    BY ONLY <1>1, <1>3, <2>1, <2>2 DEF IsAmountText
<1>12. /\ \A i \in DOMAIN before : before[i] # "+"
       /\ \A i \in DOMAIN digits : digits[i] # "+"
  <2>1. ASSUME NEW k \in DOMAIN before PROVE before[k] # "+"
    <3>1. k \in 1 .. P - 1 /\ k \in 1 .. N
      BY <1>1, <1>2, <1>9
    <3> QED
      BY <1>1, <1>9, <3>1
  <2>2. ASSUME NEW k \in DOMAIN digits PROVE digits[k] # "+"
    <3>1. k \in 1 .. N - P /\ P + k \in 1 .. N
      BY <1>1, <1>2, <1>10
    <3> QED
      BY <1>1, <1>10, <3>1
  <2> QED
    BY <2>1, <2>2
<1>13. /\ AllDigits(before) /\ Value(before) \in U64 => whole = Ok(Value(before))
       /\ ~(AllDigits(before) /\ Value(before) \in U64) => ~whole.ok
  <2>1. CASE before = <<>>
    <3>1. Value(before) = 0 /\ AllDigits(before)
      <4>1. DOMAIN before = {}
        BY <2>1
      <4>2. AllDigits(before)
        BY <4>1 DEF AllDigits
      <4> QED
        BY <1>9, <1>12, <2>1, <4>2, ParsedIs
    <3>2. whole = Ok(0)
      <4>1. PICK zero : zero = <<"0">>
        OBVIOUS
      <4>2. zero \in Seq(Chars) /\ zero # <<>> /\ DOMAIN zero = {1} /\ zero[1] = "0" /\ Len(zero) = 1
        <5>1. "0" \in Chars
          BY DEF Chars
        <5> QED
          BY <4>1, <5>1
      <4>3. AllDigits(zero)
        BY <4>2, DigitIs DEF AllDigits
      <4>4. Value(zero) = 0
        <5>1. PICK d, r : /\ d = [k \in 1 .. Len(zero) |-> Digit[zero[k]]]
                          /\ IsNumber(r, d, Len(zero)) /\ r[Len(zero)] = Value(zero)
          BY <4>2, ValueIs
        <5>2. r[1] = 10 * r[0] + d[1] /\ r[0] = 0
          BY ONLY <4>2, <5>1 DEF IsNumber, IsRead
        <5>3. d[1] = 0
          BY <4>2, <5>1, DigitIs
        <5> QED
          BY <4>2, <5>1, <5>2, <5>3
      <4>5. 0 \in U64
        BY AmountAssumption DEF U64
      <4>6. \A i \in DOMAIN zero : zero[i] # "+"
        BY <4>2
      <4>7. Parsed(zero) = Ok(0)
        BY <4>2, <4>3, <4>4, <4>5, <4>6, ParsedIs
      <4> QED
        BY <1>6, <2>1, <4>1, <4>7
    <3>3. 0 \in U64
      BY AmountAssumption DEF U64
    <3> QED
      BY <3>1, <3>2, <3>3
  <2>2. CASE before # <<>>
    <3>1. whole = IF ~AllDigits(before) \/ Value(before) \notin U64
                  THEN Err("NotRepresentable") ELSE Ok(Value(before))
      BY <1>6, <1>9, <1>12, <2>2, ParsedIs
    <3> QED
      BY <3>1 DEF Err
  <2> QED
    BY <2>1, <2>2
<1>14. Decimals \in Nat /\ Decimals >= 1 /\ MaxStroops \in Nat /\ MaxStroops >= 1
  BY AmountAssumption
<1>15. CASE ~(N - P <= Decimals)
  <2>1. Len(digits) > Decimals
    BY ONLY <1>1, <1>2, <1>10, <1>14, <1>15
  <2>2. FromDecimal(text) = Err("LossOfPrecision")
    BY ONLY <1>8, <2>1
  <2> QED
    BY <1>11, <1>15, <2>2 DEF Err
<1>16. CASE N - P <= Decimals
  <2>0. Decimals - Len(digits) \in Nat
    <3>1. N - P \in Nat /\ Decimals - (N - P) \in Nat
      BY ONLY <1>1, <1>2, <1>14, <1>16
    <3> QED
      BY ONLY <1>10, <3>1
  <2>1. PICK z \in Nat : z = Decimals - Len(digits)
    BY ONLY <2>0
  <2>2. ~(Len(digits) > Decimals) /\ Len(digits) + z = Decimals /\ Len(digits) \in Nat
    BY ONLY <1>1, <1>2, <1>10, <1>14, <1>16, <2>1
  <2>3. PICK padded : padded = Padded(digits, z)
    OBVIOUS
  <2>4. frac = Parsed(padded)
    BY ONLY <1>7, <2>1, <2>3 DEF FractionOf, Padded
  <2>5. /\ padded \in Seq(Chars) /\ Len(padded) = Len(digits) + z
        /\ AllDigits(padded) <=> AllDigits(digits)
        /\ AllDigits(digits) => Value(padded) = Value(digits) * TenTo(z)
        /\ \A i \in DOMAIN padded : padded[i] # "+"
    <3>1. /\ padded \in Seq(Chars) /\ Len(padded) = Len(digits) + z
          /\ AllDigits(padded) <=> AllDigits(digits)
          /\ AllDigits(digits) => Value(padded) = Value(digits) * TenTo(z)
          /\ \A i \in DOMAIN padded : padded[i] # "+" \/ \E j \in DOMAIN digits : digits[j] = "+"
      BY ONLY z \in Nat, <1>10, <2>3, PaddedIs
    <3> QED
      BY ONLY <1>12, <3>1
  <2>6. padded # <<>>
    BY ONLY <1>14, <2>2, <2>5
  <2>7. frac = IF ~AllDigits(padded) \/ Value(padded) \notin U64
               THEN Err("NotRepresentable") ELSE Ok(Value(padded))
    BY <2>4, <2>5, <2>6, ParsedIs
  <2>8. CASE ~(AllDigits(before) /\ AllDigits(digits))
    <3>1. ~whole.ok \/ ~frac.ok
      BY <1>13, <2>5, <2>7, <2>8 DEF Err
    <3>2. ~FromDecimal(text).ok
      BY ONLY <1>8, <2>2, <3>1
    <3> QED
      BY <1>11, <2>8, <3>2
  <2>9. CASE AllDigits(before) /\ AllDigits(digits)
    <3>1. PICK w \in Nat : w = Value(before)
      BY <1>9, <2>9, ValueNatural
    <3>2. PICK q \in Nat : q = Value(padded)
      BY <2>5, <2>9, ValueNatural
    <3>3. PICK x \in Nat : x = Xlm /\ x >= 1
      BY <1>14, TenToIs DEF Xlm
    <3>4. Meaning(text) = w * x + q
      <4>1. \A i \in DOMAIN text : i # P => text[i] \in DOMAIN Digit
        <5>1. CASE IsAmountText(text)
          BY <5>1 DEF IsAmountText
        <5>2. ASSUME NEW i \in DOMAIN text, i # P PROVE text[i] \in DOMAIN Digit
          <6>1. i \in 1 .. N /\ i # P
            BY <1>1, <5>2
          <6>2. CASE i < P
            <7>1. i \in 1 .. P - 1 /\ i \in DOMAIN before
              BY <1>2, <1>9, <6>1, <6>2
            <7> QED
              BY <1>9, <2>9, <7>1 DEF AllDigits
          <6>3. CASE ~(i < P)
            <7>1. i - P \in 1 .. N - P /\ P + (i - P) = i
              BY ONLY <1>1, <1>2, <6>1, <6>3
            <7>2. i - P \in DOMAIN digits
              BY <1>10, <7>1
            <7>3. digits[i - P] \in DOMAIN Digit
              BY <2>9, <7>2 DEF AllDigits
            <7> QED
              BY <1>10, <7>1, <7>3
          <6> QED
            BY <6>2, <6>3
        <5> QED
          BY <5>2
      <4>2. P \in 1 .. Len(text) + 1 /\ P = Point(text) /\ P <= Len(text)
        BY ONLY <1>1, <1>2, <1>3
      <4>3. Meaning(text) = Value(before) * Xlm + (IF P <= Len(text) THEN Value(digits) * TenTo(z) ELSE 0)
        BY ONLY text \in Seq(Chars), <1>4, <1>5, <2>1, <4>1, <4>2, MeaningIs
      <4>4. Value(padded) = Value(digits) * TenTo(z)
        BY <2>5, <2>9
      <4> QED
        BY ONLY <3>1, <3>2, <3>3, <4>2, <4>3, <4>4
    <3>5. w * x \in Nat /\ w * x >= w
      BY <3>3, ManyStroops
    <3>6. PICK m \in Nat : m = w * x /\ m >= w
      BY <3>5
    <3>7. IsAmountText(text) <=> m + q \in 1 .. MaxStroops
      BY <1>11, <1>16, <2>9, <3>4, <3>6
    <3>8. CASE w \notin U64 \/ q \notin U64
      <4>1. ~(m + q \in 1 .. MaxStroops)
        BY ONLY <1>14, <3>8, w \in Nat, m \in Nat, q \in Nat, <3>6 DEF U64
      <4>2. ~whole.ok \/ ~frac.ok
        BY <1>13, <2>7, <3>1, <3>2, <3>8 DEF Err
      <4>3. ~FromDecimal(text).ok
        BY ONLY <1>8, <2>2, <4>2
      <4> QED
        BY <3>7, <4>1, <4>3
    <3>9. CASE w \in U64 /\ q \in U64
      <4>1. whole = Ok(w) /\ frac = Ok(q)
        BY <1>13, <2>5, <2>7, <2>9, <3>1, <3>2, <3>9
      <4>2. whole.ok /\ frac.ok /\ whole.stroops = w /\ frac.stroops = q
        BY <4>1 DEF Ok
      <4>3. FromDecimal(text) = IF m \notin U64 THEN Err("Overflow")
                                ELSE IF m + q \notin U64 THEN Err("Overflow") ELSE New(m + q)
        BY ONLY <1>8, <2>2, <3>3, <3>6, <4>2
      <4>4. CASE m \notin U64 \/ m + q \notin U64
        <5>1. ~(m + q \in 1 .. MaxStroops)
          BY ONLY <1>14, <4>4, m \in Nat, q \in Nat DEF U64
        <5>2. ~FromDecimal(text).ok
          BY <4>3, <4>4 DEF Err
        <5> QED
          BY <3>7, <5>1, <5>2
      <4>5. CASE m \in U64 /\ m + q \in U64
        <5>1. PICK n \in Nat : n = m + q
          OBVIOUS
        <5>2. FromDecimal(text) = New(n) /\ Meaning(text) = n
          BY <3>4, <3>6, <4>3, <4>5, <5>1
        <5> QED
          BY <3>7, <5>1, <5>2, NewIs
      <4> QED
        BY <4>4, <4>5
    <3> QED
      BY <3>8, <3>9
  <2> QED
    BY <2>8, <2>9
<1> QED
  BY <1>15, <1>16

(* A text is read for what it means, or refused. *)
LEMMA FromDecimalIs ==
  ASSUME NEW text \in Seq(Chars), \A i \in DOMAIN text : text[i] # "+"
  PROVE  IF IsAmountText(text) THEN FromDecimal(text) = Ok(Meaning(text)) ELSE ~FromDecimal(text).ok
<1>1. CASE Dots(text) = {}
  BY <1>1, WholeIs
<1>2. CASE \E i, j \in Dots(text) : i # j
  <2>1. ~IsAmountText(text)
    BY <1>2 DEF IsAmountText
  <2>2. FromDecimal(text) = Err("NotRepresentable")
    BY <1>2 DEF FromDecimal
  <2> QED
    BY <2>1, <2>2 DEF Err
<1>3. CASE Dots(text) # {} /\ ~ \E i, j \in Dots(text) : i # j
  <2>1. PICK P \in Dots(text) : TRUE
    BY <1>3
  <2>2. Dots(text) = {P}
    BY ONLY <1>3, <2>1
  <2> QED
    BY <2>2, DecimalIs
<1> QED
  BY <1>1, <1>2, <1>3

-----------------------------------------------------------------------------
(* The operations on the balance.                                          *)

(* An operation that fits is booked on both. *)
LEMMA Booked ==
  ASSUME AmountsAreExact, NEW to \in Int, NEW r, Book(r), Exactly(to),
         IF to \in 1 .. MaxStroops THEN r = Ok(to) ELSE ~r.ok
  PROVE  AmountsAreExact'
<1>1. balance' = exact' /\ (balance' = balance \/ balance' \in 1 .. MaxStroops)
  BY DEF Book, Exactly, Ok, AmountsAreExact
<1> QED
  BY <1>1 DEF AmountsAreExact

(* One that has an error changes neither. *)
LEMMA Refused ==
  ASSUME AmountsAreExact, NEW r, Book(r), ~r.ok, UNCHANGED exact
  PROVE  AmountsAreExact'
  BY DEF Book, AmountsAreExact

(* Texts are of those characters. *)
LEMMA MoreChars == ASSUME NEW t \in Seq(STRING) PROVE t \in Seq(Chars)
  BY DEF Chars

(* Credits. *)
LEMMA CreditInv ==
  ASSUME AmountsAreExact, NEW t \in Texts, \A i \in DOMAIN t : t[i] # "+", Credit(t)
  PROVE  AmountsAreExact'
<1>1. t \in Seq(Chars)
  BY AmountAssumption, MoreChars
<1>2. IF IsAmountText(t) THEN FromDecimal(t) = Ok(Meaning(t)) ELSE ~FromDecimal(t).ok
  BY <1>1, FromDecimalIs
<1>3. PICK delta : delta = FromDecimal(t)
  OBVIOUS
<1>4. /\ Book(IF delta.ok THEN CheckedAdd(balance, delta.stroops) ELSE delta)
      /\ IF IsAmountText(t) THEN Exactly(exact + Meaning(t)) ELSE UNCHANGED exact
  BY <1>3 DEF Credit
<1>5. CASE ~IsAmountText(t)
  BY <1>2, <1>3, <1>4, <1>5, Refused
<1>6. CASE IsAmountText(t)
  <2>1. PICK m \in 1 .. MaxStroops : m = Meaning(t)
    BY <1>6 DEF IsAmountText
  <2>2. delta = Ok(m)
    BY <1>2, <1>3, <1>6, <2>1
  <2>3. MaxStroops \in Nat
    BY AmountAssumption
  <2>4. balance \in 1 .. MaxStroops /\ exact = balance
    BY DEF AmountsAreExact
  <2>5. PICK n \in Nat : n = balance + m /\ n \in U64
    <3>1. balance + m \in Nat /\ balance + m \in U64
      BY ONLY <2>1, <2>3, <2>4 DEF U64
    <3> QED
      BY <3>1
  <2>6. PICK r : r = New(n)
    OBVIOUS
  <2>7. Book(r) /\ Exactly(n)
    BY <1>4, <1>6, <2>1, <2>2, <2>4, <2>5, <2>6 DEF CheckedAdd, Ok
  <2>8. IF n \in 1 .. MaxStroops THEN r = Ok(n) ELSE ~r.ok
    BY <2>6, NewIs
  <2> QED
    BY <2>7, <2>8, Booked
<1> QED
  BY <1>5, <1>6

(* What is taken from the balance leaves the difference, if there is one. *)
LEMMA TakenInv ==
  ASSUME AmountsAreExact, NEW n \in 1 .. MaxStroops,
         Book(CheckedSub(balance, n)), Exactly(exact - n)
  PROVE  AmountsAreExact'
<1>1. MaxStroops \in Nat
  BY AmountAssumption
<1>2. balance \in 1 .. MaxStroops /\ exact = balance
  BY DEF AmountsAreExact
<1>3. PICK to \in Int : to = balance - n
  BY <1>1, <1>2
<1>4. PICK r : r = CheckedSub(balance, n)
  OBVIOUS
<1>5. IF to \in 1 .. MaxStroops THEN r = Ok(to) ELSE ~r.ok
  <2>1. CASE balance >= n
    <3>1. to \in Nat
      BY <1>1, <1>2, <1>3, <2>1
    <3>2. r = New(to)
      BY <1>3, <1>4, <2>1 DEF CheckedSub
    <3> QED
      BY <3>1, <3>2, NewIs
  <2>2. CASE ~(balance >= n)
    <3>1. ~(to \in 1 .. MaxStroops)
      BY <1>1, <1>2, <1>3, <2>2
    <3>2. ~r.ok
      BY <1>4, <2>2 DEF CheckedSub, Err
    <3> QED
      BY <3>1, <3>2
  <2> QED
    BY <2>1, <2>2
<1>6. Book(r) /\ Exactly(to)
  BY <1>2, <1>3, <1>4
<1> QED
  BY <1>5, <1>6, Booked

(* Debits. *)
LEMMA DebitInv ==
  ASSUME AmountsAreExact, NEW t \in Texts, \A i \in DOMAIN t : t[i] # "+", Debit(t)
  PROVE  AmountsAreExact'
<1>1. t \in Seq(Chars)
  BY AmountAssumption, MoreChars
<1>2. IF IsAmountText(t) THEN FromDecimal(t) = Ok(Meaning(t)) ELSE ~FromDecimal(t).ok
  BY <1>1, FromDecimalIs
<1>3. PICK delta : delta = FromDecimal(t)
  OBVIOUS
<1>4. /\ Book(IF delta.ok THEN CheckedSub(balance, delta.stroops) ELSE delta)
      /\ IF IsAmountText(t) THEN Exactly(exact - Meaning(t)) ELSE UNCHANGED exact
  BY <1>3 DEF Debit
<1>5. CASE ~IsAmountText(t)
  BY <1>2, <1>3, <1>4, <1>5, Refused
<1>6. CASE IsAmountText(t)
  <2>1. PICK m \in 1 .. MaxStroops : m = Meaning(t)
    BY <1>6 DEF IsAmountText
  <2>2. delta = Ok(m)
    BY <1>2, <1>3, <1>6, <2>1
  <2>3. Book(CheckedSub(balance, m)) /\ Exactly(exact - m)
    BY <1>4, <1>6, <2>1, <2>2 DEF Ok
  <2> QED
    BY <2>1, <2>3, TakenInv
<1> QED
  BY <1>5, <1>6

(* Fees: the rate of the balance, rounded down. *)
LEMMA ChargeInv ==
  ASSUME AmountsAreExact, NEW rate \in Nat, NEW whole \in {100, 10000}, Charge(rate, whole)
  PROVE  AmountsAreExact'
<1>1. PICK fee : fee = Fee(balance, rate, whole)
  OBVIOUS
<1>6. PICK f : f = CHOOSE x \in 0 .. exact : FeeIs(x, rate, whole)
  OBVIOUS
<1>2. /\ Book(IF fee.ok THEN CheckedSub(balance, fee.stroops) ELSE fee)
      /\ IF rate \in 1 .. whole THEN Exactly(exact - f) ELSE UNCHANGED exact
  BY <1>1, <1>6 DEF Charge
<1>3. whole \in Nat /\ whole > 0
  OBVIOUS
<1>4. CASE rate \notin 1 .. whole
  <2>1. ~fee.ok
    BY <1>1, <1>3, <1>4 DEF Fee, Err
  <2> QED
    BY <1>2, <1>4, <2>1, Refused
<1>5. CASE rate \in 1 .. whole
  <2>1. MaxStroops \in Nat
    BY AmountAssumption
  <2>2. PICK b \in Nat : b = balance /\ b = exact /\ b \in 1 .. MaxStroops
    BY <2>1 DEF AmountsAreExact
  <2>3. PICK p \in Nat : p = b * rate /\ p <= b * whole
    <3>1. b * rate \in Nat /\ b * (whole - rate) \in Nat
      BY <1>3, <1>5
    <3>2. b * whole = b * rate + b * (whole - rate)
      BY <1>3
    <3> QED
      BY <1>3, <3>1, <3>2
  <2>4. PICK q \in Nat : q = p \div whole /\ q * whole <= p /\ p < q * whole + whole
    BY <1>3, RoundsDown
  <2>5. q <= b
    <3>1. CASE whole = 100
      BY ONLY <2>3, <2>4, <3>1, b \in Nat, p \in Nat, q \in Nat
    <3>2. CASE whole = 10000
      BY ONLY <2>3, <2>4, <3>2, b \in Nat, p \in Nat, q \in Nat
    <3> QED
      BY <3>1, <3>2
  <2>6. \A x \in 0 .. b : FeeIs(x, rate, whole) <=> x = q
    <3>1. ASSUME NEW x \in 0 .. b
          PROVE  FeeIs(x, rate, whole) <=> x * whole <= p /\ p < (x + 1) * whole
      BY <2>2, <2>3 DEF FeeIs
    <3>2. CASE whole = 100
      <4>1. ASSUME NEW x \in 0 .. b PROVE (x * 100 <= p /\ p < (x + 1) * 100) <=> x = q
        BY ONLY <2>4, <3>2, <4>1, b \in Nat, p \in Nat, q \in Nat
      <4> QED
        BY <3>1, <3>2, <4>1
    <3>3. CASE whole = 10000
      <4>1. ASSUME NEW x \in 0 .. b PROVE (x * 10000 <= p /\ p < (x + 1) * 10000) <=> x = q
        BY ONLY <2>4, <3>3, <4>1, b \in Nat, p \in Nat, q \in Nat
      <4> QED
        BY <3>1, <3>3, <4>1
    <3> QED
      BY <3>2, <3>3
  <2>7. f = q
    <3>1. q \in 0 .. b
      BY ONLY <2>5, b \in Nat, q \in Nat
    <3> QED
      BY ONLY <1>6, <2>2, <2>6, <3>1
  <2>8. Exactly(exact - q)
    BY <1>2, <1>5, <2>7
  <2>9. fee = New(q)
    <3>1. rate # 0 /\ ~(rate > whole) /\ ~(q > MaxStroops)
      BY ONLY <1>3, <1>5, <2>1, <2>2, <2>5, q \in Nat
    <3> QED
      BY ONLY <1>1, <2>2, <2>3, <2>4, <3>1 DEF Fee
  <2>10. CASE q = 0
    <3>1. ~fee.ok
      BY <2>9, <2>10 DEF New, Err
    <3>2. exact' = exact
      BY <2>2, <2>8, <2>10 DEF Exactly
    <3> QED
      BY <1>2, <3>1, <3>2, Refused
  <2>11. CASE q # 0
    <3>1. q \in 1 .. MaxStroops
      BY ONLY <2>1, <2>2, <2>5, <2>11, q \in Nat
    <3>2. fee = Ok(q)
      BY <2>9, <3>1, NewIs
    <3>3. Book(CheckedSub(balance, q))
      BY <1>2, <3>2 DEF Ok
    <3> QED
      BY <2>8, <3>1, <3>3, TakenInv
  <2> QED
    BY <2>10, <2>11
<1> QED
  BY <1>4, <1>5

(* A step keeps the balance exact. *)
LEMMA AmountStepInv ==
  ASSUME NoSigns, AmountsAreExact, [AmountNext]_amountVars
  PROVE  AmountsAreExact'
<1>1. ASSUME NEW t \in Texts, Credit(t) \/ Debit(t) PROVE AmountsAreExact'
  <2>1. \A i \in DOMAIN t : t[i] # "+"
    BY DEF NoSigns
  <2> QED
    BY <1>1, <2>1, CreditInv, DebitInv
<1>2. ASSUME NEW r \in BasisPoints, Charge(r, 10000) PROVE AmountsAreExact'
  BY <1>2, ChargeInv, AmountAssumption
<1>3. ASSUME NEW r \in Percents, Charge(r, 100) PROVE AmountsAreExact'
  BY <1>3, ChargeInv, AmountAssumption
<1>4. CASE UNCHANGED amountVars
  BY <1>4 DEF amountVars, AmountsAreExact
<1> QED
  BY <1>1, <1>2, <1>3, <1>4 DEF AmountNext

(* Whatever texts are offered, at any number of decimals and any largest     *)
(* amount: a decimal text is read for exactly what its digits mean, place by *)
(* place, or refused, and the balance kept with checked additions,           *)
(* subtractions and fees (amount.rs) is the one exact arithmetic gives.      *)
THEOREM AmountsStayExact == NoSigns => (AmountSpec => []AmountsAreExact)
<1> SUFFICES ASSUME NoSigns PROVE AmountSpec => []AmountsAreExact
  OBVIOUS
<1>1. AmountInit => AmountsAreExact
  BY AmountAssumption DEF AmountInit, AmountsAreExact
<1>2. AmountsAreExact /\ [AmountNext]_amountVars => AmountsAreExact'
  BY AmountStepInv
<1> QED
  BY <1>1, <1>2, PTL DEF AmountSpec

-----------------------------------------------------------------------------
(* Paging.                                                                 *)

(* What holds at the start and from each position to the next holds at all. *)
LEMMA ThroughAll ==
  ASSUME NEW n \in Nat, NEW Good, 0 \in Good,
         \A k \in 0 .. n - 1 : k \in Good => k + 1 \in Good
  PROVE  \A k \in 0 .. n : k \in Good
<1>1. PICK Bad : Bad = {k \in 0 .. n : k \notin Good}
  OBVIOUS
<1>2. SUFFICES ASSUME Bad # {} PROVE FALSE
  BY <1>1
<1>3. PICK k \in Bad : \A m \in 0 .. k - 1 : m \notin Bad
  BY <1>1, <1>2, LeastNatural
<1>4. k \in 0 .. n /\ k \notin Good /\ k # 0
  BY <1>1
<1>5. k - 1 \in 0 .. k - 1 /\ k - 1 \in 0 .. n - 1 /\ k - 1 \in 0 .. n /\ (k - 1) + 1 = k
  BY <1>4
<1>6. k - 1 \in Good
  BY <1>1, <1>3, <1>5
<1> QED
  BY <1>4, <1>5, <1>6

\* The values that g runs through from start on.
Runs(r, start, g, n) ==
  r[0] = start /\ \A k \in 1 .. n : r[k] = g[k][r[k - 1]]

(* A recursion over positions that stays in T has values, all of them in T. *)
LEMMA RecursionExists ==
  ASSUME NEW T, NEW start \in T, NEW n \in Nat, NEW g,
         \A k \in 1 .. n : \A x \in T : g[k][x] \in T
  PROVE  \E r \in [0 .. n -> T] : Runs(r, start, g, n)
<1>1. PICK Good : Good = {m \in 0 .. n : \E r \in [0 .. m -> T] : Runs(r, start, g, m)}
  OBVIOUS
<1>2. 0 \in Good
  <2>1. PICK r : r = [m \in 0 .. 0 |-> start]
    OBVIOUS
  <2>2. r \in [0 .. 0 -> T] /\ r[0] = start
    BY <2>1
  <2> QED
    BY <1>1, <2>2 DEF Runs
<1>3. ASSUME NEW k \in 0 .. n - 1, k \in Good PROVE k + 1 \in Good
  <2>1. PICK r \in [0 .. k -> T] : Runs(r, start, g, k)
    BY <1>1, <1>3
  <2>2. PICK s : s = [m \in 0 .. k + 1 |-> IF m = k + 1 THEN g[k + 1][r[k]] ELSE r[m]]
    OBVIOUS
  <2>3. s[k + 1] = g[k + 1][r[k]] /\ \A m \in 0 .. k : s[m] = r[m]
    BY <2>2
  <2>4. s \in [0 .. k + 1 -> T]
    <3>1. ASSUME NEW m \in 0 .. k + 1
          PROVE  (IF m = k + 1 THEN g[k + 1][r[k]] ELSE r[m]) \in T
      <4>1. k + 1 \in 1 .. n /\ r[k] \in T
        BY <2>1
      <4>2. m # k + 1 => m \in 0 .. k
        OBVIOUS
      <4> QED
        BY <4>1, <4>2, <2>1
    <3> QED
      BY <2>2, <3>1
  <2>5. \A m \in 1 .. k + 1 : s[m] = g[m][s[m - 1]]
    <3> SUFFICES ASSUME NEW m \in 1 .. k + 1 PROVE s[m] = g[m][s[m - 1]]
      OBVIOUS
    <3>1. m - 1 \in 0 .. k /\ s[m - 1] = r[m - 1]
      BY <2>3
    <3>2. CASE m = k + 1
      BY <2>3, <3>1, <3>2
    <3>3. CASE m # k + 1
      <4>1. m \in 1 .. k /\ m \in 0 .. k
        BY <3>3
      <4> QED
        BY <2>1, <2>3, <3>1, <4>1 DEF Runs
    <3> QED
      BY <3>2, <3>3
  <2>6. s[0] = start
    BY <2>1, <2>3 DEF Runs
  <2>7. Runs(s, start, g, k + 1) /\ k + 1 \in 0 .. n
    BY <2>5, <2>6 DEF Runs
  <2> QED
    BY <1>1, <2>4, <2>7
<1>4. n \in Good
  <2>1. \A k \in 0 .. n - 1 : k \in Good => k + 1 \in Good
    BY <1>3
  <2> QED
    BY <1>2, <2>1, ThroughAll
<1> QED
  BY <1>1, <1>4

\* The values of q go on as g says while they are in T.
Follows(q, start, g, n, T) ==
  q[0] = start /\ \A k \in 1 .. n : q[k - 1] \in T => q[k] = g[k][q[k - 1]]

SameUpto(q, r, n) == \A k \in 0 .. n : q[k] = r[k]

(* There is one such run of values: what starts the same and follows g where *)
(* it is in T is it.                                                       *)
LEMMA RecursionAgrees ==
  ASSUME NEW T, NEW n \in Nat, NEW start, NEW g, NEW r \in [0 .. n -> T], Runs(r, start, g, n),
         NEW q, Follows(q, start, g, n, T)
  PROVE  SameUpto(q, r, n)
<1>1. PICK Good : Good = {k \in 0 .. n : q[k] = r[k]}
  OBVIOUS
<1>2. 0 \in Good
  BY <1>1 DEF Runs, Follows
<1>3. ASSUME NEW k \in 0 .. n - 1, k \in Good PROVE k + 1 \in Good
  <2>1. q[k] = r[k] /\ r[k] \in T
    BY <1>1, <1>3
  <2>2. k + 1 \in 1 .. n /\ (k + 1) - 1 = k /\ k + 1 \in 0 .. n
    OBVIOUS
  <2>3. q[k + 1] = g[k + 1][q[k]] /\ r[k + 1] = g[k + 1][r[k]]
    BY <2>1, <2>2 DEF Runs, Follows
  <2> QED
    BY <1>1, <2>1, <2>2, <2>3
<1>4. \A k \in 0 .. n - 1 : k \in Good => k + 1 \in Good
  BY <1>3
<1>5. \A k \in 0 .. n : k \in Good
  BY <1>2, <1>4, ThroughAll
<1> QED
  BY <1>1, <1>5 DEF SameUpto

\* The first n powers of 256.
PowersUpto(p, n) ==
  p[0] = 1 /\ \A k \in 1 .. n : p[k] = 256 * p[k - 1]

(* ByteTo(n) is the last of the first n powers. *)
LEMMA ByteToReads ==
  ASSUME NEW n \in Nat
  PROVE  \E p \in [0 .. n -> Nat] : PowersUpto(p, n) /\ p[n] = ByteTo(n)
<1>1. PICK g : g = [k \in 1 .. n |-> [x \in Nat |-> 256 * x]]
  OBVIOUS
<1>2. \A k \in 1 .. n : \A x \in Nat : g[k][x] = 256 * x /\ g[k][x] \in Nat
  BY <1>1
<1>3. PICK r \in [0 .. n -> Nat] : Runs(r, 1, g, n)
  BY <1>2, RecursionExists
<1> DEFINE IsPower(p) == p = [k \in 0 .. n |-> IF k = 0 THEN 1 ELSE 256 * p[k - 1]]
<1>4. PowersUpto(r, n)
  <2>1. ASSUME NEW k \in 1 .. n PROVE r[k] = 256 * r[k - 1]
    <3>1. r[k] = g[k][r[k - 1]] /\ r[k - 1] \in Nat
      BY <1>3 DEF Runs
    <3> QED
      BY <1>2, <3>1
  <2> QED
    BY <1>3, <2>1 DEF PowersUpto, Runs
<1>5. IsPower(r)
  <2>1. ASSUME NEW k \in 0 .. n PROVE r[k] = IF k = 0 THEN 1 ELSE 256 * r[k - 1]
    BY <1>4 DEF PowersUpto
  <2>2. r = [k \in 0 .. n |-> r[k]]
    BY <1>3
  <2> QED
    BY ONLY <2>1, <2>2
<1> DEFINE p == CHOOSE p : IsPower(p)
<1>6. IsPower(p)
  BY <1>5
<1>7. p[n] = ByteTo(n)
  BY DEF ByteTo
<1>8. PICK q : q = p
  OBVIOUS
<1>9. IsPower(q) /\ q[n] = ByteTo(n)
  <2> HIDE DEF p, IsPower
  <2> QED
    BY <1>6, <1>7, <1>8
<1> HIDE DEF p
<1>10. Follows(q, 1, g, n, Nat)
  <2>1. q[0] = 1
    BY <1>9
  <2>2. ASSUME NEW k \in 1 .. n, q[k - 1] \in Nat PROVE q[k] = g[k][q[k - 1]]
    <3>1. q[k] = 256 * q[k - 1]
      BY <1>9
    <3> QED
      BY <1>2, <2>2, <3>1
  <2> QED
    BY <2>1, <2>2 DEF Follows
<1>11. SameUpto(q, r, n)
  <2>1. PICK T : T = Nat
    OBVIOUS
  <2>2. PICK one : one = 1
    OBVIOUS
  <2>3. r \in [0 .. n -> T]
    BY <1>3, <2>1
  <2>4. Runs(r, one, g, n)
    BY <1>3, <2>2
  <2>5. Follows(q, one, g, n, T)
    BY <1>10, <2>1, <2>2
  <2> QED
    BY ONLY <2>3, <2>4, <2>5, n \in Nat, RecursionAgrees
<1> QED
  BY <1>3, <1>4, <1>9, <1>11 DEF SameUpto

(* ByteTo is the power of 256. *)
LEMMA ByteToIs ==
  /\ ByteTo(0) = 1
  /\ \A n \in Nat : ByteTo(n) \in Nat /\ ByteTo(n) >= 1 /\ ByteTo(n + 1) = 256 * ByteTo(n)
<1>1. ASSUME NEW n \in Nat, NEW m \in Nat, m <= n, NEW p, PowersUpto(p, n), NEW q, PowersUpto(q, m)
      PROVE  p[m] = q[m] /\ q[m] \in Nat /\ q[m] >= 1
  <2>1. PICK Good : Good = {k \in 0 .. m : p[k] = q[k] /\ q[k] \in Nat /\ q[k] >= 1}
    OBVIOUS
  <2>2. 0 \in Good
    BY <1>1, <2>1 DEF PowersUpto
  <2>3. ASSUME NEW k \in 0 .. m - 1, k \in Good PROVE k + 1 \in Good
    <3>1. k + 1 \in 1 .. m /\ k + 1 \in 1 .. n /\ (k + 1) - 1 = k /\ k + 1 \in 0 .. m
      BY <1>1
    <3>2. p[k + 1] = 256 * p[k] /\ q[k + 1] = 256 * q[k]
      BY <1>1, <3>1 DEF PowersUpto
    <3> QED
      BY <2>1, <2>3, <3>1, <3>2
  <2>4. \A k \in 0 .. m - 1 : k \in Good => k + 1 \in Good
    BY <2>3
  <2>5. \A k \in 0 .. m : k \in Good
    BY <2>2, <2>4, ThroughAll
  <2> QED
    BY <2>1, <2>5
<1>2. ASSUME NEW n \in Nat
      PROVE  ByteTo(n) \in Nat /\ ByteTo(n) >= 1 /\ ByteTo(n + 1) = 256 * ByteTo(n)
  <2>1. PICK p \in [0 .. n -> Nat] : PowersUpto(p, n) /\ p[n] = ByteTo(n)
    BY ByteToReads
  <2>2. PICK q : PowersUpto(q, n + 1) /\ q[n + 1] = ByteTo(n + 1)
    <3>1. PICK m \in Nat : m = n + 1
      OBVIOUS
    <3>2. PICK q : PowersUpto(q, m) /\ q[m] = ByteTo(m)
      BY ByteToReads
    <3> QED
      BY <3>1, <3>2
  <2>3. q[n] = p[n] /\ p[n] \in Nat /\ p[n] >= 1
    <3>1. n + 1 \in Nat /\ n <= n + 1
      OBVIOUS
    <3> QED
      BY <1>1, <2>1, <2>2, <3>1
  <2>4. q[n + 1] = 256 * q[n]
    <3>1. n + 1 \in 1 .. n + 1 /\ (n + 1) - 1 = n
      OBVIOUS
    <3> QED
      BY <2>2, <3>1 DEF PowersUpto
  <2> QED
    BY <2>1, <2>2, <2>3, <2>4
<1>3. ByteTo(0) = 1
  <2>1. PICK p \in [0 .. 0 -> Nat] : PowersUpto(p, 0) /\ p[0] = ByteTo(0)
    BY ByteToReads
  <2> QED
    BY <2>1 DEF PowersUpto
<1> QED
  BY <1>2, <1>3

(* A byte is a natural number below 256. *)
LEMMA ByteIs == \A b : b \in Byte <=> b \in Nat /\ b < 256
  BY DEF Byte

(* The elements of a sequence of bytes. *)
LEMMA BytesAre ==
  ASSUME NEW s \in Seq(Byte)
  PROVE  Len(s) \in Nat /\ \A j \in 1 .. Len(s) : s[j] \in Nat /\ s[j] < 256
<1>1. \A j \in 1 .. Len(s) : s[j] \in Byte
  OBVIOUS
<1>2. Len(s) \in Nat
  OBVIOUS
<1> QED
  BY ONLY <1>1, <1>2, ByteIs

\* What Number reads from the left.
ReadsAs(r, bytes) ==
  r[0] = 0 /\ \A k \in 1 .. Len(bytes) : r[k] = 256 * r[k - 1] + bytes[k]

(* Number reads natural bytes from the left. *)
LEMMA NumberReads ==
  ASSUME NEW bytes \in Seq(Byte)
  PROVE  \E r \in [0 .. Len(bytes) -> Nat] : ReadsAs(r, bytes) /\ r[Len(bytes)] = Number(bytes)
<1> DEFINE n == Len(bytes)
<1>0. n \in Nat /\ \A k \in 1 .. n : bytes[k] \in Byte
  OBVIOUS
<1>1. PICK g : g = [k \in 1 .. n |-> [x \in Nat |-> 256 * x + bytes[k]]]
  OBVIOUS
<1>2. ASSUME NEW k \in 1 .. n, NEW x \in Nat
      PROVE  g[k][x] = 256 * x + bytes[k] /\ g[k][x] \in Nat
  <2>0. bytes[k] \in Nat
    BY <1>0, ByteIs
  <2>1. g[k] = [y \in Nat |-> 256 * y + bytes[k]]
    BY ONLY <1>1, k \in 1 .. n
  <2>2. g[k][x] = 256 * x + bytes[k]
    BY ONLY <2>1, x \in Nat
  <2> QED
    BY ONLY <2>0, <2>2, x \in Nat
<1>3. PICK r \in [0 .. n -> Nat] : Runs(r, 0, g, n)
  BY <1>0, <1>2, RecursionExists
<1> DEFINE IsReading(p) == p = [k \in 0 .. Len(bytes) |-> IF k = 0 THEN 0 ELSE 256 * p[k - 1] + bytes[k]]
<1>4. ReadsAs(r, bytes)
  <2>1. ASSUME NEW k \in 1 .. n PROVE r[k] = 256 * r[k - 1] + bytes[k]
    <3>1. r[k] = g[k][r[k - 1]] /\ r[k - 1] \in Nat
      BY <1>0, <1>3 DEF Runs
    <3> QED
      BY <1>2, <3>1
  <2> QED
    BY <1>3, <2>1 DEF ReadsAs, Runs
<1>5. IsReading(r)
  <2>1. ASSUME NEW k \in 0 .. n PROVE r[k] = IF k = 0 THEN 0 ELSE 256 * r[k - 1] + bytes[k]
    BY <1>0, <1>4 DEF ReadsAs
  <2>2. r = [k \in 0 .. n |-> r[k]]
    BY <1>3
  <2> QED
    BY ONLY <2>1, <2>2
<1> DEFINE p == CHOOSE p : IsReading(p)
<1>6. IsReading(p)
  BY <1>5
<1>7. p[n] = Number(bytes)
  BY DEF Number
<1>8. PICK q : q = p
  OBVIOUS
<1>9. IsReading(q) /\ q[n] = Number(bytes)
  <2> HIDE DEF p, IsReading
  <2> QED
    BY <1>6, <1>7, <1>8
<1> HIDE DEF p
<1>10. Follows(q, 0, g, n, Nat)
  <2>1. q[0] = 0
    BY <1>0, <1>9
  <2>2. ASSUME NEW k \in 1 .. n, q[k - 1] \in Nat PROVE q[k] = g[k][q[k - 1]]
    <3>1. q[k] = 256 * q[k - 1] + bytes[k]
      BY <1>0, <1>9
    <3> QED
      BY <1>2, <2>2, <3>1
  <2> QED
    BY <2>1, <2>2 DEF Follows
<1>11. SameUpto(q, r, n)
  <2>1. PICK zero : zero = 0
    OBVIOUS
  <2>2. Runs(r, zero, g, n) /\ Follows(q, zero, g, n, Nat)
    BY <1>3, <1>10, <2>1
  <2> QED
    BY ONLY <1>0, <1>3, <2>2, RecursionAgrees
<1> QED
  BY <1>0, <1>3, <1>4, <1>9, <1>11 DEF SameUpto

\* The values of a u16.
Short == {x \in Nat : x < 65536}

\* The sums of the first values of d, modulo 2^16.
IsSums(r, d, n) ==
  r = [k \in 0 .. n |-> IF k = 0 THEN 0 ELSE (r[k - 1] + d[k]) % U16]

(* Wrapped sums exist and are u16 values. *)
LEMMA SumsExist ==
  ASSUME NEW n \in Nat, NEW d, \A k \in 1 .. n : d[k] \in Nat
  PROVE  \E r \in [0 .. n -> Short] : IsSums(r, d, n)
<1>1. PICK g : g = [k \in 1 .. n |-> [x \in Short |-> (x + d[k]) % U16]]
  OBVIOUS
<1>2. ASSUME NEW k \in 1 .. n, NEW x \in Short
      PROVE  g[k][x] = (x + d[k]) % U16 /\ g[k][x] \in Short
  <2>1. g[k] = [y \in Short |-> (y + d[k]) % U16]
    BY ONLY <1>1, k \in 1 .. n
  <2>2. g[k][x] = (x + d[k]) % U16
    BY ONLY <2>1, x \in Short
  <2> QED
    BY <2>2 DEF U16, Short
<1>3. PICK r \in [0 .. n -> Short] : Runs(r, 0, g, n)
  <2>1. PICK T : T = Short
    OBVIOUS
  <2>2. PICK zero : zero = 0
    OBVIOUS
  <2>0. 0 \in Short
    BY DEF Short
  <2>3. zero \in T /\ \A k \in 1 .. n : \A x \in T : g[k][x] \in T
    BY <1>2, <2>0, <2>1, <2>2
  <2>4. \E r \in [0 .. n -> T] : Runs(r, zero, g, n)
    BY <2>3, RecursionExists
  <2> QED
    BY <2>1, <2>2, <2>4
<1>4. ASSUME NEW k \in 0 .. n PROVE r[k] = IF k = 0 THEN 0 ELSE (r[k - 1] + d[k]) % U16
  <2>1. CASE k = 0
    BY <1>3, <2>1 DEF Runs
  <2>2. CASE k # 0
    <3>1. k \in 1 .. n /\ k - 1 \in 0 .. n
      BY <2>2
    <3>2. r[k] = g[k][r[k - 1]] /\ r[k - 1] \in Short
      BY <1>3, <3>1 DEF Runs
    <3> QED
      BY <1>2, <2>2, <3>1, <3>2
  <2> QED
    BY <2>1, <2>2
<1>5. r = [k \in 0 .. n |-> r[k]]
  BY <1>3
<1>6. IsSums(r, d, n)
  BY ONLY <1>4, <1>5 DEF IsSums
<1> QED
  BY <1>3, <1>6

(* There is one such list of sums. *)
LEMMA SumsAreOne ==
  ASSUME NEW n \in Nat, NEW d, NEW r, NEW q, IsSums(r, d, n), IsSums(q, d, n)
  PROVE  q = r
<1>1. PICK Good : Good = {k \in 0 .. n : q[k] = r[k]}
  OBVIOUS
<1>2. 0 \in Good
  BY <1>1 DEF IsSums
<1>3. ASSUME NEW k \in 0 .. n - 1, k \in Good PROVE k + 1 \in Good
  <2>1. k + 1 \in 0 .. n /\ k + 1 # 0 /\ (k + 1) - 1 = k
    OBVIOUS
  <2>2. q[k + 1] = (q[k] + d[k + 1]) % U16 /\ r[k + 1] = (r[k] + d[k + 1]) % U16
    BY <2>1 DEF IsSums
  <2>3. q[k] = r[k]
    BY <1>1, <1>3
  <2> QED
    BY <1>1, <2>1, <2>2, <2>3
<1>4. \A k \in 0 .. n - 1 : k \in Good => k + 1 \in Good
  BY <1>3
<1>5. \A k \in 0 .. n : k \in Good
  BY <1>2, <1>4, ThroughAll
<1>6. \A k \in 0 .. n : q[k] = r[k]
  BY <1>1, <1>5
<1>7. q = [k \in 0 .. n |-> q[k]] /\ r = [k \in 0 .. n |-> r[k]]
  BY DEF IsSums
<1> QED
  BY ONLY <1>6, <1>7

\* The two sums of fletcher16 over bytes.
IsFletcher(one, two, bytes) ==
  /\ one \in [0 .. Len(bytes) -> Short] /\ IsSums(one, bytes, Len(bytes))
  /\ two \in [0 .. Len(bytes) -> Short] /\ IsSums(two, one, Len(bytes))

\* What fletcher16 makes of them.
Checksum(one, two) == 256 * BitOr(two % 256, one \div 256) + (one % 256)

(* Fletcher16 is computed from two wrapped sums. *)
LEMMA FletcherReads ==
  ASSUME NEW bytes \in Seq(Byte)
  PROVE  \E one, two : /\ IsFletcher(one, two, bytes)
                       /\ Fletcher16(bytes) = Checksum(one[Len(bytes)], two[Len(bytes)])
<1>0. Len(bytes) \in Nat /\ \A k \in 1 .. Len(bytes) : bytes[k] \in Nat
  BY ByteIs
<1> DEFINE IsOne(p) == p = [k \in 0 .. Len(bytes) |-> IF k = 0 THEN 0 ELSE (p[k - 1] + bytes[k]) % U16]
           one == CHOOSE p : IsOne(p)
           IsTwo(p) == p = [k \in 0 .. Len(bytes) |-> IF k = 0 THEN 0 ELSE (p[k - 1] + one[k]) % U16]
           two == CHOOSE p : IsTwo(p)
<1>1. Fletcher16(bytes) = 256 * BitOr(two[Len(bytes)] % 256, one[Len(bytes)] \div 256) + (one[Len(bytes)] % 256)
  BY DEF Fletcher16
<1>2. PICK f \in [0 .. Len(bytes) -> Short] : IsSums(f, bytes, Len(bytes))
  BY <1>0, SumsExist
<1>3. IsOne(one)
  BY <1>2 DEF IsSums
<1>4. PICK o : o = one
  OBVIOUS
<1>5. PICK t : t = two
  OBVIOUS
<1>6. IsSums(o, bytes, Len(bytes))
  <2> HIDE DEF one
  <2> QED
    BY ONLY <1>3, <1>4 DEF IsSums
<1>7. o = f
  BY <1>0, <1>2, <1>6, SumsAreOne
<1>8. PICK h \in [0 .. Len(bytes) -> Short] : IsSums(h, o, Len(bytes))
  <2>1. \A k \in 1 .. Len(bytes) : o[k] \in Nat
    BY <1>0, <1>2, <1>7
  <2> QED
    BY <1>0, <2>1, SumsExist
<1>9. IsTwo(h)
  <2> HIDE DEF one
  <2> QED
    BY ONLY <1>4, <1>8 DEF IsSums
<1>10. IsTwo(two)
  BY <1>9
<1>11. IsSums(t, o, Len(bytes))
  <2> HIDE DEF one, two
  <2> QED
    BY ONLY <1>4, <1>5, <1>10 DEF IsSums
<1>12. t = h
  BY <1>0, <1>8, <1>11, SumsAreOne
<1>13. Fletcher16(bytes) = Checksum(o[Len(bytes)], t[Len(bytes)])
  <2> HIDE DEF one, two
  <2> QED
    BY ONLY <1>1, <1>4, <1>5 DEF Checksum
<1>14. IsFletcher(o, t, bytes)
  BY <1>2, <1>6, <1>7, <1>8, <1>11, <1>12 DEF IsFletcher
<1> QED
  BY <1>13, <1>14

(* The or of two bytes is a byte. *)
LEMMA OrIsByte == ASSUME NEW x \in Nat, NEW y \in Nat PROVE BitOr(x, y) \in Nat /\ BitOr(x, y) < 256
<1>1. ASSUME NEW p \in Nat PROVE EitherBit(x, y, p) \in Nat /\ EitherBit(x, y, p) <= p
  BY DEF EitherBit
<1> QED
  BY <1>1 DEF BitOr

(* The checksum is a u16 value whose lower byte is the lower byte of the sum. *)
LEMMA ChecksumIs ==
  ASSUME NEW one \in Short, NEW two \in Short
  PROVE  /\ Checksum(one, two) \in Nat /\ Checksum(one, two) < 65536
         /\ Checksum(one, two) % 256 = one % 256
<1>0. one \in Nat /\ two \in Nat /\ one < 65536
  BY DEF Short
<1>1. two % 256 \in Nat /\ one \div 256 \in Nat
  BY <1>0
<1>2. PICK b : b = BitOr(two % 256, one \div 256)
  OBVIOUS
<1>3. b \in Nat /\ b < 256
  BY <1>1, <1>2, OrIsByte
<1>4. Checksum(one, two) = 256 * b + (one % 256)
  BY <1>2 DEF Checksum
<1> QED
  BY ONLY <1>0, <1>3, <1>4

-----------------------------------------------------------------------------
(* Words as bytes.                                                         *)

(* A common factor of products cancels.                                      *)
LEMMA Cancels ==
  ASSUME NEW a \in Int, NEW b \in Int, NEW p \in Nat, a * p < b * p
  PROVE  a < b
<1> SUFFICES ASSUME b <= a PROVE FALSE
  OBVIOUS
<1>1. PICK d \in Nat : a = b + d
  <2>1. a - b \in Nat /\ a = b + (a - b)
    OBVIOUS
  <2> QED
    BY <2>1
<1>2. p * (b + d) = p * b + p * d /\ p * b \in Int /\ p * d \in Nat
  OBVIOUS
<1>3. p * a = a * p /\ p * b = b * p
  OBVIOUS
<1> QED
  BY <1>1, <1>2, <1>3

(* The digits of a quotient, in base 256. *)
LEMMA Quotients ==
  ASSUME NEW n \in Nat, NEW p \in Nat, p >= 1
  PROVE  n \div p = 256 * (n \div (256 * p)) + ((n \div p) % 256)
<1>1. PICK q \in Nat : q = n \div p /\ q * p <= n /\ n < q * p + p
  BY RoundsDown
<1>2. PICK w \in Nat : w = 256 * p /\ w > 0
  BY p >= 1
<1>3. PICK u \in Nat : u = n \div w /\ u * w <= n /\ n < u * w + w
  BY <1>2, RoundsDown
<1>4. /\ u * w = (256 * u) * p /\ (256 * u) * p \in Int
      /\ u * w + w = (256 * u + 256) * p
      /\ q * p + p = (q + 1) * p /\ (q + 1) * p \in Int /\ q * p \in Int
  BY ONLY <1>1, <1>2, <1>3, p \in Nat, q \in Nat, u \in Nat
<1>5. (256 * u) * p < (q + 1) * p /\ q * p < (256 * u + 256) * p
  BY <1>1, <1>3, <1>4
<1>6. 256 * u < q + 1
  <2>1. 256 * u \in Int /\ q + 1 \in Int
    OBVIOUS
  <2> QED
    BY ONLY <1>5, <2>1, p \in Nat, Cancels
<1>7. q < 256 * u + 256
  <2>1. 256 * u + 256 \in Int /\ q \in Int
    OBVIOUS
  <2> QED
    BY ONLY <1>5, <2>1, p \in Nat, Cancels
<1>8. q = 256 * u + (q % 256)
  BY <1>6, <1>7
<1> QED
  BY <1>1, <1>2, <1>3, <1>8

(* A word in bytes is a sequence of bytes, the quotients by the powers of 256. *)
LEMMA BigEndianIs ==
  ASSUME NEW n \in Nat, NEW k \in Nat
  PROVE  /\ BigEndian(n, k) \in Seq(Byte) /\ Len(BigEndian(n, k)) = k
         /\ \A i \in 1 .. k : BigEndian(n, k)[i] = (n \div ByteTo(k - i)) % 256
<1>1. PICK s : s = [i \in 1 .. k |-> (n \div ByteTo(k - i)) % 256]
  OBVIOUS
<1>2. ASSUME NEW i \in 1 .. k PROVE s[i] = (n \div ByteTo(k - i)) % 256 /\ s[i] \in Byte
  <2>1. PICK p : p = ByteTo(k - i)
    OBVIOUS
  <2>2. p \in Nat /\ p > 0
    <3>1. k - i \in Nat
      OBVIOUS
    <3> QED
      BY <2>1, <3>1, ByteToIs
  <2>3. n \div p \in Nat
    BY <2>2, RoundsDown
  <2>4. PICK q \in Nat : q = n \div p
    BY <2>3
  <2>5. s[i] = q % 256
    BY <1>1, <2>1, <2>4
  <2> QED
    BY <1>1, <2>4, <2>5, ByteIs
<1>3. s = [i \in 1 .. k |-> s[i]]
  BY <1>1
<1>4. s \in [1 .. k -> Byte]
  BY <1>2, <1>3
<1>5. s \in Seq(Byte) /\ Len(s) = k
  BY <1>4
<1>6. BigEndian(n, k) = s
  BY <1>1 DEF BigEndian
<1> QED
  BY <1>2, <1>5, <1>6

(* What is written with enough bytes is read again. *)
LEMMA NumberOfWord ==
  ASSUME NEW k \in Nat, NEW n \in Nat, n < ByteTo(k)
  PROVE  Number(BigEndian(n, k)) = n
<1>1. PICK s : s = BigEndian(n, k)
  OBVIOUS
<1>2. /\ s \in Seq(Byte) /\ Len(s) = k
      /\ \A i \in 1 .. k : s[i] = (n \div ByteTo(k - i)) % 256
  BY <1>1, BigEndianIs
<1>3. PICK r \in [0 .. k -> Nat] : ReadsAs(r, s) /\ r[k] = Number(s)
  BY <1>2, NumberReads
<1>4. PICK Good : Good = {j \in 0 .. k : r[j] = n \div ByteTo(k - j)}
  OBVIOUS
<1>5. 0 \in Good
  <2>1. PICK p \in Nat : p = ByteTo(k) /\ n < p
    BY ByteToIs
  <2>2. n \div p = 0
    BY <2>1
  <2> QED
    BY <1>3, <1>4, <2>1, <2>2 DEF ReadsAs
<1>6. ASSUME NEW j \in 0 .. k - 1, j \in Good PROVE j + 1 \in Good
  <2>1. j + 1 \in 1 .. k /\ (j + 1) - 1 = j /\ j + 1 \in 0 .. k
    OBVIOUS
  <2>2. r[j + 1] = 256 * r[j] + s[j + 1]
    BY <1>2, <1>3, <2>1 DEF ReadsAs
  <2>3. s[j + 1] = (n \div ByteTo(k - (j + 1))) % 256
    BY <1>2, <2>1
  <2>4. PICK m \in Nat : m = k - (j + 1) /\ k - j = m + 1
    OBVIOUS
  <2>5. PICK p \in Nat : p = ByteTo(m) /\ p >= 1 /\ ByteTo(m + 1) = 256 * p
    BY ByteToIs
  <2>6. n \div p = 256 * (n \div (256 * p)) + ((n \div p) % 256)
    <3>1. p \in Nat /\ p >= 1
      BY <2>5
    <3> QED
      BY ONLY <3>1, n \in Nat, Quotients
  <2>7. r[j] = n \div (256 * p)
    BY <1>4, <1>6, <2>4, <2>5
  <2>8. r[j + 1] = n \div p
    BY <2>2, <2>3, <2>4, <2>5, <2>6, <2>7
  <2> QED
    BY <1>4, <2>1, <2>4, <2>5, <2>8
<1>7. \A j \in 0 .. k - 1 : j \in Good => j + 1 \in Good
  BY <1>6
<1>8. k \in Good
  <2>1. \A j \in 0 .. k : j \in Good
    BY <1>5, <1>7, ThroughAll
  <2> QED
    BY <2>1
<1>9. r[k] = n \div 1
  BY <1>4, <1>8, ByteToIs
<1> QED
  BY <1>1, <1>3, <1>9

(* Two bytes are read as one number. *)
LEMMA NumberOfTwo ==
  ASSUME NEW s \in Seq(Byte), Len(s) = 2
  PROVE  Number(s) = 256 * s[1] + s[2]
<1>1. PICK r \in [0 .. 2 -> Nat] : ReadsAs(r, s) /\ r[2] = Number(s)
  BY NumberReads
<1>2. s[1] \in Nat /\ s[2] \in Nat
  <2>1. 1 \in 1 .. Len(s) /\ 2 \in 1 .. Len(s)
    BY ONLY Len(s) = 2
  <2> QED
    BY ONLY <2>1, s \in Seq(Byte), BytesAre
<1>3. r[0] = 0 /\ r[1] = 256 * r[0] + s[1] /\ r[2] = 256 * r[1] + s[2]
  BY <1>1 DEF ReadsAs
<1> QED
  BY <1>1, <1>2, <1>3

-----------------------------------------------------------------------------
(* A cursor as bytes.                                                      *)

(* What stands at some place of a sequence is its part there. *)
LEMMA PartAt ==
  ASSUME NEW s \in Seq(Byte), NEW v \in Seq(Byte), NEW o \in Nat, o + Len(v) <= Len(s),
         \A i \in 1 .. Len(v) : s[o + i] = v[i]
  PROVE  SubSeq(s, o + 1, o + Len(v)) = v
<1>1. PICK n \in Nat : n = Len(v)
  OBVIOUS
<1>2. \A i \in o + 1 .. o + n : s[i] \in Byte
  <2>1. \A i \in 1 .. Len(s) : s[i] \in Byte
    OBVIOUS
  <2> QED
    BY <1>1, <2>1
<1>3. PICK t : t = SubSeq(s, o + 1, o + n)
  OBVIOUS
<1>4. /\ t \in Seq(Byte)
      /\ Len(t) = IF o + 1 <= o + n THEN (o + n) - (o + 1) + 1 ELSE 0
      /\ \A i \in 1 .. (o + n) - (o + 1) + 1 : t[i] = s[o + 1 + i - 1]
  <2>1. o + 1 \in Int /\ o + n \in Int
    OBVIOUS
  <2> QED
    BY <1>2, <1>3, <2>1, SubSeqProperties
<1>5. Len(t) = n
  BY <1>4
<1>6. \A i \in 1 .. n : t[i] = v[i]
  <2> SUFFICES ASSUME NEW i \in 1 .. n PROVE t[i] = v[i]
    OBVIOUS
  <2>1. i \in 1 .. (o + n) - (o + 1) + 1 /\ o + 1 + i - 1 = o + i
    OBVIOUS
  <2> QED
    BY <1>1, <1>4, <2>1
<1> QED
  BY <1>1, <1>3, <1>4, <1>5, <1>6, SeqEqual

\* A part starts with s at its place.
Holds(s, o, v) == o + Len(v) <= Len(s) /\ \A i \in 1 .. Len(v) : s[o + i] = v[i]

(* Two sequences in a row. *)
LEMMA Joined ==
  ASSUME NEW s \in Seq(Byte), NEW t \in Seq(Byte)
  PROVE  /\ s \o t \in Seq(Byte) /\ Len(s \o t) = Len(s) + Len(t)
         /\ Holds(s \o t, 0, s) /\ Holds(s \o t, Len(s), t)
<1>1. /\ s \o t \in Seq(Byte) /\ Len(s \o t) = Len(s) + Len(t)
      /\ \A i \in 1 .. Len(s) + Len(t) : (s \o t)[i] = IF i <= Len(s) THEN s[i] ELSE t[i - Len(s)]
  BY ConcatProperties
<1>2. PICK u : u = s \o t
  OBVIOUS
<1>3. Len(s) \in Nat /\ Len(t) \in Nat
  OBVIOUS
<1>4. ASSUME NEW i \in 1 .. Len(s) PROVE u[0 + i] = s[i]
  <2>1. i \in 1 .. Len(s) + Len(t) /\ 0 + i = i /\ i <= Len(s)
    BY <1>3
  <2> QED
    BY <1>1, <1>2, <2>1
<1>5. ASSUME NEW i \in 1 .. Len(t) PROVE u[Len(s) + i] = t[i]
  <2>1. /\ Len(s) + i \in 1 .. Len(s) + Len(t) /\ ~(Len(s) + i <= Len(s))
        /\ (Len(s) + i) - Len(s) = i
    BY <1>3
  <2> QED
    BY <1>1, <1>2, <2>1
<1> QED
  BY <1>1, <1>2, <1>3, <1>4, <1>5 DEF Holds

(* What stands in the first of two sequences stands in both in a row. *)
LEMMA HoldsInJoined ==
  ASSUME NEW s \in Seq(Byte), NEW t \in Seq(Byte), NEW v \in Seq(Byte), NEW o \in Nat, Holds(s, o, v)
  PROVE  Holds(s \o t, o, v)
<1>1. Holds(s \o t, 0, s) /\ Len(s \o t) = Len(s) + Len(t)
  BY Joined
<1>2. PICK u : u = s \o t
  OBVIOUS
<1>3. Len(s) \in Nat /\ Len(t) \in Nat /\ Len(v) \in Nat
  OBVIOUS
<1>4. ASSUME NEW i \in 1 .. Len(v) PROVE u[o + i] = v[i]
  <2>1. o + i \in 1 .. Len(s) /\ 0 + (o + i) = o + i
    BY <1>3 DEF Holds
  <2>2. u[o + i] = s[o + i]
    BY <1>1, <1>2, <2>1 DEF Holds
  <2> QED
    BY <2>2 DEF Holds
<1>5. o + Len(v) <= Len(u)
  BY <1>1, <1>2, <1>3 DEF Holds
<1> QED
  BY <1>2, <1>4, <1>5 DEF Holds

\* Cursors of which the code's types fit: a subject whose length fits u16.
CursorOK(c) ==
  /\ c.subject \in Seq(Byte) /\ Len(c.subject) < U16
  /\ c.at \in Word /\ c.id \in Word

\* A sequence starts with the body of a cursor.
StartsWith(s, c) ==
  /\ Holds(s, 0, BigEndian(Len(c.subject), 2))
  /\ Holds(s, 2, c.subject)
  /\ Holds(s, 2 + Len(c.subject), BigEndian(c.at, WordBytes))
  /\ Holds(s, 2 + Len(c.subject) + WordBytes, BigEndian(c.id, WordBytes))

BodyLen(c) == 2 + Len(c.subject) + 2 * WordBytes

(* A word is a natural number that its bytes can hold. *)
LEMMA WordIs ==
  \A w : w \in Word <=> w \in Nat /\ w < ByteTo(WordBytes)
<1>1. ByteTo(WordBytes) \in Nat /\ WordBytes \in Nat
  BY PagingAssumption, ByteToIs
<1> QED
  BY <1>1 DEF Word

(* The body's parts stand where they belong. *)
LEMMA BodyIs ==
  ASSUME NEW c, CursorOK(c)
  PROVE  Body(c) \in Seq(Byte) /\ Len(Body(c)) = BodyLen(c) /\ StartsWith(Body(c), c)
<1>1. PICK l : l = Len(c.subject)
  OBVIOUS
<1>2. l \in Nat /\ l % U16 = l /\ c.subject \in Seq(Byte)
  <2>1. c.subject \in Seq(Byte) /\ Len(c.subject) < 65536
    BY DEF CursorOK, U16
  <2>2. Len(c.subject) \in Nat
    BY <2>1
  <2>3. l \in Nat /\ l < 65536
    BY ONLY <1>1, <2>1, <2>2
  <2>4. l % U16 = l
    BY ONLY <2>3 DEF U16
  <2> QED
    BY <2>1, <2>3, <2>4
<1>3. WordBytes \in Nat /\ c.at \in Nat /\ c.id \in Nat
  BY PagingAssumption, WordIs DEF CursorOK
<1>4. PICK a \in Seq(Byte) : a = BigEndian(l, 2) /\ Len(a) = 2
  <2>1. PICK two \in Nat : two = 2
    OBVIOUS
  <2>2. BigEndian(l, two) \in Seq(Byte) /\ Len(BigEndian(l, two)) = two
    BY ONLY <1>2, two \in Nat, BigEndianIs
  <2> QED
    BY ONLY <2>1, <2>2
<1>5. PICK b \in Seq(Byte) : b = c.subject /\ Len(b) = l
  BY <1>1, <1>2
<1>6. PICK d \in Seq(Byte) : d = BigEndian(c.at, WordBytes) /\ Len(d) = WordBytes
  BY <1>3, BigEndianIs
<1>7. PICK e \in Seq(Byte) : e = BigEndian(c.id, WordBytes) /\ Len(e) = WordBytes
  BY <1>3, BigEndianIs
<1>8. Body(c) = ((a \o b) \o d) \o e
  BY <1>1, <1>2, <1>4, <1>5, <1>6, <1>7 DEF Body
<1>9. PICK s \in Seq(Byte) : s = a \o b /\ Len(s) = 2 + l /\ Holds(s, 0, a) /\ Holds(s, 2, b)
  <2>1. /\ a \o b \in Seq(Byte) /\ Len(a \o b) = Len(a) + Len(b)
        /\ Holds(a \o b, 0, a) /\ Holds(a \o b, Len(a), b)
    BY Joined
  <2> QED
    BY ONLY <1>4, <1>5, <2>1
<1>10. PICK t \in Seq(Byte) : /\ t = s \o d /\ Len(t) = 2 + l + WordBytes
                             /\ Holds(t, 0, a) /\ Holds(t, 2, b) /\ Holds(t, 2 + l, d)
  <2>1. s \o d \in Seq(Byte) /\ Len(s \o d) = 2 + l + WordBytes /\ Holds(s \o d, 2 + l, d)
    BY <1>6, <1>9, Joined
  <2>2. Holds(s \o d, 0, a) /\ Holds(s \o d, 2, b)
    BY <1>9, HoldsInJoined
  <2> QED
    BY <2>1, <2>2
<1>11. PICK u \in Seq(Byte) : /\ u = t \o e /\ Len(u) = 2 + l + WordBytes + WordBytes
                             /\ Holds(u, 0, a) /\ Holds(u, 2, b) /\ Holds(u, 2 + l, d)
                             /\ Holds(u, 2 + l + WordBytes, e)
  <2>1. /\ t \o e \in Seq(Byte) /\ Len(t \o e) = 2 + l + WordBytes + WordBytes
        /\ Holds(t \o e, 2 + l + WordBytes, e)
    BY <1>7, <1>10, Joined
  <2>2. Holds(t \o e, 0, a) /\ Holds(t \o e, 2, b) /\ Holds(t \o e, 2 + l, d)
    <3>1. 2 + l \in Nat
      BY <1>2
    <3> QED
      BY <1>10, <3>1, HoldsInJoined
  <2> QED
    BY <2>1, <2>2
<1>12. u = Body(c)
  BY <1>8, <1>9, <1>10, <1>11
<1>13. Len(u) = BodyLen(c)
  <2>1. Len(u) = 2 + l + WordBytes + WordBytes
    BY <1>11
  <2>2. 2 + l + WordBytes + WordBytes = 2 + l + 2 * WordBytes
    BY ONLY <1>2, <1>3
  <2> QED
    BY ONLY <1>1, <2>1, <2>2 DEF BodyLen
<1>14. StartsWith(u, c)
  BY ONLY <1>1, <1>4, <1>5, <1>6, <1>7, <1>11 DEF StartsWith
<1> QED
  BY <1>12, <1>13, <1>14

\* What a cursor is decoded to.
Decoded(c) == [valid |-> TRUE, subject |-> c.subject, at |-> c.at, id |-> c.id]

(* A part is found from its place on. *)
LEMMA PartHeld ==
  ASSUME NEW s \in Seq(Byte), NEW v \in Seq(Byte), NEW o \in Nat, Holds(s, o, v)
  PROVE  SubSeq(s, o + 1, o + Len(v)) = v
<1>1. o + Len(v) <= Len(s) /\ \A i \in 1 .. Len(v) : s[o + i] = v[i]
  BY DEF Holds
<1> QED
  BY <1>1, PartAt

\* What the fields of rest are read as.
FieldsOf(rest) ==
  LET size == Number(SubSeq(rest, 1, 2))
      from == 2 + size
  IN  [ valid   |-> TRUE,
        subject |-> SubSeq(rest, 3, from),
        at      |-> Number(SubSeq(rest, from + 1, from + WordBytes)),
        id      |-> Number(SubSeq(rest, from + WordBytes + 1, from + 2 * WordBytes)) ]

(* The length of the subject is read from the first two bytes. *)
LEMMA SizeRead ==
  ASSUME NEW l \in Nat, l < 65536, NEW rest \in Seq(Byte), Holds(rest, 0, BigEndian(l, 2))
  PROVE  Number(SubSeq(rest, 1, 2)) = l
<1>1. SubSeq(rest, 1, 2) = BigEndian(l, 2)
  <2>0. PICK two \in Nat : two = 2
    OBVIOUS
  <2>1. PICK a \in Seq(Byte) : a = BigEndian(l, 2) /\ Len(a) = 2
    <3>1. BigEndian(l, two) \in Seq(Byte) /\ Len(BigEndian(l, two)) = two
      BY ONLY <2>0, l \in Nat, BigEndianIs
    <3> QED
      BY <2>0, <3>1
  <2>2. Holds(rest, 0, a)
    BY <2>1
  <2>3. SubSeq(rest, 0 + 1, 0 + Len(a)) = a
    BY <2>2, PartHeld
  <2> QED
    BY <2>1, <2>3
<1>2. Number(BigEndian(l, 2)) = l
  <2>1. ByteTo(2) = 65536
    <3>1. ByteTo(0) = 1 /\ ByteTo(0 + 1) = 256 * ByteTo(0) /\ ByteTo(1 + 1) = 256 * ByteTo(1)
      BY ByteToIs
    <3> QED
      BY <3>1
  <2>2. l < ByteTo(2)
    BY <2>1
  <2>3. PICK two \in Nat : two = 2
    OBVIOUS
  <2>4. l < ByteTo(two)
    BY <2>2, <2>3
  <2>5. Number(BigEndian(l, two)) = l
    BY <2>4, NumberOfWord
  <2> QED
    BY <2>3, <2>5
<1> QED
  BY ONLY <1>1, <1>2

(* The fields of what starts with a cursor's body are the cursor's. *)
LEMMA FieldsRead ==
  ASSUME NEW c, CursorOK(c), NEW rest \in Seq(Byte), StartsWith(rest, c)
  PROVE  /\ Number(SubSeq(rest, 1, 2)) = Len(c.subject)
         /\ FieldsOf(rest) = Decoded(c)
<1>1. c.subject \in Seq(Byte) /\ Len(c.subject) < 65536
  BY DEF CursorOK, U16
<1>2. PICK l \in Nat : l = Len(c.subject)
  BY <1>1
<1>3. PICK W \in Nat : W = WordBytes
  BY PagingAssumption
<1>4. c.at \in Nat /\ c.id \in Nat /\ c.at < ByteTo(W) /\ c.id < ByteTo(W)
  BY <1>3, WordIs DEF CursorOK
<1>5. Holds(rest, 0, BigEndian(l, 2))
  BY <1>2 DEF StartsWith
<1>6. Number(SubSeq(rest, 1, 2)) = l
  BY <1>1, <1>2, <1>5, SizeRead
<1>7. SubSeq(rest, 3, 2 + l) = c.subject
  <2>1. Holds(rest, 2, c.subject)
    BY DEF StartsWith
  <2>2. SubSeq(rest, 2 + 1, 2 + Len(c.subject)) = c.subject
    BY <1>1, <2>1, PartHeld
  <2> QED
    BY <1>2, <2>2
<1>8. Number(SubSeq(rest, 2 + l + 1, 2 + l + W)) = c.at
  <2>1. PICK a \in Seq(Byte) : a = BigEndian(c.at, W) /\ Len(a) = W
    BY <1>4, BigEndianIs
  <2>2. PICK o \in Nat : o = 2 + l
    OBVIOUS
  <2>3. Holds(rest, o, a)
    BY <1>2, <1>3, <2>1, <2>2 DEF StartsWith
  <2>4. SubSeq(rest, o + 1, o + Len(a)) = a
    BY <2>3, PartHeld
  <2>5. Number(a) = c.at
    BY <1>4, <2>1, NumberOfWord
  <2> QED
    BY <2>1, <2>2, <2>4, <2>5
<1>9. Number(SubSeq(rest, 2 + l + W + 1, 2 + l + 2 * W)) = c.id
  <2>1. PICK a \in Seq(Byte) : a = BigEndian(c.id, W) /\ Len(a) = W
    BY <1>4, BigEndianIs
  <2>2. PICK o \in Nat : o = 2 + l + W
    OBVIOUS
  <2>3. Holds(rest, o, a)
    BY <1>2, <1>3, <2>1, <2>2 DEF StartsWith
  <2>4. SubSeq(rest, o + 1, o + Len(a)) = a
    BY <2>3, PartHeld
  <2>5. Number(a) = c.id
    BY <1>4, <2>1, NumberOfWord
  <2>6. 2 + l + 2 * W = o + W
    BY <2>2
  <2> QED
    BY <2>1, <2>2, <2>4, <2>5, <2>6
<1>11. FieldsOf(rest) = Decoded(c)
  BY ONLY <1>3, <1>6, <1>7, <1>8, <1>9 DEF FieldsOf, Decoded
<1> QED
  BY <1>2, <1>6, <1>11

\* The checksum that a sequence carries at its end is that of the rest.
Fits(s) == Fletcher16(SubSeq(s, 1, Len(s) - 2)) = Number(SubSeq(s, Len(s) - 1, Len(s)))

(* How a sequence is decoded, step by step. *)
LEMMA DecodeIs ==
  ASSUME NEW s \in Seq(Byte), NEW rest, rest = SubSeq(s, 1, Len(s) - 2)
  PROVE  /\ Len(s) < 4 + 2 * WordBytes => Decode(s) = Invalid
         /\ ~Fits(s) => Decode(s) = Invalid
         /\ Len(rest) < 2 + Number(SubSeq(rest, 1, 2)) + 2 * WordBytes => Decode(s) = Invalid
         /\ Decode(s) \in {Invalid, FieldsOf(rest)}
         /\ (/\ ~(Len(s) < 4 + 2 * WordBytes) /\ Fits(s)
             /\ ~(Len(rest) < 2 + Number(SubSeq(rest, 1, 2)) + 2 * WordBytes))
               => Decode(s) = FieldsOf(rest)
  BY DEF Decode, Fits, FieldsOf

(* The first part of a sequence of bytes. *)
LEMMA FirstPart ==
  ASSUME NEW s \in Seq(Byte), NEW n \in Nat, n <= Len(s)
  PROVE  /\ SubSeq(s, 1, n) \in Seq(Byte) /\ Len(SubSeq(s, 1, n)) = n
         /\ \A i \in 1 .. n : SubSeq(s, 1, n)[i] = s[i]
<1>1. \A i \in 1 .. n : s[i] \in Byte
  <2>1. \A i \in 1 .. Len(s) : s[i] \in Byte
    OBVIOUS
  <2> QED
    BY <2>1
<1>2. PICK one \in Int : one = 1
  OBVIOUS
<1>3. n \in Int /\ \A i \in one .. n : s[i] \in Byte
  BY <1>1, <1>2
<1>4. PICK t : t = SubSeq(s, one, n)
  OBVIOUS
<1>5. /\ t \in Seq(Byte) /\ Len(t) = IF one <= n THEN n - one + 1 ELSE 0
      /\ \A i \in 1 .. n - one + 1 : t[i] = s[one + i - 1]
  BY <1>3, <1>4, SubSeqProperties
<1>6. Len(t) = n
  BY <1>2, <1>5
<1>7. \A i \in 1 .. n : t[i] = s[i]
  <2> SUFFICES ASSUME NEW i \in 1 .. n PROVE t[i] = s[i]
    OBVIOUS
  <2>1. i \in 1 .. n - one + 1 /\ one + i - 1 = i
    BY <1>2
  <2> QED
    BY <1>5, <2>1
<1> QED
  BY <1>2, <1>4, <1>5, <1>6, <1>7

\* s and t agree on their first n bytes.
AgreeUpto(s, t, n) == \A i \in 1 .. n : s[i] = t[i]

(* What agrees with a part that another holds, holds it as well. *)
LEMMA HoldsAgain ==
  ASSUME NEW s \in Seq(Byte), NEW t \in Seq(Byte), NEW v \in Seq(Byte), NEW o \in Nat, NEW n \in Nat,
         Holds(t, o, v), AgreeUpto(s, t, n), n <= Len(s), o + Len(v) <= n
  PROVE  Holds(s, o, v)
<1>1. Len(v) \in Nat /\ Len(s) \in Nat
  OBVIOUS
<1>2. ASSUME NEW i \in 1 .. Len(v) PROVE s[o + i] = v[i]
  <2>1. o + i \in 1 .. n
    BY <1>1
  <2>2. s[o + i] = t[o + i] /\ t[o + i] = v[i]
    BY <2>1 DEF AgreeUpto, Holds
  <2> QED
    BY <2>2
<1> QED
  BY <1>1, <1>2 DEF Holds

(* A cursor's lengths. *)
LEMMA Lengths ==
  ASSUME NEW c, CursorOK(c)
  PROVE  /\ Len(c.subject) \in Nat /\ WordBytes \in Nat /\ WordBytes >= 1
         /\ BodyLen(c) = 2 + Len(c.subject) + 2 * WordBytes /\ BodyLen(c) \in Nat
<1>1. c.subject \in Seq(Byte)
  BY DEF CursorOK
<1>2. Len(c.subject) \in Nat
  BY <1>1
<1>3. WordBytes \in Nat /\ WordBytes >= 1
  BY PagingAssumption
<1>4. BodyLen(c) = 2 + Len(c.subject) + 2 * WordBytes
  BY DEF BodyLen
<1>5. 2 + Len(c.subject) + 2 * WordBytes \in Nat
  <2>1. PICK l \in Nat : l = Len(c.subject)
    BY <1>2
  <2>2. PICK w \in Nat : w = 2 * WordBytes
    BY <1>3
  <2>3. 2 + l + w \in Nat
    OBVIOUS
  <2> QED
    BY <2>1, <2>2, <2>3
<1> QED
  BY ONLY <1>2, <1>3, <1>4, <1>5

(* What agrees with a cursor's body starts with it. *)
LEMMA StartsAgain ==
  ASSUME NEW c, CursorOK(c), NEW s \in Seq(Byte), AgreeUpto(s, Body(c), BodyLen(c)), BodyLen(c) <= Len(s)
  PROVE  StartsWith(s, c)
<1>1. PICK t \in Seq(Byte) : t = Body(c) /\ StartsWith(t, c)
  BY BodyIs
<1>2. PICK n \in Nat : n = BodyLen(c) /\ AgreeUpto(s, t, n) /\ n <= Len(s)
  BY <1>1, Lengths
<1>3. PICK l \in Nat : l = Len(c.subject)
  BY Lengths
<1>4. PICK W \in Nat : W = WordBytes
  BY Lengths
<1>5. n = 2 + l + 2 * W
  BY <1>2, <1>3, <1>4, Lengths
<1>6. c.at \in Nat /\ c.id \in Nat
  BY WordIs DEF CursorOK
<1>7. PICK two \in Nat : two = 2
  OBVIOUS
<1>8. Holds(s, 0, BigEndian(l, two))
  <2>1. PICK a \in Seq(Byte) : a = BigEndian(l, two) /\ Len(a) = two
    BY BigEndianIs
  <2>2. PICK o \in Nat : o = 0
    OBVIOUS
  <2>3. Holds(t, o, a) /\ o + Len(a) <= n
    <3>1. Holds(t, o, a)
      BY ONLY <1>1, <1>3, <1>7, <2>1, <2>2 DEF StartsWith
    <3>2. n >= 2
      BY <1>5
    <3>3. o + Len(a) = 2
      BY <1>7, <2>1, <2>2
    <3>4. o + Len(a) <= n
      BY ONLY <3>2, <3>3
    <3> QED
      BY ONLY <3>1, <3>4
  <2>4. Holds(s, o, a)
    BY ONLY <1>2, <2>1, <2>2, <2>3, s \in Seq(Byte), t \in Seq(Byte), n \in Nat, HoldsAgain
  <2> QED
    BY <2>1, <2>2, <2>4
<1>9. Holds(s, 2, c.subject)
  <2>1. PICK a \in Seq(Byte) : a = c.subject /\ Len(a) = l
    BY <1>3 DEF CursorOK
  <2>2. Holds(t, two, a) /\ two + Len(a) <= n
    BY <1>1, <1>4, <1>5, <1>7, <2>1 DEF StartsWith
  <2>3. Holds(s, two, a)
    BY ONLY <1>2, <1>7, <2>1, <2>2, s \in Seq(Byte), t \in Seq(Byte), n \in Nat, HoldsAgain
  <2> QED
    BY <1>7, <2>1, <2>3
<1>10. Holds(s, 2 + l, BigEndian(c.at, W))
  <2>1. PICK a \in Seq(Byte) : a = BigEndian(c.at, W) /\ Len(a) = W
    BY <1>6, BigEndianIs
  <2>2. PICK o \in Nat : o = 2 + l
    OBVIOUS
  <2>3. Holds(t, o, a) /\ o + Len(a) <= n
    <3>1. Holds(t, o, a)
      BY ONLY <1>1, <1>3, <1>4, <2>1, <2>2 DEF StartsWith
    <3> QED
      BY ONLY <1>5, <2>1, <2>2, <3>1, l \in Nat, W \in Nat
  <2>4. Holds(s, o, a)
    BY ONLY <1>2, <2>1, <2>2, <2>3, s \in Seq(Byte), t \in Seq(Byte), n \in Nat, HoldsAgain
  <2> QED
    BY <2>1, <2>2, <2>4
<1>11. Holds(s, 2 + l + W, BigEndian(c.id, W))
  <2>1. PICK a \in Seq(Byte) : a = BigEndian(c.id, W) /\ Len(a) = W
    BY <1>6, BigEndianIs
  <2>2. PICK o \in Nat : o = 2 + l + W
    OBVIOUS
  <2>3. Holds(t, o, a) /\ o + Len(a) <= n
    <3>1. Holds(t, o, a)
      BY ONLY <1>1, <1>3, <1>4, <2>1, <2>2 DEF StartsWith
    <3> QED
      BY ONLY <1>5, <2>1, <2>2, <3>1, l \in Nat, W \in Nat
  <2>4. Holds(s, o, a)
    BY ONLY <1>2, <2>1, <2>2, <2>3, s \in Seq(Byte), t \in Seq(Byte), n \in Nat, HoldsAgain
  <2> QED
    BY <2>1, <2>2, <2>4
<1> QED
  BY <1>3, <1>4, <1>7, <1>8, <1>9, <1>10, <1>11 DEF StartsWith

(* Bytes behind a cursor's body change nothing in what it is decoded to: that *)
(* or, with another checksum, nothing.                                       *)
LEMMA LongEnough ==
  ASSUME NEW c, CursorOK(c), NEW s \in Seq(Byte), Len(s) >= BodyLen(c) + 2,
         AgreeUpto(s, Body(c), BodyLen(c))
  PROVE  /\ Decode(s) \in {Invalid, Decoded(c)}
         /\ Fits(s) => Decode(s) = Decoded(c)
<1>1. PICK b \in Seq(Byte) : b = Body(c) /\ Len(b) = BodyLen(c)
  BY BodyIs
<1>2. PICK m \in Nat : m = Len(s) - 2 /\ m <= Len(s) /\ BodyLen(c) <= m
  <2>1. Len(s) - 2 \in Nat /\ Len(s) - 2 <= Len(s) /\ BodyLen(c) <= Len(s) - 2
    BY Lengths
  <2> QED
    BY <2>1
<1>3. PICK rest \in Seq(Byte) : /\ rest = SubSeq(s, 1, m) /\ Len(rest) = m
                                /\ \A i \in 1 .. m : rest[i] = s[i]
  BY <1>2, FirstPart
<1>4. AgreeUpto(rest, Body(c), BodyLen(c))
  BY <1>2, <1>3, Lengths DEF AgreeUpto
<1>5. StartsWith(rest, c)
  BY <1>2, <1>3, <1>4, StartsAgain
<1>6. Number(SubSeq(rest, 1, 2)) = Len(c.subject) /\ FieldsOf(rest) = Decoded(c)
  BY <1>5, FieldsRead
<1>7. /\ ~(Len(s) < 4 + 2 * WordBytes)
      /\ ~(Len(rest) < 2 + Number(SubSeq(rest, 1, 2)) + 2 * WordBytes)
  <2>1. PICK l \in Nat : l = Len(c.subject)
    BY Lengths
  <2>2. PICK w \in Nat : w = 2 * WordBytes
    BY Lengths
  <2>3. BodyLen(c) = 2 + l + w
    BY <2>1, <2>2, Lengths
  <2> QED
    BY <1>2, <1>3, <1>6, <2>1, <2>2, <2>3
<1>8. rest = SubSeq(s, 1, Len(s) - 2)
  BY <1>2, <1>3
<1> QED
  BY <1>6, <1>7, <1>8, DecodeIs

(* A cursor whose last byte is lost is none. *)
LEMMA OneShort ==
  ASSUME NEW c, CursorOK(c), NEW s \in Seq(Byte), Len(s) = BodyLen(c) + 1,
         AgreeUpto(s, Body(c), BodyLen(c))
  PROVE  Decode(s) = Invalid
<1>1. PICK b \in Seq(Byte) : b = Body(c) /\ Len(b) = BodyLen(c) /\ StartsWith(b, c)
  BY BodyIs
<1>2. PICK m \in Nat : m = Len(s) - 2 /\ m <= Len(s) /\ BodyLen(c) = m + 1
  <2>1. Len(s) - 2 \in Nat /\ Len(s) - 2 <= Len(s) /\ BodyLen(c) = (Len(s) - 2) + 1
    BY Lengths
  <2> QED
    BY <2>1
<1>3. PICK rest \in Seq(Byte) : /\ rest = SubSeq(s, 1, m) /\ Len(rest) = m
                                /\ \A i \in 1 .. m : rest[i] = s[i]
  BY <1>2, FirstPart
<1>4. PICK l \in Nat : l = Len(c.subject)
  BY Lengths
<1>5. PICK w \in Nat : w = 2 * WordBytes /\ w >= 2
  BY Lengths
<1>6. m + 1 = 2 + l + w
  BY <1>2, <1>4, <1>5, Lengths
<1>7. Number(SubSeq(rest, 1, 2)) = l
  <2>1. l < 65536
    BY <1>4 DEF CursorOK, U16
  <2>2. PICK two \in Nat : two = 2
    OBVIOUS
  <2>3. PICK a \in Seq(Byte) : a = BigEndian(l, two) /\ Len(a) = two
    BY BigEndianIs
  <2>4. PICK o \in Nat : o = 0
    OBVIOUS
  <2>5. Holds(b, o, a) /\ o + Len(a) <= m
    <3>1. Holds(b, o, a)
      BY ONLY <1>1, <1>4, <2>2, <2>3, <2>4 DEF StartsWith
    <3>2. m >= 2
      BY <1>5, <1>6
    <3>3. o + Len(a) = 2
      BY <2>2, <2>3, <2>4
    <3>4. o + Len(a) <= m
      BY ONLY <3>2, <3>3
    <3> QED
      BY ONLY <3>1, <3>4
  <2>6. AgreeUpto(rest, b, m) /\ m <= Len(rest)
    BY <1>1, <1>2, <1>3 DEF AgreeUpto
  <2>7. Holds(rest, o, a)
    BY ONLY <2>3, <2>4, <2>5, <2>6, rest \in Seq(Byte), b \in Seq(Byte), m \in Nat, HoldsAgain
  <2>8. Holds(rest, 0, BigEndian(l, 2))
    BY <2>2, <2>3, <2>4, <2>7
  <2> QED
    BY <2>1, <2>8, SizeRead
<1> QED
  <2>1. rest = SubSeq(s, 1, Len(s) - 2)
    BY <1>2, <1>3
  <2>2. Len(rest) < 2 + Number(SubSeq(rest, 1, 2)) + 2 * WordBytes
    BY ONLY <1>3, <1>5, <1>6, <1>7, l \in Nat
  <2> QED
    BY <2>1, <2>2, DecodeIs

-----------------------------------------------------------------------------
(* What the checksum notices.                                              *)

(* One step of two sums, modulo 256. *)
LEMMA SumsMove ==
  ASSUME NEW x \in Int, NEW y \in Int, NEW e \in Int, NEW a \in Int, NEW b \in Int,
         (x - y - e) % 256 = 0
  PROVE  (((x + a) % 65536) - ((y + b) % 65536) - (e + a - b)) % 256 = 0
<1>1. PICK p \in Int : (x + a) % 65536 = x + a - 65536 * p
  <2>1. (x + a) % 65536 = x + a - 65536 * ((x + a) \div 65536) /\ (x + a) \div 65536 \in Int
    OBVIOUS
  <2> QED
    BY <2>1
<1>2. PICK q \in Int : (y + b) % 65536 = y + b - 65536 * q
  <2>1. (y + b) % 65536 = y + b - 65536 * ((y + b) \div 65536) /\ (y + b) \div 65536 \in Int
    OBVIOUS
  <2> QED
    BY <2>1
<1>3. PICK u \in Int : x - y - e = 256 * u
  <2>1. x - y - e = 256 * ((x - y - e) \div 256) /\ (x - y - e) \div 256 \in Int
    OBVIOUS
  <2> QED
    BY <2>1
<1>4. ((x + a) % 65536) - ((y + b) % 65536) - (e + a - b) = 256 * (u - 256 * p + 256 * q)
  BY <1>1, <1>2, <1>3
<1>5. PICK z \in Int : z = u - 256 * p + 256 * q
  OBVIOUS
<1>6. (256 * z) % 256 = 0
  OBVIOUS
<1> QED
  BY ONLY <1>4, <1>5, <1>6

(* One step of wrapped sums. *)
LEMMA SumsStep ==
  ASSUME NEW n \in Nat, NEW d, NEW r, IsSums(r, d, n), NEW j \in 0 .. n - 1
  PROVE  r[j + 1] = (r[j] + d[j + 1]) % 65536
<1>1. j + 1 \in 0 .. n /\ j + 1 # 0 /\ (j + 1) - 1 = j
  OBVIOUS
<1> QED
  BY <1>1 DEF IsSums, U16

\* t and s differ at most at k and the position behind.
DifferAt(t, s, k) ==
  Len(t) = Len(s) /\ \A j \in 1 .. Len(s) : j # k /\ j # k + 1 => t[j] = s[j]

\* By how much the two bytes differ in sum, of n.
Shift(t, s, k, n) == (t[k] - s[k]) + (IF k + 1 <= n THEN t[k + 1] - s[k + 1] ELSE 0)

(* Fletcher's lower byte notices two neighbours whose sum has changed. *)
LEMMA SumNoticed ==
  ASSUME NEW s \in Seq(Byte), NEW t \in Seq(Byte), NEW k \in Nat, k >= 1, k <= Len(s), DifferAt(t, s, k),
         Shift(t, s, k, Len(s)) % 256 # 0
  PROVE  Fletcher16(t) % 256 # Fletcher16(s) % 256
<1>1. PICK n \in Nat : n = Len(s) /\ n = Len(t)
  BY DEF DifferAt
<1>2. \A j \in 1 .. n : s[j] \in Nat /\ t[j] \in Nat
  <2>1. \A j \in 1 .. Len(s) : s[j] \in Nat
    BY BytesAre
  <2>2. \A j \in 1 .. Len(t) : t[j] \in Nat
    BY BytesAre
  <2> QED
    BY ONLY <1>1, <2>1, <2>2
<1>3. PICK d : d = Shift(t, s, k, n)
  OBVIOUS
<1>4. PICK e : e = [j \in 0 .. n |-> IF j < k THEN 0 ELSE IF j = k THEN t[k] - s[k] ELSE d]
  OBVIOUS
<1>5. t[k] - s[k] \in Int /\ d \in Int
  <2>1. k \in 1 .. n /\ (k + 1 <= n => k + 1 \in 1 .. n)
    BY <1>1
  <2> QED
    BY <1>2, <1>3, <2>1 DEF Shift
<1>6. \A j \in 0 .. n : e[j] \in Int
  BY <1>4, <1>5
<1>7. ASSUME NEW j \in 0 .. n - 1 PROVE e[j + 1] = e[j] + t[j + 1] - s[j + 1]
  <2>1. j \in 0 .. n /\ j + 1 \in 0 .. n /\ j + 1 \in 1 .. n
    OBVIOUS
  <2>2. s[j + 1] \in Nat /\ t[j + 1] \in Nat
    BY <1>2, <2>1
  <2>3. CASE j + 1 < k
    <3>1. e[j] = 0 /\ e[j + 1] = 0
      BY <1>4, <2>1, <2>3
    <3>2. t[j + 1] = s[j + 1]
      BY <1>1, <2>1, <2>3 DEF DifferAt
    <3> QED
      BY <2>2, <3>1, <3>2
  <2>4. CASE j + 1 = k
    <3>1. e[j] = 0 /\ e[j + 1] = t[k] - s[k]
      BY <1>4, <2>1, <2>4
    <3> QED
      BY <2>2, <2>4, <3>1
  <2>5. CASE j = k
    <3>1. e[j] = t[k] - s[k] /\ e[j + 1] = d
      BY <1>4, <2>1, <2>5
    <3>2. d = (t[k] - s[k]) + (t[k + 1] - s[k + 1])
      BY <1>3, <2>5 DEF Shift
    <3> QED
      BY <1>5, <2>2, <2>5, <3>1, <3>2
  <2>6. CASE k < j
    <3>1. e[j] = d /\ e[j + 1] = d
      BY <1>4, <2>1, <2>6
    <3>2. t[j + 1] = s[j + 1]
      BY <1>1, <2>1, <2>6 DEF DifferAt
    <3> QED
      BY <1>5, <2>2, <3>1, <3>2
  <2> QED
    BY <2>3, <2>4, <2>5, <2>6
<1>8. PICK f, g : IsFletcher(f, g, s) /\ Fletcher16(s) = Checksum(f[n], g[n])
  BY <1>1, FletcherReads
<1>9. PICK h, l : IsFletcher(h, l, t) /\ Fletcher16(t) = Checksum(h[n], l[n])
  BY <1>1, FletcherReads
<1>10. /\ \A j \in 0 .. n : f[j] \in Short /\ g[j] \in Short /\ h[j] \in Short /\ l[j] \in Short
       /\ IsSums(f, s, n) /\ IsSums(h, t, n)
  BY <1>1, <1>8, <1>9 DEF IsFletcher
<1>11. PICK Good : Good = {j \in 0 .. n : (h[j] - f[j] - e[j]) % 256 = 0}
  OBVIOUS
<1>12. 0 \in Good
  <2>1. f[0] = 0 /\ h[0] = 0 /\ e[0] = 0
    BY <1>4, <1>10 DEF IsSums
  <2> QED
    BY <1>11, <2>1
<1>13. ASSUME NEW j \in 0 .. n - 1, j \in Good PROVE j + 1 \in Good
  <2>1. j \in 0 .. n /\ j + 1 \in 0 .. n /\ j + 1 \in 1 .. n /\ (j + 1) - 1 = j /\ j + 1 # 0
    OBVIOUS
  <2>2. f[j + 1] = (f[j] + s[j + 1]) % 65536 /\ h[j + 1] = (h[j] + t[j + 1]) % 65536
    BY ONLY <1>10, n \in Nat, j \in 0 .. n - 1, SumsStep
  <2>8. h[j] \in Int /\ f[j] \in Int /\ e[j] \in Int /\ t[j + 1] \in Int /\ s[j + 1] \in Int
    <3>1. h[j] \in Short /\ f[j] \in Short
      BY ONLY <1>10, <2>1
    <3>2. e[j] \in Int
      BY ONLY <1>6, <2>1
    <3>3. t[j + 1] \in Nat /\ s[j + 1] \in Nat
      BY ONLY <1>2, <2>1
    <3> QED
      BY ONLY <3>1, <3>2, <3>3 DEF Short
  <2>3. PICK x \in Int, y \in Int, z \in Int, a \in Int, b \in Int :
          x = h[j] /\ y = f[j] /\ z = e[j] /\ a = t[j + 1] /\ b = s[j + 1]
    BY ONLY <2>8
  <2>4. (x - y - z) % 256 = 0
    BY <1>11, <1>13, <2>3
  <2>5. (((x + a) % 65536) - ((y + b) % 65536) - (z + a - b)) % 256 = 0
    BY ONLY <2>4, SumsMove, x \in Int, y \in Int, z \in Int, a \in Int, b \in Int
  <2>6. e[j + 1] = z + a - b
    BY <1>7, <2>3
  <2>7. (h[j + 1] - f[j + 1] - e[j + 1]) % 256 = 0
    BY ONLY <2>2, <2>3, <2>5, <2>6
  <2> QED
    BY <1>11, <2>1, <2>7
<1>14. (h[n] - f[n] - e[n]) % 256 = 0
  <2>1. \A j \in 0 .. n - 1 : j \in Good => j + 1 \in Good
    BY <1>13
  <2>2. \A j \in 0 .. n : j \in Good
    BY <1>12, <2>1, ThroughAll
  <2> QED
    BY <1>11, <2>2
<1>15. e[n] = d
  <2>1. e[n] = IF n < k THEN 0 ELSE IF n = k THEN t[k] - s[k] ELSE d
    BY ONLY <1>4, n \in Nat
  <2>2. n = k => d = (t[k] - s[k]) + 0
    BY <1>3 DEF Shift
  <2>3. k <= n
    BY <1>1
  <2> QED
    BY ONLY <1>5, <2>1, <2>2, <2>3, n \in Nat, k \in Nat
<1>16. f[n] \in Short /\ g[n] \in Short /\ h[n] \in Short /\ l[n] \in Short
  BY <1>10
<1>17. Fletcher16(s) % 256 = f[n] % 256 /\ Fletcher16(t) % 256 = h[n] % 256
  <2>1. Checksum(f[n], g[n]) % 256 = f[n] % 256
    <3>1. PICK x \in Short, y \in Short : x = f[n] /\ y = g[n]
      BY ONLY <1>16
    <3>2. Checksum(x, y) % 256 = x % 256
      BY ONLY x \in Short, y \in Short, ChecksumIs
    <3> QED
      BY ONLY <3>1, <3>2
  <2>2. Checksum(h[n], l[n]) % 256 = h[n] % 256
    <3>1. PICK x \in Short, y \in Short : x = h[n] /\ y = l[n]
      BY ONLY <1>16
    <3>2. Checksum(x, y) % 256 = x % 256
      BY ONLY x \in Short, y \in Short, ChecksumIs
    <3> QED
      BY ONLY <3>1, <3>2
  <2> QED
    BY ONLY <1>8, <1>9, <2>1, <2>2
<1>18. h[n] % 256 # f[n] % 256
  <2>1. PICK x \in Int, y \in Int : x = h[n] /\ y = f[n]
    BY <1>16 DEF Short
  <2>2. (x - y - d) % 256 = 0 /\ d % 256 # 0
    BY <1>1, <1>3, <1>14, <1>15, <2>1
  <2>3. x % 256 # y % 256
    BY ONLY <1>5, <2>2, x \in Int, y \in Int
  <2> QED
    BY <2>1, <2>3
<1> QED
  BY <1>17, <1>18

(* A whole cursor: the body, then the checksum's two bytes. *)
LEMMA EncodeIs ==
  ASSUME NEW c, CursorOK(c)
  PROVE  /\ Encode(c) \in Seq(Byte) /\ Len(Encode(c)) = BodyLen(c) + 2
         /\ AgreeUpto(Encode(c), Body(c), BodyLen(c))
         /\ Fletcher16(Body(c)) = 256 * Encode(c)[BodyLen(c) + 1] + Encode(c)[BodyLen(c) + 2]
<1>1. PICK b \in Seq(Byte) : b = Body(c) /\ Len(b) = BodyLen(c)
  BY BodyIs
<1>2. PICK m \in Nat : m = BodyLen(c)
  BY Lengths
<1>3. PICK F \in Nat : F = Fletcher16(b) /\ F < 65536
  <2>1. PICK f, g : IsFletcher(f, g, b) /\ Fletcher16(b) = Checksum(f[Len(b)], g[Len(b)])
    BY FletcherReads
  <2>2. f[Len(b)] \in Short /\ g[Len(b)] \in Short
    <3>1. Len(b) \in 0 .. Len(b)
      BY <1>1, <1>2
    <3> QED
      BY <2>1, <3>1 DEF IsFletcher
  <2>3. PICK x \in Short, y \in Short : x = f[Len(b)] /\ y = g[Len(b)]
    BY ONLY <2>2
  <2>4. Checksum(x, y) \in Nat /\ Checksum(x, y) < 65536
    BY ONLY x \in Short, y \in Short, ChecksumIs
  <2> QED
    BY ONLY <2>1, <2>3, <2>4
<1>4. PICK two \in Nat : two = 2
  OBVIOUS
<1>5. PICK v \in Seq(Byte) : v = BigEndian(F, two) /\ Len(v) = two
  BY BigEndianIs
<1>6. Encode(c) = b \o v
  BY <1>1, <1>3, <1>4, <1>5 DEF Encode
<1>7. PICK u \in Seq(Byte) : u = b \o v /\ Len(u) = m + 2 /\ Holds(u, 0, b) /\ Holds(u, m, v)
  <2>1. b \o v \in Seq(Byte) /\ Len(b \o v) = Len(b) + Len(v) /\ Holds(b \o v, 0, b) /\ Holds(b \o v, Len(b), v)
    BY Joined
  <2> QED
    BY ONLY <1>1, <1>2, <1>4, <1>5, <2>1
<1>8. AgreeUpto(u, b, m)
  <2> SUFFICES ASSUME NEW i \in 1 .. m PROVE u[i] = b[i]
    BY DEF AgreeUpto
  <2>1. u[0 + i] = b[i] /\ 0 + i = i
    BY <1>1, <1>2, <1>7 DEF Holds
  <2> QED
    BY <2>1
<1>9. u[m + 1] = v[1] /\ u[m + 2] = v[2]
  BY <1>4, <1>5, <1>7 DEF Holds
<1>10. Number(v) = 256 * v[1] + v[2]
  BY <1>4, <1>5, NumberOfTwo
<1>11. Number(v) = F
  <2>1. ByteTo(two) = 65536
    <3>1. ByteTo(0) = 1 /\ ByteTo(0 + 1) = 256 * ByteTo(0) /\ ByteTo(1 + 1) = 256 * ByteTo(1)
      BY ByteToIs
    <3> QED
      BY <1>4, <3>1
  <2>2. F < ByteTo(two)
    BY <1>3, <2>1
  <2> QED
    BY <1>5, <2>2, NumberOfWord
<1>12. PICK e : e = Encode(c)
  OBVIOUS
<1>13. e = u
  BY ONLY <1>6, <1>7, <1>12
<1>14. Fletcher16(Body(c)) = 256 * e[m + 1] + e[m + 2]
  BY ONLY <1>1, <1>3, <1>9, <1>10, <1>11, <1>13
<1> QED
  BY ONLY <1>1, <1>2, <1>7, <1>8, <1>12, <1>13, <1>14

(* When the checksum of a sequence fits. *)
LEMMA FitsIs ==
  ASSUME NEW s \in Seq(Byte), NEW n \in Nat, Len(s) = n + 2
  PROVE  Fits(s) <=> Fletcher16(SubSeq(s, 1, n)) = 256 * s[n + 1] + s[n + 2]
<1>1. Len(s) - 2 = n /\ Len(s) - 1 = n + 1 /\ Len(s) = n + 2
  OBVIOUS
<1>2. PICK two \in Nat : two = 2
  OBVIOUS
<1>3. PICK m \in Int, p \in Int : m = n + 1 /\ p = n + 2
  OBVIOUS
<1>4. \A i \in m .. p : s[i] \in Byte
  <2>1. \A i \in 1 .. Len(s) : s[i] \in Byte
    OBVIOUS
  <2> QED
    BY <1>1, <1>3, <2>1
<1>5. PICK t : t = SubSeq(s, m, p)
  OBVIOUS
<1>6. /\ t \in Seq(Byte) /\ Len(t) = IF m <= p THEN p - m + 1 ELSE 0
      /\ \A i \in 1 .. p - m + 1 : t[i] = s[m + i - 1]
  BY <1>4, <1>5, SubSeqProperties
<1>7. Len(t) = 2 /\ t[1] = s[n + 1] /\ t[2] = s[n + 2]
  <2>1. p - m + 1 = 2 /\ m <= p /\ m + 1 - 1 = n + 1 /\ m + 2 - 1 = n + 2
    BY <1>3
  <2>2. 1 \in 1 .. p - m + 1 /\ 2 \in 1 .. p - m + 1
    BY <2>1
  <2>3. t[1] = s[m + 1 - 1] /\ t[2] = s[m + 2 - 1]
    BY ONLY <1>6, <2>2
  <2> QED
    BY ONLY <1>6, <2>1, <2>3
<1>8. Number(t) = 256 * s[n + 1] + s[n + 2]
  <2>1. Number(t) = 256 * t[1] + t[2]
    BY <1>6, <1>7, NumberOfTwo
  <2> QED
    BY <1>7, <2>1
<1>9. Fits(s) <=> Fletcher16(SubSeq(s, 1, n)) = Number(t)
  BY ONLY <1>1, <1>3, <1>5 DEF Fits
<1> QED
  BY ONLY <1>8, <1>9

\* A change that cannot be undone by the neighbour: the sum changes if a byte does.
Nudged(t, s, k) ==
  /\ DifferAt(t, s, k) /\ k \in 1 .. Len(s)
  /\ k + 1 <= Len(s) =>
       (((t[k] - s[k]) + (t[k + 1] - s[k + 1])) % 256 = 0 => t[k] = s[k] /\ t[k + 1] = s[k + 1])

(* Two bytes that differ, differ modulo 256. *)
LEMMA Apart ==
  ASSUME NEW x \in Nat, NEW y \in Nat, x < 256, y < 256, x # y
  PROVE  ((x - y) + 0) % 256 # 0
  OBVIOUS

(* The lower byte of two. *)
LEMMA LowerByte ==
  ASSUME NEW x \in Nat, NEW y \in Nat, y < 256
  PROVE  (256 * x + y) % 256 = y
  OBVIOUS

(* A nudged cursor is noticed by its checksum, unless it says the same. *)
LEMMA NudgeNoticed ==
  ASSUME NEW c, CursorOK(c), NEW t \in Seq(Byte), NEW k, Nudged(t, Encode(c), k)
  PROVE  Decode(t) \in {Invalid, Decoded(c)}
<1>1. PICK b \in Seq(Byte) : b = Body(c) /\ Len(b) = BodyLen(c)
  BY BodyIs
<1>2. PICK m \in Nat : m = BodyLen(c)
  BY Lengths
<1>3. PICK e \in Seq(Byte) : /\ e = Encode(c) /\ Len(e) = m + 2 /\ AgreeUpto(e, b, m)
                             /\ Fletcher16(b) = 256 * e[m + 1] + e[m + 2]
  BY <1>1, <1>2, EncodeIs
<1>4. /\ Len(t) = m + 2 /\ k \in 1 .. m + 2
      /\ \A j \in 1 .. m + 2 : j # k /\ j # k + 1 => t[j] = e[j]
      /\ k + 1 <= m + 2 =>
           (((t[k] - e[k]) + (t[k + 1] - e[k + 1])) % 256 = 0 => t[k] = e[k] /\ t[k + 1] = e[k + 1])
  BY <1>3 DEF Nudged, DifferAt
<1>5. CASE AgreeUpto(t, b, m)
  <2>1. Len(t) >= BodyLen(c) + 2
    BY <1>2, <1>4
  <2>2. AgreeUpto(t, Body(c), BodyLen(c))
    BY <1>1, <1>2, <1>5
  <2> QED
    BY <2>1, <2>2, LongEnough
<1>6. CASE ~AgreeUpto(t, b, m)
  <2>1. PICK rest \in Seq(Byte) : /\ rest = SubSeq(t, 1, m) /\ Len(rest) = m
                                  /\ \A i \in 1 .. m : rest[i] = t[i]
    <3>1. m <= Len(t)
      BY <1>4
    <3> QED
      BY <3>1, FirstPart
  <2>2. PICK j \in 1 .. m : t[j] # e[j]
    BY <1>3, <1>6 DEF AgreeUpto
  <2>3. k \in 1 .. m /\ (j = k \/ j = k + 1)
    BY <1>4, <2>2
  <2>4. \A i \in 1 .. m : e[i] = b[i]
    BY <1>3 DEF AgreeUpto
  <2>5. DifferAt(rest, b, k)
    <3>1. ASSUME NEW i \in 1 .. m, i # k, i # k + 1
          PROVE  rest[i] = b[i]
      <4>1. i \in 1 .. m + 2
        BY ONLY i \in 1 .. m, m \in Nat
      <4>2. t[i] = e[i]
        BY ONLY <1>4, <3>1, <4>1
      <4> QED
        BY ONLY <2>1, <2>4, <4>2, i \in 1 .. m
    <3>2. Len(b) = m
      BY <1>1, <1>2
    <3> QED
      BY ONLY <2>1, <3>1, <3>2 DEF DifferAt
  <2>6. /\ \A i \in 1 .. m + 2 : t[i] \in Nat /\ t[i] < 256 /\ e[i] \in Nat /\ e[i] < 256
    <3>1. \A i \in 1 .. Len(t) : t[i] \in Nat /\ t[i] < 256
      BY BytesAre
    <3>2. \A i \in 1 .. Len(e) : e[i] \in Nat /\ e[i] < 256
      BY BytesAre
    <3> QED
      BY ONLY <1>3, <1>4, <3>1, <3>2
  <2>7. Shift(rest, b, k, m) % 256 # 0
    <3>1. rest[k] = t[k] /\ b[k] = e[k]
      BY <2>1, <2>3, <2>4
    <3>2. CASE k + 1 <= m
      <4>1. k + 1 \in 1 .. m /\ k + 1 <= m + 2
        BY <2>3, <3>2
      <4>2. rest[k + 1] = t[k + 1] /\ b[k + 1] = e[k + 1]
        BY <2>1, <2>4, <4>1
      <4>3. Shift(rest, b, k, m) = (t[k] - e[k]) + (t[k + 1] - e[k + 1])
        BY ONLY <3>1, <3>2, <4>2 DEF Shift
      <4>4. ~(t[k] = e[k] /\ t[k + 1] = e[k + 1])
        BY <2>2, <2>3
      <4> QED
        BY ONLY <1>4, <4>1, <4>3, <4>4
    <3>3. CASE ~(k + 1 <= m)
      <4>1. j = k
        BY <2>3, <3>3
      <4>2. k \in 1 .. m + 2
        BY <2>3
      <4>3. PICK x \in Nat, y \in Nat : x = t[k] /\ y = e[k] /\ x < 256 /\ y < 256 /\ x # y
        BY <2>2, <2>6, <4>1, <4>2
      <4>4. Shift(rest, b, k, m) = (x - y) + 0
        BY ONLY <3>1, <3>3, <4>3 DEF Shift
      <4>5. ((x - y) + 0) % 256 # 0
        BY ONLY <4>3, x \in Nat, y \in Nat, Apart
      <4> QED
        BY ONLY <4>4, <4>5
    <3> QED
      BY <3>2, <3>3
  <2>8. Fletcher16(rest) % 256 # Fletcher16(b) % 256
    <3>1. k \in Nat /\ k >= 1 /\ k <= Len(b)
      BY <1>1, <1>2, <2>3
    <3>2. Shift(rest, b, k, Len(b)) % 256 # 0
      BY <1>1, <1>2, <2>7
    <3> QED
      BY <2>5, <3>1, <3>2, SumNoticed
  <2>9. t[m + 2] = e[m + 2]
    <3>1. m + 2 \in 1 .. m + 2 /\ m + 2 # k /\ m + 2 # k + 1
      BY <2>3
    <3> QED
      BY <1>4, <3>1
  <2>10. ~Fits(t)
    <3>1. Fits(t) <=> Fletcher16(SubSeq(t, 1, m)) = 256 * t[m + 1] + t[m + 2]
      BY <1>4, FitsIs
    <3>2. PICK x \in Nat, y \in Nat, z \in Nat :
            x = t[m + 1] /\ y = t[m + 2] /\ z = e[m + 1] /\ y < 256 /\ y = e[m + 2]
      <4>1. m + 1 \in 1 .. m + 2 /\ m + 2 \in 1 .. m + 2
        OBVIOUS
      <4> QED
        BY <2>6, <2>9, <4>1
    <3>3. (256 * x + y) % 256 = y /\ (256 * z + y) % 256 = y
      BY ONLY <3>2, x \in Nat, y \in Nat, z \in Nat, LowerByte
    <3>4. Fletcher16(b) % 256 = y
      BY ONLY <1>3, <3>2, <3>3
    <3>5. Fletcher16(rest) # 256 * x + y
      BY ONLY <2>8, <3>3, <3>4
    <3> QED
      BY ONLY <2>1, <3>1, <3>2, <3>5
  <2> QED
    BY <2>10, DecodeIs
<1> QED
  BY <1>5, <1>6

(* A cursor that has not changed is read as what it was made of. *)
LEMMA DecodesBack ==
  ASSUME NEW c, CursorOK(c)
  PROVE  Decode(Encode(c)) = Decoded(c)
<1> PICK e : e = Encode(c)
  OBVIOUS
<1> PICK b : b = Body(c)
  OBVIOUS
<1>1. b \in Seq(Byte) /\ Len(b) = BodyLen(c)
  BY BodyIs
<1> PICK m \in Nat : m = BodyLen(c)
  BY Lengths
<1>2. /\ e \in Seq(Byte) /\ Len(e) = m + 2 /\ AgreeUpto(e, b, m)
      /\ Fletcher16(b) = 256 * e[m + 1] + e[m + 2]
  BY EncodeIs
<1> PICK rest : rest = SubSeq(e, 1, m)
  OBVIOUS
<1>3. rest \in Seq(Byte) /\ Len(rest) = m /\ \A i \in 1 .. m : rest[i] = e[i]
  BY <1>2, FirstPart
<1>4. rest = b
  BY <1>1, <1>2, <1>3, SeqEqual DEF AgreeUpto
<1>5. Fits(e)
  <2>1. Fits(e) <=> Fletcher16(SubSeq(e, 1, m)) = 256 * e[m + 1] + e[m + 2]
    BY <1>2, FitsIs
  <2>2. SubSeq(e, 1, m) = b
    BY <1>4
  <2> QED
    BY ONLY <1>2, <2>1, <2>2
<1> QED
  BY <1>2, <1>5, LongEnough

-----------------------------------------------------------------------------
(* Base 64.                                                                *)

(* Padding is no symbol's number. *)
LEMMA PaddingIs == Padding = 64
  BY DEF Padding

\* Symbols and padding.
Sixes == {s \in Nat : s <= 64}

(* The kept part of a text ends at its last symbol. *)
LEMMA KeptIs ==
  ASSUME NEW t \in Seq(Sixes), NEW m \in Nat, m <= Len(t), m = 0 \/ t[m] # Padding,
         \A i \in 1 .. Len(t) : i > m => t[i] = Padding
  PROVE  Kept(t) = m
<1> DEFINE I == {i \in 1 .. Len(t) : t[i] # Padding}
<1>1. \A i \in I : i <= m
  OBVIOUS
<1>2. Kept(t) = IF I # {} THEN Max(I) ELSE 0
  BY DEF Kept, SelectLastInSeq
<1>3. CASE m = 0
  <2>1. I = {}
    BY <1>1, <1>3
  <2> QED
    BY <1>2, <1>3, <2>1
<1>4. CASE m # 0
  <2>1. m \in I
    BY <1>4
  <2>2. Max(I) = m
    BY <1>1, <2>1 DEF Max
  <2> QED
    BY <1>2, <2>1, <2>2
<1> QED
  BY <1>3, <1>4

(* A position and its group of three. *)
LEMMA Thirds ==
  ASSUME NEW k \in Nat, k >= 1
  PROVE  \E g \in Nat : k \in {3 * g + 1, 3 * g + 2, 3 * g + 3}
<1>1. (k - 1) \div 3 \in Nat /\ k \in {3 * ((k - 1) \div 3) + 1, 3 * ((k - 1) \div 3) + 2, 3 * ((k - 1) \div 3) + 3}
  OBVIOUS
<1> QED
  BY <1>1

(* A position and its group of four. *)
LEMMA Fourths ==
  ASSUME NEW k \in Nat, k >= 1
  PROVE  \E g \in Nat : k \in {4 * g + 1, 4 * g + 2, 4 * g + 3, 4 * g + 4}
<1>1. /\ (k - 1) \div 4 \in Nat
      /\ k \in {4 * ((k - 1) \div 4) + 1, 4 * ((k - 1) \div 4) + 2, 4 * ((k - 1) \div 4) + 3,
                4 * ((k - 1) \div 4) + 4}
  OBVIOUS
<1> QED
  BY <1>1

(* The three bytes of a group of symbols. *)
LEMMA BytesOf ==
  ASSUME NEW t, NEW n, NEW g \in Nat
  PROVE  /\ ByteAt(t, n, 3 * g + 1) = 4 * OrZero(t, n, 4 * g + 1) + (OrZero(t, n, 4 * g + 2) \div 16)
         /\ ByteAt(t, n, 3 * g + 2) = 16 * (OrZero(t, n, 4 * g + 2) % 16) + (OrZero(t, n, 4 * g + 3) \div 4)
         /\ ByteAt(t, n, 3 * g + 3) = 64 * (OrZero(t, n, 4 * g + 3) % 4) + OrZero(t, n, 4 * g + 4)
<1>1. ((3 * g + 1) - 1) \div 3 = g /\ ((3 * g + 1) - 1) % 3 = 0
  OBVIOUS
<1>2. ((3 * g + 2) - 1) \div 3 = g /\ ((3 * g + 2) - 1) % 3 = 1
  OBVIOUS
<1>3. ((3 * g + 3) - 1) \div 3 = g /\ ((3 * g + 3) - 1) % 3 = 2
  OBVIOUS
<1>4. ByteAt(t, n, 3 * g + 1) = 4 * OrZero(t, n, 4 * g + 1) + (OrZero(t, n, 4 * g + 2) \div 16)
  BY <1>1 DEF ByteAt
<1>5. ByteAt(t, n, 3 * g + 2) = 16 * (OrZero(t, n, 4 * g + 2) % 16) + (OrZero(t, n, 4 * g + 3) \div 4)
  BY <1>2 DEF ByteAt
<1>6. ByteAt(t, n, 3 * g + 3) = 64 * (OrZero(t, n, 4 * g + 3) % 4) + OrZero(t, n, 4 * g + 4)
  BY <1>3 DEF ByteAt
<1> QED
  BY <1>4, <1>5, <1>6

(* The four symbols of a group of bytes, padding where there is none. *)
LEMMA SymbolsOf ==
  ASSUME NEW b, NEW n \in Nat, n = Len(b), NEW g \in Nat
  PROVE  /\ SymbolAt(b, 4 * g + 1) = OrZero(b, n, 3 * g + 1) \div 4
         /\ SymbolAt(b, 4 * g + 2) = 16 * (OrZero(b, n, 3 * g + 1) % 4) + (OrZero(b, n, 3 * g + 2) \div 16)
         /\ 3 * g + 2 <= n => SymbolAt(b, 4 * g + 3) =
                                4 * (OrZero(b, n, 3 * g + 2) % 16) + (OrZero(b, n, 3 * g + 3) \div 64)
         /\ 3 * g + 2 > n => SymbolAt(b, 4 * g + 3) = Padding
         /\ 3 * g + 3 <= n => SymbolAt(b, 4 * g + 4) = OrZero(b, n, 3 * g + 3) % 64
         /\ 3 * g + 3 > n => SymbolAt(b, 4 * g + 4) = Padding
<1>1. ((4 * g + 1) - 1) \div 4 = g /\ ((4 * g + 1) - 1) % 4 = 0
  OBVIOUS
<1>2. ((4 * g + 2) - 1) \div 4 = g /\ ((4 * g + 2) - 1) % 4 = 1
  OBVIOUS
<1>3. ((4 * g + 3) - 1) \div 4 = g /\ ((4 * g + 3) - 1) % 4 = 2
  OBVIOUS
<1>4. ((4 * g + 4) - 1) \div 4 = g /\ ((4 * g + 4) - 1) % 4 = 3
  OBVIOUS
<1>5. SymbolAt(b, 4 * g + 1) = OrZero(b, n, 3 * g + 1) \div 4
  BY <1>1 DEF SymbolAt
<1>6. SymbolAt(b, 4 * g + 2) = 16 * (OrZero(b, n, 3 * g + 1) % 4) + (OrZero(b, n, 3 * g + 2) \div 16)
  BY <1>2 DEF SymbolAt
<1>7. SymbolAt(b, 4 * g + 3) = IF 3 * g + 2 > n THEN Padding
                               ELSE 4 * (OrZero(b, n, 3 * g + 2) % 16) + (OrZero(b, n, 3 * g + 3) \div 64)
  BY <1>3 DEF SymbolAt
<1>8. SymbolAt(b, 4 * g + 4) = IF 3 * g + 3 > n THEN Padding ELSE OrZero(b, n, 3 * g + 3) % 64
  BY <1>4 DEF SymbolAt
<1> QED
  BY <1>5, <1>6, <1>7, <1>8

(* What stands at a position is below p if all of the sequence is. *)
LEMMA OrZeroIs ==
  ASSUME NEW s, NEW n \in Nat, NEW p \in Nat, p > 0, \A i \in 1 .. n : s[i] \in Nat /\ s[i] < p,
         NEW k \in Nat, k >= 1
  PROVE  OrZero(s, n, k) \in Nat /\ OrZero(s, n, k) < p
  BY DEF OrZero

(* Symbols give bytes. *)
LEMMA ByteAtIs ==
  ASSUME NEW t, NEW n \in Nat, \A i \in 1 .. n : t[i] \in Nat /\ t[i] < 64, NEW k \in Nat, k >= 1
  PROVE  ByteAt(t, n, k) \in Nat /\ ByteAt(t, n, k) < 256
<1>1. PICK g \in Nat : k \in {3 * g + 1, 3 * g + 2, 3 * g + 3}
  BY Thirds
<1>2. PICK w \in Nat, x \in Nat, y \in Nat, z \in Nat :
        /\ w = OrZero(t, n, 4 * g + 1) /\ x = OrZero(t, n, 4 * g + 2)
        /\ y = OrZero(t, n, 4 * g + 3) /\ z = OrZero(t, n, 4 * g + 4)
        /\ w < 64 /\ x < 64 /\ y < 64 /\ z < 64
  <2>1. PICK p \in Nat : p = 64
    OBVIOUS
  <2>2. \A j \in Nat : j >= 1 => OrZero(t, n, j) \in Nat /\ OrZero(t, n, j) < p
    BY <2>1, OrZeroIs
  <2>3. /\ 4 * g + 1 \in Nat /\ 4 * g + 2 \in Nat /\ 4 * g + 3 \in Nat /\ 4 * g + 4 \in Nat
        /\ 4 * g + 1 >= 1 /\ 4 * g + 2 >= 1 /\ 4 * g + 3 >= 1 /\ 4 * g + 4 >= 1
    OBVIOUS
  <2> QED
    BY ONLY <2>1, <2>2, <2>3
<1>3. /\ ByteAt(t, n, 3 * g + 1) = 4 * w + (x \div 16)
      /\ ByteAt(t, n, 3 * g + 2) = 16 * (x % 16) + (y \div 4)
      /\ ByteAt(t, n, 3 * g + 3) = 64 * (y % 4) + z
  BY <1>2, BytesOf
<1>4. /\ 4 * w + (x \div 16) \in Nat /\ 4 * w + (x \div 16) < 256
      /\ 16 * (x % 16) + (y \div 4) \in Nat /\ 16 * (x % 16) + (y \div 4) < 256
      /\ 64 * (y % 4) + z \in Nat /\ 64 * (y % 4) + z < 256
  BY ONLY <1>2, w \in Nat, x \in Nat, y \in Nat, z \in Nat
<1> QED
  BY ONLY <1>1, <1>3, <1>4

\* How many bytes n symbols give.
BytesFor(n) == 3 * (n \div 4) + ((n % 4) + 1) \div 2

(* What a text whose kept part is n symbols gives. *)
LEMMA DecodedIs ==
  ASSUME NEW t \in Seq(Sixes), NEW n \in Nat, n <= Len(t), Kept(t) = n,
         \A i \in 1 .. n : t[i] # Padding
  PROVE  /\ DecodeText(t) = Decode(Base64Decode(t))
         /\ Base64Decode(t) \in Seq(Byte) /\ Len(Base64Decode(t)) = BytesFor(n)
         /\ \A k \in 1 .. BytesFor(n) : Base64Decode(t)[k] = ByteAt(t, n, k)
<1>1. \A i \in 1 .. n : t[i] \in Nat /\ t[i] < 64
  BY PaddingIs DEF Sixes
<1>2. DecodeText(t) = Decode(Base64Decode(t))
  BY DEF DecodeText
<1> PICK l \in Nat : l = BytesFor(n)
  BY DEF BytesFor
<1>3. Base64Decode(t) = [k \in 1 .. l |-> ByteAt(t, n, k)]
  BY DEF Base64Decode, BytesFor
<1>4. \A k \in 1 .. l : ByteAt(t, n, k) \in Byte
  BY <1>1, ByteAtIs, ByteIs
<1> PICK s : s = Base64Decode(t)
  OBVIOUS
<1>5. s \in Seq(Byte) /\ Len(s) = l /\ \A k \in 1 .. l : s[k] = ByteAt(t, n, k)
  BY <1>3, <1>4
<1> QED
  BY <1>2, <1>5

(* A byte that two texts agree on the symbols of. *)
LEMMA SameByte ==
  ASSUME NEW t, NEW u, NEW n \in Nat, NEW m \in Nat, NEW a \in Nat, a <= n, a <= m,
         \A j \in 1 .. a : t[j] = u[j],
         NEW k \in Nat, k >= 1, k + ((k - 1) \div 3) + 1 <= a
  PROVE  ByteAt(t, n, k) = ByteAt(u, m, k)
<1>1. PICK g \in Nat : k \in {3 * g + 1, 3 * g + 2, 3 * g + 3}
  BY Thirds
<1>2. \A j \in Nat : j >= 1 /\ j <= a => OrZero(t, n, j) = OrZero(u, m, j)
  BY DEF OrZero
<1>3. CASE k = 3 * g + 1
  <2>1. 4 * g + 1 <= a /\ 4 * g + 2 <= a
    BY <1>3
  <2>2. OrZero(t, n, 4 * g + 1) = OrZero(u, m, 4 * g + 1) /\ OrZero(t, n, 4 * g + 2) = OrZero(u, m, 4 * g + 2)
    BY <1>2, <2>1
  <2> QED
    BY <1>3, <2>2, BytesOf
<1>4. CASE k = 3 * g + 2
  <2>1. 4 * g + 2 <= a /\ 4 * g + 3 <= a
    BY <1>4
  <2>2. OrZero(t, n, 4 * g + 2) = OrZero(u, m, 4 * g + 2) /\ OrZero(t, n, 4 * g + 3) = OrZero(u, m, 4 * g + 3)
    BY <1>2, <2>1
  <2> QED
    BY <1>4, <2>2, BytesOf
<1>5. CASE k = 3 * g + 3
  <2>1. 4 * g + 3 <= a /\ 4 * g + 4 <= a
    BY <1>5
  <2>2. OrZero(t, n, 4 * g + 3) = OrZero(u, m, 4 * g + 3) /\ OrZero(t, n, 4 * g + 4) = OrZero(u, m, 4 * g + 4)
    BY <1>2, <2>1
  <2> QED
    BY <1>5, <2>2, BytesOf
<1> QED
  BY <1>1, <1>3, <1>4, <1>5

\* How many symbols n bytes give, without and with the padding.
SymbolsFor(n) == 4 * (n \div 3) + (IF n % 3 = 0 THEN 0 ELSE (n % 3) + 1)
TextLen(n) == 4 * ((n + 2) \div 3)

\* What the text of n bytes looks like.
IsText(t, n) ==
  /\ t \in Seq(Sixes) /\ Len(t) = TextLen(n)
  /\ \A i \in 1 .. TextLen(n) : IF i <= SymbolsFor(n) THEN t[i] < 64 ELSE t[i] = Padding

(* The lengths of a text and of its parts. *)
LEMMA TextLengths ==
  ASSUME NEW n \in Nat
  PROVE  /\ SymbolsFor(n) \in Nat /\ TextLen(n) \in Nat /\ SymbolsFor(n) <= TextLen(n)
         /\ BytesFor(SymbolsFor(n)) = n
         /\ TextLen(n) <= SymbolsFor(n) + 2
<1>1. PICK q \in Nat, r \in Nat : n = 3 * q + r /\ r < 3
  <2>1. n = 3 * (n \div 3) + (n % 3) /\ n \div 3 \in Nat /\ n % 3 \in Nat /\ n % 3 < 3
    OBVIOUS
  <2> QED
    BY <2>1
<1>2. n \div 3 = q /\ n % 3 = r
  BY ONLY <1>1, n \in Nat, q \in Nat, r \in Nat
<1>3. (n + 2) \div 3 = IF r = 0 THEN q ELSE q + 1
  BY ONLY <1>1, n \in Nat, q \in Nat, r \in Nat
<1>4. PICK k \in Nat : k = SymbolsFor(n) /\ k = 4 * q + (IF r = 0 THEN 0 ELSE r + 1)
  BY <1>1, <1>2 DEF SymbolsFor
<1>5. TextLen(n) = IF r = 0 THEN 4 * q ELSE 4 * q + 4
  BY <1>3 DEF TextLen
<1>6. k \div 4 = q /\ k % 4 = IF r = 0 THEN 0 ELSE r + 1
  BY ONLY <1>1, <1>4, k \in Nat, q \in Nat, r \in Nat
<1>7. ((k % 4) + 1) \div 2 = r
  BY ONLY <1>1, <1>6, r \in Nat
<1>8. BytesFor(k) = 3 * q + r
  BY <1>6, <1>7 DEF BytesFor
<1> QED
  BY <1>1, <1>4, <1>5, <1>8

\* Which symbols of a group are symbols and which are padding.
Places(i, g, n) ==
  /\ i = 4 * g + 1 => i <= SymbolsFor(n)
  /\ i = 4 * g + 2 => i <= SymbolsFor(n)
  /\ i = 4 * g + 3 => (i <= SymbolsFor(n) <=> 3 * g + 2 <= n)
  /\ i = 4 * g + 4 => (i <= SymbolsFor(n) <=> 3 * g + 3 <= n)

(* The group of a position, and what of it there is. *)
LEMMA PlacesAre ==
  ASSUME NEW n \in Nat, NEW g \in Nat, NEW i \in 1 .. TextLen(n),
         i \in {4 * g + 1, 4 * g + 2, 4 * g + 3, 4 * g + 4}
  PROVE  Places(i, g, n)
<1>1. PICK q \in Nat, r \in Nat : n = 3 * q + r /\ r < 3
  <2>1. n = 3 * (n \div 3) + (n % 3) /\ n \div 3 \in Nat /\ n % 3 \in Nat /\ n % 3 < 3
    OBVIOUS
  <2> QED
    BY <2>1
<1>2. n \div 3 = q /\ n % 3 = r
  BY ONLY <1>1, n \in Nat, q \in Nat, r \in Nat
<1>3. (n + 2) \div 3 = IF r = 0 THEN q ELSE q + 1
  BY ONLY <1>1, n \in Nat, q \in Nat, r \in Nat
<1>4. SymbolsFor(n) = 4 * q + (IF r = 0 THEN 0 ELSE r + 1)
  BY <1>2 DEF SymbolsFor
<1>5. i <= IF r = 0 THEN 4 * q ELSE 4 * q + 4
  BY <1>3 DEF TextLen
<1>6. i \in Nat
  BY TextLengths
<1> QED
  BY ONLY <1>1, <1>4, <1>5, <1>6, i \in {4 * g + 1, 4 * g + 2, 4 * g + 3, 4 * g + 4},
     g \in Nat, q \in Nat, r \in Nat DEF Places

(* Bytes as text. *)
LEMMA TextIs ==
  ASSUME NEW b \in Seq(Byte), NEW n \in Nat, n = Len(b)
  PROVE  /\ IsText(Base64Encode(b), n)
         /\ \A i \in 1 .. TextLen(n) : Base64Encode(b)[i] = SymbolAt(b, i)
<1> PICK l \in Nat : l = TextLen(n)
  BY TextLengths
<1>1. Base64Encode(b) = [j \in 1 .. l |-> SymbolAt(b, j)]
  BY DEF Base64Encode, TextLen
<1>2. ASSUME NEW i \in 1 .. l
      PROVE  /\ SymbolAt(b, i) \in Sixes
             /\ IF i <= SymbolsFor(n) THEN SymbolAt(b, i) < 64 ELSE SymbolAt(b, i) = Padding
  <2>0. i \in Nat /\ i >= 1
    OBVIOUS
  <2>1. PICK g \in Nat : i \in {4 * g + 1, 4 * g + 2, 4 * g + 3, 4 * g + 4}
    BY ONLY <2>0, Fourths
  <2>2. \A j \in 1 .. n : b[j] \in Nat /\ b[j] < 256
    BY BytesAre
  <2>3. PICK x \in Nat, y \in Nat, z \in Nat :
          /\ x = OrZero(b, n, 3 * g + 1) /\ y = OrZero(b, n, 3 * g + 2) /\ z = OrZero(b, n, 3 * g + 3)
          /\ x < 256 /\ y < 256 /\ z < 256
    <3>1. PICK p \in Nat : p = 256
      OBVIOUS
    <3>2. \A j \in Nat : j >= 1 => OrZero(b, n, j) \in Nat /\ OrZero(b, n, j) < p
      BY ONLY <2>2, <3>1, n \in Nat, p \in Nat DEF OrZero
    <3>3. /\ 3 * g + 1 \in Nat /\ 3 * g + 2 \in Nat /\ 3 * g + 3 \in Nat
          /\ 3 * g + 1 >= 1 /\ 3 * g + 2 >= 1 /\ 3 * g + 3 >= 1
      OBVIOUS
    <3> QED
      BY ONLY <3>1, <3>2, <3>3
  <2>4. /\ SymbolAt(b, 4 * g + 1) = x \div 4
        /\ SymbolAt(b, 4 * g + 2) = 16 * (x % 4) + (y \div 16)
        /\ 3 * g + 2 <= n => SymbolAt(b, 4 * g + 3) = 4 * (y % 16) + (z \div 64)
        /\ 3 * g + 2 > n => SymbolAt(b, 4 * g + 3) = Padding
        /\ 3 * g + 3 <= n => SymbolAt(b, 4 * g + 4) = z % 64
        /\ 3 * g + 3 > n => SymbolAt(b, 4 * g + 4) = Padding
    BY ONLY <2>3, n \in Nat, n = Len(b), g \in Nat, SymbolsOf
  <2>5. /\ x \div 4 \in Nat /\ x \div 4 < 64
        /\ 16 * (x % 4) + (y \div 16) \in Nat /\ 16 * (x % 4) + (y \div 16) < 64
        /\ 4 * (y % 16) + (z \div 64) \in Nat /\ 4 * (y % 16) + (z \div 64) < 64
        /\ z % 64 \in Nat /\ z % 64 < 64
    <3>1. x \div 4 \in Nat /\ x \div 4 < 64
      BY ONLY <2>3, x \in Nat
    <3>2. 16 * (x % 4) + (y \div 16) \in Nat /\ 16 * (x % 4) + (y \div 16) < 64
      BY ONLY <2>3, x \in Nat, y \in Nat
    <3>3. 4 * (y % 16) + (z \div 64) \in Nat /\ 4 * (y % 16) + (z \div 64) < 64
      BY ONLY <2>3, y \in Nat, z \in Nat
    <3>4. z % 64 \in Nat /\ z % 64 < 64
      BY ONLY z \in Nat
    <3> QED
      BY ONLY <3>1, <3>2, <3>3, <3>4
  <2>6. Places(i, g, n)
    BY <2>1, PlacesAre
  <2>7. \A s : (s \in Nat /\ s < 64) \/ s = Padding => s \in Sixes
    BY PaddingIs DEF Sixes
  <2>8. CASE i = 4 * g + 1
    BY ONLY <2>4, <2>5, <2>6, <2>7, <2>8 DEF Places
  <2>9. CASE i = 4 * g + 2
    BY ONLY <2>4, <2>5, <2>6, <2>7, <2>9 DEF Places
  <2>10. CASE i = 4 * g + 3
    BY ONLY <2>4, <2>5, <2>6, <2>7, <2>10, n \in Nat, g \in Nat DEF Places
  <2>11. CASE i = 4 * g + 4
    BY ONLY <2>4, <2>5, <2>6, <2>7, <2>11, n \in Nat, g \in Nat DEF Places
  <2> QED
    BY <2>1, <2>8, <2>9, <2>10, <2>11
<1> PICK t : t = Base64Encode(b)
  OBVIOUS
<1>3. t \in Seq(Sixes) /\ Len(t) = l /\ \A i \in 1 .. l : t[i] = SymbolAt(b, i)
  BY <1>1, <1>2
<1> QED
  BY <1>2, <1>3 DEF IsText

(* The upper and the lower part of a number, by sixteen. *)
LEMMA Sixteens ==
  ASSUME NEW u \in Nat, NEW v \in Nat, v < 16
  PROVE  (16 * u + v) \div 16 = u /\ (16 * u + v) % 16 = v
  OBVIOUS

(* The same by four. *)
LEMMA Fours ==
  ASSUME NEW u \in Nat, NEW v \in Nat, v < 4
  PROVE  (4 * u + v) \div 4 = u /\ (4 * u + v) % 4 = v
  OBVIOUS

(* Reading the text of bytes gives them back. *)
LEMMA RoundTrip ==
  ASSUME NEW b \in Seq(Byte), NEW n \in Nat, n = Len(b),
         NEW t \in Seq(Sixes), NEW m \in Nat, m = SymbolsFor(n), TextLen(n) = Len(t),
         \A i \in 1 .. Len(t) : t[i] = SymbolAt(b, i),
         NEW k \in 1 .. n
  PROVE  ByteAt(t, m, k) = b[k]
<1>0. k \in Nat /\ k >= 1 /\ k <= n
  OBVIOUS
<1>1. PICK g \in Nat : k \in {3 * g + 1, 3 * g + 2, 3 * g + 3}
  BY ONLY <1>0, Thirds
<1>2. \A j \in 1 .. n : b[j] \in Nat /\ b[j] < 256
  BY BytesAre
<1>3. PICK x \in Nat, y \in Nat, z \in Nat :
        /\ x = OrZero(b, n, 3 * g + 1) /\ y = OrZero(b, n, 3 * g + 2) /\ z = OrZero(b, n, 3 * g + 3)
        /\ x < 256 /\ y < 256 /\ z < 256
  <2>1. PICK p \in Nat : p = 256
    OBVIOUS
  <2>2. \A j \in Nat : j >= 1 => OrZero(b, n, j) \in Nat /\ OrZero(b, n, j) < p
    BY ONLY <1>2, <2>1, n \in Nat, p \in Nat DEF OrZero
  <2>3. /\ 3 * g + 1 \in Nat /\ 3 * g + 2 \in Nat /\ 3 * g + 3 \in Nat
        /\ 3 * g + 1 >= 1 /\ 3 * g + 2 >= 1 /\ 3 * g + 3 >= 1
    OBVIOUS
  <2> QED
    BY ONLY <2>1, <2>2, <2>3
<1>4. /\ SymbolAt(b, 4 * g + 1) = x \div 4
      /\ SymbolAt(b, 4 * g + 2) = 16 * (x % 4) + (y \div 16)
      /\ 3 * g + 2 <= n => SymbolAt(b, 4 * g + 3) = 4 * (y % 16) + (z \div 64)
      /\ 3 * g + 3 <= n => SymbolAt(b, 4 * g + 4) = z % 64
  BY ONLY <1>3, n \in Nat, n = Len(b), g \in Nat, SymbolsOf
<1>5. \A i \in Nat : i >= 1 /\ i <= m => OrZero(t, m, i) = SymbolAt(b, i)
  <2>1. m <= Len(t) /\ Len(t) \in Nat
    BY TextLengths
  <2>2. \A i \in 1 .. Len(t) : t[i] = SymbolAt(b, i)
    OBVIOUS
  <2> QED
    BY ONLY <2>1, <2>2, m \in Nat DEF OrZero
<1>6. /\ 3 * g + 1 <= n => 4 * g + 2 <= m
      /\ 3 * g + 2 <= n => 4 * g + 3 <= m
      /\ 3 * g + 3 <= n => 4 * g + 4 <= m
  <2>1. m = 4 * (n \div 3) + (IF n % 3 = 0 THEN 0 ELSE (n % 3) + 1)
    BY DEF SymbolsFor
  <2>2. n = 3 * (n \div 3) + (n % 3) /\ n \div 3 \in Nat /\ n % 3 \in 0 .. 2
    BY ONLY n \in Nat
  <2> QED
    BY ONLY <2>1, <2>2, g \in Nat, n \in Nat
<1>7. CASE k = 3 * g + 1
  <2>1. OrZero(t, m, 4 * g + 1) = x \div 4 /\ OrZero(t, m, 4 * g + 2) = 16 * (x % 4) + (y \div 16)
    BY ONLY <1>0, <1>4, <1>5, <1>6, <1>7, g \in Nat, m \in Nat
  <2>2. ByteAt(t, m, k) = 4 * (x \div 4) + ((16 * (x % 4) + (y \div 16)) \div 16)
    <3>1. ByteAt(t, m, 3 * g + 1) = 4 * OrZero(t, m, 4 * g + 1) + (OrZero(t, m, 4 * g + 2) \div 16)
      BY ONLY g \in Nat, BytesOf
    <3> QED
      BY ONLY <1>7, <2>1, <3>1
  <2>3. 4 * (x \div 4) + ((16 * (x % 4) + (y \div 16)) \div 16) = x
    <3>1. PICK u \in Nat, v \in Nat : u = x % 4 /\ v = y \div 16 /\ v < 16
      BY ONLY <1>3, x \in Nat, y \in Nat
    <3>2. (16 * u + v) \div 16 = u
      BY ONLY <3>1, u \in Nat, v \in Nat, Sixteens
    <3>3. 4 * (x \div 4) + (x % 4) = x
      BY ONLY x \in Nat
    <3> QED
      BY ONLY <3>1, <3>2, <3>3
  <2>4. b[k] = x
    BY ONLY <1>0, <1>3, <1>7 DEF OrZero
  <2> QED
    BY ONLY <2>2, <2>3, <2>4
<1>8. CASE k = 3 * g + 2
  <2>1. /\ OrZero(t, m, 4 * g + 2) = 16 * (x % 4) + (y \div 16)
        /\ OrZero(t, m, 4 * g + 3) = 4 * (y % 16) + (z \div 64)
    BY ONLY <1>0, <1>4, <1>5, <1>6, <1>8, g \in Nat, m \in Nat, n \in Nat
  <2>2. ByteAt(t, m, k) = 16 * ((16 * (x % 4) + (y \div 16)) % 16)
                          + ((4 * (y % 16) + (z \div 64)) \div 4)
    <3>1. ByteAt(t, m, 3 * g + 2) = 16 * (OrZero(t, m, 4 * g + 2) % 16) + (OrZero(t, m, 4 * g + 3) \div 4)
      BY ONLY g \in Nat, BytesOf
    <3> QED
      BY ONLY <1>8, <2>1, <3>1
  <2>3. (16 * (x % 4) + (y \div 16)) % 16 = y \div 16
    <3>1. PICK u \in Nat, v \in Nat : u = x % 4 /\ v = y \div 16 /\ v < 16
      BY ONLY <1>3, x \in Nat, y \in Nat
    <3>2. (16 * u + v) % 16 = v
      BY ONLY <3>1, u \in Nat, v \in Nat, Sixteens
    <3> QED
      BY ONLY <3>1, <3>2
  <2>4. (4 * (y % 16) + (z \div 64)) \div 4 = y % 16
    <3>1. PICK u \in Nat, v \in Nat : u = y % 16 /\ v = z \div 64 /\ v < 4
      BY ONLY <1>3, y \in Nat, z \in Nat
    <3>2. (4 * u + v) \div 4 = u
      BY ONLY <3>1, u \in Nat, v \in Nat, Fours
    <3> QED
      BY ONLY <3>1, <3>2
  <2>5. 16 * (y \div 16) + (y % 16) = y
    BY ONLY y \in Nat
  <2>6. b[k] = y
    BY ONLY <1>0, <1>3, <1>8 DEF OrZero
  <2> QED
    BY ONLY <2>2, <2>3, <2>4, <2>5, <2>6
<1>9. CASE k = 3 * g + 3
  <2>1. /\ OrZero(t, m, 4 * g + 3) = 4 * (y % 16) + (z \div 64)
        /\ OrZero(t, m, 4 * g + 4) = z % 64
    BY ONLY <1>0, <1>4, <1>5, <1>6, <1>9, g \in Nat, m \in Nat, n \in Nat
  <2>2. ByteAt(t, m, k) = 64 * ((4 * (y % 16) + (z \div 64)) % 4) + (z % 64)
    BY ONLY <1>9, <2>1, g \in Nat, BytesOf
  <2>3. (4 * (y % 16) + (z \div 64)) % 4 = z \div 64
    <3>1. PICK u \in Nat, v \in Nat : u = y % 16 /\ v = z \div 64 /\ v < 4
      BY ONLY <1>3, y \in Nat, z \in Nat
    <3>2. (4 * u + v) % 4 = v
      BY ONLY <3>1, u \in Nat, v \in Nat, Fours
    <3> QED
      BY ONLY <3>1, <3>2
  <2>4. 64 * (z \div 64) + (z % 64) = z
    BY ONLY z \in Nat
  <2>5. b[k] = z
    BY ONLY <1>0, <1>3, <1>9 DEF OrZero
  <2> QED
    BY ONLY <2>2, <2>3, <2>4, <2>5
<1> QED
  BY <1>1, <1>7, <1>8, <1>9

\* A cursor's text and what stands behind it.
IsCursorText(t, e, n, m) ==
  /\ e \in Seq(Byte) /\ n = Len(e) /\ IsText(t, n) /\ m = SymbolsFor(n)
  /\ \A k \in 1 .. n : ByteAt(t, m, k) = e[k]

(* The text of a cursor. *)
LEMMA CursorText ==
  ASSUME NEW c, CursorOK(c)
  PROVE  /\ IsCursorText(EncodeText(c), Encode(c), BodyLen(c) + 2, SymbolsFor(BodyLen(c) + 2))
         /\ DecodeText(EncodeText(c)) = Decoded(c)
<1> PICK e : e = Encode(c)
  OBVIOUS
<1> PICK n \in Nat : n = BodyLen(c) + 2
  BY Lengths
<1>1. e \in Seq(Byte) /\ n = Len(e)
  BY EncodeIs
<1> PICK t : t = Base64Encode(e)
  OBVIOUS
<1> PICK m \in Nat : m = SymbolsFor(n)
  BY TextLengths
<1>2. IsText(t, n) /\ \A i \in 1 .. TextLen(n) : t[i] = SymbolAt(e, i)
  BY <1>1, TextIs
<1>3. t \in Seq(Sixes) /\ TextLen(n) = Len(t) /\ m <= Len(t) /\ BytesFor(m) = n /\ Len(t) \in Nat
  BY <1>2, TextLengths DEF IsText
<1>4. \A k \in 1 .. n : ByteAt(t, m, k) = e[k]
  <2> TAKE k \in 1 .. n
  <2>1. \A i \in 1 .. Len(t) : t[i] = SymbolAt(e, i)
    BY <1>2, <1>3
  <2>2. m = SymbolsFor(n)
    OBVIOUS
  <2> QED
    BY ONLY <1>1, <1>3, <2>1, <2>2, n \in Nat, m \in Nat, k \in 1 .. n, RoundTrip
<1>5. /\ \A i \in 1 .. m : t[i] # Padding
      /\ \A i \in 1 .. Len(t) : i > m => t[i] = Padding
  <2>1. \A i \in 1 .. Len(t) : IF i <= m THEN t[i] < 64 ELSE t[i] = Padding
    BY <1>2, <1>3 DEF IsText
  <2> QED
    BY ONLY <1>3, <2>1, m \in Nat, PaddingIs
<1>6. Kept(t) = m
  <2>1. m = 0 \/ t[m] # Padding
    BY <1>5
  <2> QED
    BY ONLY <1>3, <1>5, <2>1, m \in Nat, KeptIs
<1> PICK d : d = Base64Decode(t)
  OBVIOUS
<1>7. /\ DecodeText(t) = Decode(d) /\ d \in Seq(Byte) /\ Len(d) = n
      /\ \A k \in 1 .. n : d[k] = ByteAt(t, m, k)
  BY <1>3, <1>5, <1>6, DecodedIs
<1>8. d = e
  BY <1>1, <1>4, <1>7, SeqEqual
<1>9. DecodeText(t) = Decoded(c)
  BY <1>7, <1>8, DecodesBack
<1>10. EncodeText(c) = t
  BY DEF EncodeText
<1> QED
  BY <1>1, <1>2, <1>4, <1>9, <1>10 DEF IsCursorText

\* u is t with another symbol s at i.
Changed(u, t, i, s) ==
  /\ u \in Seq(Sixes) /\ Len(u) = Len(t) /\ i \in 1 .. Len(t) /\ u[i] = s /\ s # t[i]
  /\ \A j \in 1 .. Len(t) : j # i => u[j] = t[j]

(* What is known of a cursor's text. *)
LEMMA CursorTextIs ==
  ASSUME NEW t, NEW e, NEW n \in Nat, NEW m \in Nat, IsCursorText(t, e, n, m)
  PROVE  /\ t \in Seq(Sixes) /\ Len(t) \in Nat /\ m <= Len(t) /\ Len(t) <= m + 2
         /\ \A j \in 1 .. Len(t) : t[j] \in Nat /\ t[j] <= 64
         /\ \A j \in 1 .. m : t[j] < 64
         /\ \A j \in 1 .. Len(t) : j > m => t[j] = 64
         /\ e \in Seq(Byte) /\ Len(e) = n /\ BytesFor(m) = n
         /\ \A k \in 1 .. n : ByteAt(t, m, k) = e[k]
<1>1. /\ t \in Seq(Sixes) /\ Len(t) = TextLen(n) /\ m = SymbolsFor(n)
      /\ \A i \in 1 .. TextLen(n) : IF i <= m THEN t[i] < 64 ELSE t[i] = Padding
  BY DEF IsCursorText, IsText
<1>2. TextLen(n) \in Nat /\ m <= TextLen(n) /\ TextLen(n) <= m + 2 /\ BytesFor(m) = n
  BY <1>1, TextLengths
<1>3. \A j \in 1 .. Len(t) : t[j] \in Nat /\ t[j] <= 64
  <2>1. \A j \in 1 .. Len(t) : t[j] \in Sixes
    BY <1>1
  <2> QED
    BY ONLY <2>1 DEF Sixes
<1>4. \A j \in 1 .. m : t[j] < 64
  BY ONLY <1>1, <1>2, m \in Nat
<1>5. \A j \in 1 .. Len(t) : j > m => t[j] = 64
  BY ONLY <1>1, <1>2, m \in Nat, PaddingIs
<1>6. e \in Seq(Byte) /\ Len(e) = n /\ \A k \in 1 .. n : ByteAt(t, m, k) = e[k]
  BY DEF IsCursorText
<1> QED
  BY ONLY <1>1, <1>2, <1>3, <1>4, <1>5, <1>6

(* What the symbols of a changed text are. *)
LEMMA ChangedIs ==
  ASSUME NEW u, NEW t, NEW i, NEW s, Changed(u, t, i, s), Len(t) \in Nat
  PROVE  /\ \A j \in 1 .. Len(t) : u[j] \in Nat /\ u[j] <= 64
         /\ s \in Nat /\ s <= 64 /\ i \in Nat
<1>1. \A j \in 1 .. Len(t) : u[j] \in Sixes
  BY DEF Changed
<1>2. \A j \in 1 .. Len(t) : u[j] \in Nat /\ u[j] <= 64
  BY ONLY <1>1 DEF Sixes
<1> QED
  BY <1>2 DEF Changed

\* u keeps q symbols, the first a of which are those of t: enough for l bytes.
Shares(u, q, a, l, t, n, m) ==
  /\ u \in Seq(Sixes) /\ q <= Len(u) /\ Kept(u) = q /\ \A j \in 1 .. q : u[j] # Padding
  /\ a <= q /\ a <= m /\ \A j \in 1 .. a : u[j] = t[j]
  /\ l <= n /\ l <= BytesFor(q) /\ \A k \in 1 .. l : k + ((k - 1) \div 3) + 1 <= a

\* u gives the bytes d, the first l of which are those of e.
Gives(u, q, d, e, l) ==
  /\ d = Base64Decode(u) /\ DecodeText(u) = Decode(d)
  /\ d \in Seq(Byte) /\ Len(d) = BytesFor(q) /\ AgreeUpto(d, e, l)

(* The bytes of texts that agree up to a agree as far as a goes. *)
LEMMA AgreeingBytes ==
  ASSUME NEW t, NEW e, NEW n \in Nat, NEW m \in Nat, IsCursorText(t, e, n, m),
         NEW u, NEW q \in Nat, NEW a \in Nat, NEW l \in Nat, Shares(u, q, a, l, t, n, m)
  PROVE  \E d : Gives(u, q, d, e, l)
<1> PICK d : d = Base64Decode(u)
  OBVIOUS
<1>1. /\ DecodeText(u) = Decode(d) /\ d \in Seq(Byte) /\ Len(d) = BytesFor(q)
      /\ \A k \in 1 .. BytesFor(q) : d[k] = ByteAt(u, q, k)
  BY DecodedIs DEF Shares
<1>2. \A k \in 1 .. n : ByteAt(t, m, k) = e[k]
  BY CursorTextIs
<1>3. BytesFor(q) \in Nat
  BY DEF BytesFor
<1>4. ASSUME NEW k \in 1 .. l
      PROVE  d[k] = e[k]
  <2>1. k \in Nat /\ k >= 1 /\ k \in 1 .. n /\ k \in 1 .. BytesFor(q)
    BY <1>3 DEF Shares
  <2>2. a <= q /\ a <= m /\ \A j \in 1 .. a : u[j] = t[j]
    BY DEF Shares
  <2>3. k + ((k - 1) \div 3) + 1 <= a
    BY DEF Shares
  <2>4. ByteAt(u, q, k) = ByteAt(t, m, k)
    BY ONLY <2>1, <2>2, <2>3, q \in Nat, m \in Nat, a \in Nat, SameByte
  <2> QED
    BY <1>1, <1>2, <2>1, <2>4
<1>5. AgreeUpto(d, e, l)
  BY <1>4 DEF AgreeUpto
<1> QED
  BY <1>1, <1>5 DEF Gives

(* One symbol less gives one byte less, or as many. *)
LEMMA SymbolLess ==
  ASSUME NEW n \in Nat, n >= 2, NEW m \in Nat, m = SymbolsFor(n)
  PROVE  /\ m >= 1
         /\ BytesFor(m - 1) \in {n - 1, n}
         /\ \A k \in 1 .. n - 2 : k + ((k - 1) \div 3) + 1 <= m - 1
<1>1. PICK q \in Nat, r \in Nat : n = 3 * q + r /\ r < 3 /\ n \div 3 = q /\ n % 3 = r
  <2>1. n = 3 * (n \div 3) + (n % 3) /\ n \div 3 \in Nat /\ n % 3 \in Nat /\ n % 3 < 3
    OBVIOUS
  <2> QED
    BY <2>1
<1>2. m = 4 * q + (IF r = 0 THEN 0 ELSE r + 1)
  BY <1>1 DEF SymbolsFor
<1>3. m >= 1
  BY ONLY <1>1, <1>2, n >= 2, q \in Nat, r \in Nat
<1>4. ASSUME NEW k \in 1 .. n - 2
      PROVE  k + ((k - 1) \div 3) + 1 <= m - 1
  <2>1. k \in Nat /\ k >= 1 /\ k <= n - 2
    OBVIOUS
  <2>2. PICK g \in Nat : k \in {3 * g + 1, 3 * g + 2, 3 * g + 3}
    BY ONLY <2>1, Thirds
  <2>3. (k - 1) \div 3 = g
    BY ONLY <2>1, <2>2, g \in Nat
  <2> QED
    BY ONLY <1>1, <1>2, <2>1, <2>2, <2>3, n \in Nat, m \in Nat, q \in Nat, r \in Nat, g \in Nat
<1>5. BytesFor(m - 1) = 3 * ((m - 1) \div 4) + (((m - 1) % 4) + 1) \div 2
  BY DEF BytesFor
<1>6. CASE r = 0
  <2>1. (m - 1) \div 4 = q - 1 /\ (m - 1) % 4 = 3
    BY ONLY <1>2, <1>3, <1>6, m \in Nat, q \in Nat
  <2>2. BytesFor(m - 1) = 3 * (q - 1) + 2
    BY ONLY <1>5, <2>1, q \in Nat
  <2> QED
    BY ONLY <1>1, <1>3, <1>4, <1>6, <2>2, n \in Nat, q \in Nat
<1>7. CASE r = 1
  <2>1. (m - 1) \div 4 = q /\ (m - 1) % 4 = 1
    BY ONLY <1>2, <1>3, <1>7, m \in Nat, q \in Nat
  <2>2. BytesFor(m - 1) = 3 * q + 1
    BY ONLY <1>5, <2>1, q \in Nat
  <2> QED
    BY ONLY <1>1, <1>3, <1>4, <1>7, <2>2, n \in Nat, q \in Nat
<1>8. CASE r = 2
  <2>1. (m - 1) \div 4 = q /\ (m - 1) % 4 = 2
    BY ONLY <1>2, <1>3, <1>8, m \in Nat, q \in Nat
  <2>2. BytesFor(m - 1) = 3 * q + 1
    BY ONLY <1>5, <2>1, q \in Nat
  <2> QED
    BY ONLY <1>1, <1>3, <1>4, <1>8, <2>2, n \in Nat, q \in Nat
<1> QED
  BY ONLY <1>1, <1>6, <1>7, <1>8, r \in Nat

(* One symbol more, where there was padding, gives at least as many bytes. *)
LEMMA SymbolMore ==
  ASSUME NEW n \in Nat, NEW m \in Nat, m = SymbolsFor(n), m + 1 <= TextLen(n)
  PROVE  /\ BytesFor(m + 1) \in Nat /\ BytesFor(m + 1) >= n
         /\ \A k \in 1 .. n : k + ((k - 1) \div 3) + 1 <= m
<1>1. PICK q \in Nat, r \in Nat : n = 3 * q + r /\ r < 3 /\ n \div 3 = q /\ n % 3 = r
  <2>1. n = 3 * (n \div 3) + (n % 3) /\ n \div 3 \in Nat /\ n % 3 \in Nat /\ n % 3 < 3
    OBVIOUS
  <2> QED
    BY <2>1
<1>2. m = 4 * q + (IF r = 0 THEN 0 ELSE r + 1)
  BY <1>1 DEF SymbolsFor
<1>3. r # 0
  <2>1. (n + 2) \div 3 = IF r = 0 THEN q ELSE q + 1
    BY ONLY <1>1, n \in Nat, q \in Nat, r \in Nat
  <2>2. m + 1 <= 4 * (IF r = 0 THEN q ELSE q + 1)
    BY <2>1 DEF TextLen
  <2> QED
    BY ONLY <1>2, <2>2, q \in Nat, r \in Nat
<1>4. ASSUME NEW k \in 1 .. n
      PROVE  k + ((k - 1) \div 3) + 1 <= m
  <2>1. k \in Nat /\ k >= 1 /\ k <= n
    OBVIOUS
  <2>2. PICK g \in Nat : k \in {3 * g + 1, 3 * g + 2, 3 * g + 3}
    BY ONLY <2>1, Thirds
  <2>3. (k - 1) \div 3 = g
    BY ONLY <2>1, <2>2, g \in Nat
  <2> QED
    BY ONLY <1>1, <1>2, <2>1, <2>2, <2>3, n \in Nat, m \in Nat, q \in Nat, r \in Nat, g \in Nat
<1>5. BytesFor(m + 1) = 3 * ((m + 1) \div 4) + (((m + 1) % 4) + 1) \div 2
  BY DEF BytesFor
<1>6. CASE r = 1
  <2>1. (m + 1) \div 4 = q /\ (m + 1) % 4 = 3
    BY ONLY <1>2, <1>6, m \in Nat, q \in Nat
  <2>2. BytesFor(m + 1) = 3 * q + 2
    BY ONLY <1>5, <2>1, q \in Nat
  <2> QED
    BY ONLY <1>1, <1>4, <1>6, <2>2, n \in Nat, q \in Nat
<1>7. CASE r = 2
  <2>1. (m + 1) \div 4 = q + 1 /\ (m + 1) % 4 = 0
    BY ONLY <1>2, <1>7, m \in Nat, q \in Nat
  <2>2. BytesFor(m + 1) = 3 * (q + 1)
    BY ONLY <1>5, <2>1, q \in Nat
  <2> QED
    BY ONLY <1>1, <1>4, <1>7, <2>2, n \in Nat, q \in Nat
<1> QED
  BY ONLY <1>1, <1>3, <1>6, <1>7, r \in Nat

(* Padding before the last symbol is found, as is padding within a text. *)
LEMMA PaddingWithin ==
  ASSUME NEW u \in Seq(Sixes), NEW q \in Nat, Kept(u) = q, NEW i \in 1 .. q, u[i] = Padding
  PROVE  DecodeText(u) = Invalid
  BY DEF DecodeText

(* The last symbol turned into padding. *)
LEMMA LastLost ==
  ASSUME NEW c, CursorOK(c), NEW n \in Nat, n = BodyLen(c) + 2, NEW m \in Nat,
         NEW t, NEW e, e = Encode(c), IsCursorText(t, e, n, m),
         NEW u, Changed(u, t, m, Padding)
  PROVE  DecodeText(u) \in {Invalid, Decoded(c)}
<1> PICK b \in Nat : b = BodyLen(c)
  BY Lengths
<1>1. n = b + 2 /\ n >= 2 /\ m = SymbolsFor(n)
  BY Lengths DEF IsCursorText
<1>2. /\ m >= 1 /\ BytesFor(m - 1) \in {n - 1, n}
      /\ \A k \in 1 .. n - 2 : k + ((k - 1) \div 3) + 1 <= m - 1
  BY ONLY <1>1, n \in Nat, m \in Nat, SymbolLess
<1> PICK q \in Nat : q = m - 1
  BY <1>2
<1>3. /\ Len(t) \in Nat /\ m <= Len(t)
      /\ \A j \in 1 .. m : t[j] < 64
      /\ \A j \in 1 .. Len(t) : j > m => t[j] = 64
  BY ONLY IsCursorText(t, e, n, m), n \in Nat, m \in Nat, CursorTextIs
<1>4. u \in Seq(Sixes) /\ Len(u) = Len(t) /\ u[m] = 64 /\ \A j \in 1 .. Len(t) : j # m => u[j] = t[j]
  BY PaddingIs DEF Changed
<1>5. \A j \in 1 .. q : u[j] = t[j] /\ u[j] # Padding
  BY ONLY <1>3, <1>4, q = m - 1, m \in Nat, PaddingIs
<1>6. q <= Len(u) /\ (q = 0 \/ u[q] # Padding) /\ \A j \in 1 .. Len(u) : j > q => u[j] = Padding
  <2>1. q = 0 \/ u[q] # Padding
    BY <1>5
  <2>2. \A j \in 1 .. Len(u) : j > q => u[j] = Padding
    BY ONLY <1>3, <1>4, q = m - 1, m \in Nat, PaddingIs
  <2> QED
    BY ONLY <1>3, <1>4, q = m - 1, m \in Nat, <2>1, <2>2
<1>7. Kept(u) = q
  BY ONLY <1>4, <1>6, q \in Nat, KeptIs
<1> PICK l \in Nat : l = BytesFor(q)
  BY <1>1, <1>2
<1>8. PICK d : DecodeText(u) = Decode(d) /\ d \in Seq(Byte) /\ Len(d) = l /\ AgreeUpto(d, e, b)
  <2>1. \A k \in 1 .. b : k + ((k - 1) \div 3) + 1 <= q
    BY ONLY <1>1, <1>2, q = m - 1, b \in Nat
  <2>2. b <= n /\ b <= l /\ q <= m /\ q <= q
    BY ONLY <1>1, <1>2, q = m - 1, l = BytesFor(q), b \in Nat, m \in Nat
  <2>3. Shares(u, q, q, b, t, n, m)
    BY ONLY <1>4, <1>5, <1>6, <1>7, <2>1, <2>2, l = BytesFor(q) DEF Shares
  <2>4. PICK d : Gives(u, q, d, e, b)
    BY ONLY <2>3, q \in Nat, b \in Nat, n \in Nat, m \in Nat, IsCursorText(t, e, n, m), AgreeingBytes
  <2> QED
    BY ONLY <2>4, l = BytesFor(q) DEF Gives
<1>9. AgreeUpto(d, Body(c), b)
  BY <1>8, EncodeIs DEF AgreeUpto
<1>10. CASE l = n
  BY <1>1, <1>8, <1>9, <1>10, LongEnough
<1>11. CASE l = n - 1
  <2>1. Len(d) = b + 1
    BY <1>1, <1>8, <1>11
  <2> QED
    BY <1>8, <1>9, <2>1, OneShort
<1> QED
  BY <1>2, <1>10, <1>11

(* Padding turned into a symbol. *)
LEMMA PaddingLost ==
  ASSUME NEW c, CursorOK(c), NEW n \in Nat, n = BodyLen(c) + 2, NEW m \in Nat,
         NEW t, NEW e, e = Encode(c), IsCursorText(t, e, n, m),
         NEW i \in Nat, i > m, NEW s, NEW u, Changed(u, t, i, s)
  PROVE  DecodeText(u) \in {Invalid, Decoded(c)}
<1> PICK b \in Nat : b = BodyLen(c)
  BY Lengths
<1>1. n = b + 2 /\ m = SymbolsFor(n) /\ Len(t) = TextLen(n)
  BY Lengths DEF IsCursorText, IsText
<1>2. /\ Len(t) \in Nat /\ m <= Len(t) /\ Len(t) <= m + 2
      /\ \A j \in 1 .. m : t[j] < 64
      /\ \A j \in 1 .. Len(t) : j > m => t[j] = 64
  BY CursorTextIs
<1>3. /\ u \in Seq(Sixes) /\ Len(u) = Len(t) /\ u[i] # 64 /\ i <= Len(t)
      /\ \A j \in 1 .. Len(t) : j # i => u[j] = t[j]
  BY <1>2 DEF Changed
<1>4. Kept(u) = i
  <2>1. u[i] # Padding /\ \A j \in 1 .. Len(u) : j > i => u[j] = Padding
    BY ONLY <1>2, <1>3, i \in Nat, m \in Nat, i > m, PaddingIs
  <2> QED
    BY ONLY <1>3, <2>1, i \in Nat, KeptIs
<1>5. CASE i = m + 2
  <2>1. m + 1 \in 1 .. i /\ u[m + 1] = Padding
    BY ONLY <1>2, <1>3, <1>5, i \in Nat, m \in Nat, PaddingIs
  <2> QED
    BY ONLY <1>3, <1>4, <2>1, i \in Nat, PaddingWithin
<1>6. CASE i = m + 1
  <2>1. /\ BytesFor(i) \in Nat /\ BytesFor(i) >= n
        /\ \A k \in 1 .. n : k + ((k - 1) \div 3) + 1 <= m
    <3>1. m + 1 <= TextLen(n)
      BY <1>1, <1>3, <1>6
    <3> QED
      BY ONLY <1>1, <1>6, <3>1, n \in Nat, m \in Nat, SymbolMore
  <2>2. \A j \in 1 .. i : u[j] # Padding
    BY ONLY <1>2, <1>3, <1>6, i \in Nat, m \in Nat, PaddingIs
  <2>3. \A j \in 1 .. m : u[j] = t[j]
    BY ONLY <1>2, <1>3, <1>6, i \in Nat, m \in Nat
  <2>4. PICK d : /\ DecodeText(u) = Decode(d) /\ d \in Seq(Byte) /\ Len(d) = BytesFor(i)
                 /\ AgreeUpto(d, e, n)
    <3>1. i <= Len(u) /\ m <= i /\ m <= m /\ n <= n
      BY ONLY <1>3, <1>6, i \in Nat, n \in Nat, m \in Nat
    <3>2. Shares(u, i, m, n, t, n, m)
      BY ONLY <1>3, <1>4, <2>1, <2>2, <2>3, <3>1, n \in Nat DEF Shares
    <3>3. PICK d : Gives(u, i, d, e, n)
      BY ONLY <3>2, i \in Nat, n \in Nat, m \in Nat, IsCursorText(t, e, n, m), AgreeingBytes
    <3> QED
      BY ONLY <3>3 DEF Gives
  <2>5. AgreeUpto(d, Body(c), b)
    <3>1. AgreeUpto(e, Body(c), b)
      BY EncodeIs
    <3> QED
      BY ONLY <1>1, <2>4, <3>1, b \in Nat DEF AgreeUpto
  <2>6. Len(d) >= b + 2
    BY <1>1, <2>1, <2>4
  <2> QED
    BY <2>4, <2>5, <2>6, LongEnough
<1> QED
  BY ONLY <1>2, <1>3, <1>5, <1>6, i \in Nat, m \in Nat, i > m

(* The first symbol of a group: its byte tells it from another. *)
LEMMA FirstApart ==
  ASSUME NEW s \in Nat, NEW x \in Nat, NEW h \in Int, s < 64, x < 64,
         (((4 * s + h) - (4 * x + h)) + 0) % 256 = 0
  PROVE  s = x
  OBVIOUS

(* The second symbol: the sum of its two bytes does. *)
LEMMA SecondApart ==
  ASSUME NEW s \in Nat, NEW x \in Nat, NEW h \in Int, NEW l \in Int, s < 64, x < 64,
         (((h + (s \div 16)) - (h + (x \div 16)))
           + ((16 * (s % 16) + l) - (16 * (x % 16) + l))) % 256 = 0
  PROVE  s = x
<1>1. PICK p \in Nat, q \in Nat : p = s \div 16 /\ q = s % 16 /\ s = 16 * p + q /\ q < 16 /\ p < 4
  BY ONLY s \in Nat, s < 64
<1>2. PICK v \in Nat, w \in Nat : v = x \div 16 /\ w = x % 16 /\ x = 16 * v + w /\ w < 16 /\ v < 4
  BY ONLY x \in Nat, x < 64
<1>3. PICK d \in Int : d = (p - v) + 16 * (q - w)
  OBVIOUS
<1>4. d % 256 = 0
  BY <1>1, <1>2, <1>3
<1>5. d < 256 /\ d > -256
  BY ONLY <1>1, <1>2, <1>3, p \in Nat, q \in Nat, v \in Nat, w \in Nat
<1>6. d = 0
  BY ONLY <1>4, <1>5, d \in Int
<1>7. p = v /\ q = w
  BY ONLY <1>1, <1>2, <1>3, <1>6, p \in Nat, q \in Nat, v \in Nat, w \in Nat
<1> QED
  BY ONLY <1>1, <1>2, <1>7

(* So it is with the third. *)
LEMMA ThirdApart ==
  ASSUME NEW s \in Nat, NEW x \in Nat, NEW h \in Int, NEW l \in Int, s < 64, x < 64,
         (((h + (s \div 4)) - (h + (x \div 4)))
           + ((64 * (s % 4) + l) - (64 * (x % 4) + l))) % 256 = 0
  PROVE  s = x
<1>1. PICK p \in Nat, q \in Nat : p = s \div 4 /\ q = s % 4 /\ s = 4 * p + q /\ q < 4 /\ p < 16
  BY ONLY s \in Nat, s < 64
<1>2. PICK v \in Nat, w \in Nat : v = x \div 4 /\ w = x % 4 /\ x = 4 * v + w /\ w < 4 /\ v < 16
  BY ONLY x \in Nat, x < 64
<1>3. PICK d \in Int : d = (p - v) + 64 * (q - w)
  OBVIOUS
<1>4. d % 256 = 0
  BY <1>1, <1>2, <1>3
<1>5. d < 256 /\ d > -256
  BY ONLY <1>1, <1>2, <1>3, p \in Nat, q \in Nat, v \in Nat, w \in Nat
<1>6. d = 0
  BY ONLY <1>4, <1>5, d \in Int
<1>7. p = v /\ q = w
  BY ONLY <1>1, <1>2, <1>3, <1>6, p \in Nat, q \in Nat, v \in Nat, w \in Nat
<1> QED
  BY ONLY <1>1, <1>2, <1>7

(* The fourth symbol is in one byte again. *)
LEMMA FourthApart ==
  ASSUME NEW s \in Nat, NEW x \in Nat, NEW h \in Int, s < 64, x < 64,
         (((h + s) - (h + x)) + 0) % 256 = 0
  PROVE  s = x
  OBVIOUS

(* A symbol turned into another moves two neighbouring bytes at most, in sum. *)
LEMMA SymbolChanged ==
  ASSUME NEW t, NEW e, NEW n \in Nat, NEW m \in Nat, IsCursorText(t, e, n, m),
         NEW u, NEW s, s < 64, NEW i \in 1 .. m, Changed(u, t, i, s)
  PROVE  \E d \in Seq(Byte), k \in Nat : DecodeText(u) = Decode(d) /\ Nudged(d, e, k)
<1>1. /\ t \in Seq(Sixes) /\ Len(t) \in Nat /\ m <= Len(t)
      /\ \A j \in 1 .. Len(t) : t[j] \in Nat /\ t[j] <= 64
      /\ \A j \in 1 .. m : t[j] < 64
      /\ \A j \in 1 .. Len(t) : j > m => t[j] = 64
      /\ e \in Seq(Byte) /\ Len(e) = n /\ BytesFor(m) = n
      /\ \A k \in 1 .. n : ByteAt(t, m, k) = e[k]
  BY ONLY IsCursorText(t, e, n, m), n \in Nat, m \in Nat, CursorTextIs
<1>2. /\ u \in Seq(Sixes) /\ Len(u) = Len(t) /\ u[i] = s /\ s # t[i]
      /\ \A j \in 1 .. Len(t) : j # i => u[j] = t[j]
      /\ \A j \in 1 .. Len(t) : u[j] \in Nat /\ u[j] <= 64
      /\ s \in Nat
  <2>1. (\A j \in 1 .. Len(t) : u[j] \in Nat /\ u[j] <= 64) /\ s \in Nat
    BY ONLY <1>1, Changed(u, t, i, s), ChangedIs
  <2> QED
    BY ONLY <2>1, Changed(u, t, i, s) DEF Changed
<1>3. \A j \in 1 .. m : u[j] # Padding /\ u[j] \in Nat /\ u[j] < 64
  BY ONLY <1>1, <1>2, s < 64, i \in 1 .. m, m \in Nat, PaddingIs
<1>4. Kept(u) = m
  <2>1. (m = 0 \/ u[m] # Padding) /\ \A j \in 1 .. Len(u) : j > m => u[j] = Padding
    BY ONLY <1>1, <1>2, <1>3, i \in 1 .. m, m \in Nat, PaddingIs
  <2> QED
    BY ONLY <1>1, <1>2, <2>1, m \in Nat, KeptIs
<1> PICK d : d = Base64Decode(u)
  OBVIOUS
<1>5. /\ DecodeText(u) = Decode(d) /\ d \in Seq(Byte) /\ Len(d) = n
      /\ \A k \in 1 .. n : d[k] = ByteAt(u, m, k)
  <2>1. m <= Len(u) /\ \A j \in 1 .. m : u[j] # Padding
    BY ONLY <1>1, <1>2, <1>3
  <2>2. /\ DecodeText(u) = Decode(Base64Decode(u))
        /\ Base64Decode(u) \in Seq(Byte) /\ Len(Base64Decode(u)) = BytesFor(m)
        /\ \A k \in 1 .. BytesFor(m) : Base64Decode(u)[k] = ByteAt(u, m, k)
    BY ONLY <1>2, <1>4, <2>1, m \in Nat, DecodedIs
  <2> QED
    BY ONLY <1>1, <2>2, d = Base64Decode(u)
<1>6. i \in Nat /\ i >= 1 /\ i <= m
  OBVIOUS
<1>7. PICK g \in Nat : i \in {4 * g + 1, 4 * g + 2, 4 * g + 3, 4 * g + 4}
  BY ONLY <1>6, Fourths
<1>8. /\ \A q \in Nat : q >= 1 /\ q # i => OrZero(u, m, q) = OrZero(t, m, q)
      /\ OrZero(u, m, i) = s /\ OrZero(t, m, i) = t[i]
      /\ \A q \in Nat : q >= 1 => OrZero(t, m, q) \in Nat
  BY ONLY <1>1, <1>2, <1>6, m \in Nat DEF OrZero
<1> PICK x \in Nat : x = t[i] /\ x < 64 /\ x # s
  BY <1>1, <1>2, <1>6
<1>9. ASSUME NEW j \in 1 .. n, j \notin {3 * g + 1, 3 * g + 2, 3 * g + 3}
      PROVE  d[j] = e[j]
  <2>0. j \in Nat /\ j >= 1
    OBVIOUS
  <2>1. PICK h \in Nat : j \in {3 * h + 1, 3 * h + 2, 3 * h + 3}
    BY ONLY <2>0, Thirds
  <2>2. h # g
    BY ONLY <1>9, <2>1
  <2>3. /\ 4 * h + 1 # i /\ 4 * h + 2 # i /\ 4 * h + 3 # i /\ 4 * h + 4 # i
        /\ 4 * h + 1 \in Nat /\ 4 * h + 2 \in Nat /\ 4 * h + 3 \in Nat /\ 4 * h + 4 \in Nat
        /\ 4 * h + 1 >= 1 /\ 4 * h + 2 >= 1 /\ 4 * h + 3 >= 1 /\ 4 * h + 4 >= 1
    BY ONLY <1>7, <2>2, g \in Nat, h \in Nat
  <2>4. /\ OrZero(u, m, 4 * h + 1) = OrZero(t, m, 4 * h + 1) /\ OrZero(u, m, 4 * h + 2) = OrZero(t, m, 4 * h + 2)
        /\ OrZero(u, m, 4 * h + 3) = OrZero(t, m, 4 * h + 3) /\ OrZero(u, m, 4 * h + 4) = OrZero(t, m, 4 * h + 4)
    BY ONLY <1>8, <2>3
  <2>5. ByteAt(u, m, j) = ByteAt(t, m, j)
    BY ONLY <2>1, <2>4, h \in Nat, BytesOf
  <2> QED
    BY <1>1, <1>5, <2>5
<1>10. m = SymbolsFor(n)
  BY DEF IsCursorText
<1>11. /\ i \in {4 * g + 1, 4 * g + 2} => 3 * g + 1 <= n
       /\ i = 4 * g + 3 => 3 * g + 2 <= n
       /\ i = 4 * g + 4 => 3 * g + 3 <= n
  <2>1. m = 4 * (n \div 3) + (IF n % 3 = 0 THEN 0 ELSE (n % 3) + 1)
    BY <1>10 DEF SymbolsFor
  <2>2. n = 3 * (n \div 3) + (n % 3) /\ n \div 3 \in Nat /\ n % 3 \in 0 .. 2
    BY ONLY n \in Nat
  <2> QED
    BY ONLY <1>6, <2>1, <2>2, g \in Nat, n \in Nat
<1>12. PICK w1 \in Nat, w2 \in Nat, w3 \in Nat, w4 \in Nat :
         /\ w1 = OrZero(t, m, 4 * g + 1) /\ w2 = OrZero(t, m, 4 * g + 2)
         /\ w3 = OrZero(t, m, 4 * g + 3) /\ w4 = OrZero(t, m, 4 * g + 4)
  <2>1. /\ 4 * g + 1 \in Nat /\ 4 * g + 2 \in Nat /\ 4 * g + 3 \in Nat /\ 4 * g + 4 \in Nat
        /\ 4 * g + 1 >= 1 /\ 4 * g + 2 >= 1 /\ 4 * g + 3 >= 1 /\ 4 * g + 4 >= 1
    OBVIOUS
  <2> QED
    BY ONLY <1>8, <2>1
<1>13. /\ 3 * g + 1 <= n => e[3 * g + 1] = 4 * w1 + (w2 \div 16)
       /\ 3 * g + 2 <= n => e[3 * g + 2] = 16 * (w2 % 16) + (w3 \div 4)
       /\ 3 * g + 3 <= n => e[3 * g + 3] = 64 * (w3 % 4) + w4
  <2>1. /\ ByteAt(t, m, 3 * g + 1) = 4 * w1 + (w2 \div 16)
        /\ ByteAt(t, m, 3 * g + 2) = 16 * (w2 % 16) + (w3 \div 4)
        /\ ByteAt(t, m, 3 * g + 3) = 64 * (w3 % 4) + w4
    BY ONLY <1>12, g \in Nat, BytesOf
  <2> QED
    BY ONLY <1>1, <2>1, g \in Nat, n \in Nat
<1>14. ASSUME NEW v1, NEW v2, NEW v3, NEW v4,
              v1 = OrZero(u, m, 4 * g + 1), v2 = OrZero(u, m, 4 * g + 2),
              v3 = OrZero(u, m, 4 * g + 3), v4 = OrZero(u, m, 4 * g + 4)
       PROVE  /\ 3 * g + 1 <= n => d[3 * g + 1] = 4 * v1 + (v2 \div 16)
              /\ 3 * g + 2 <= n => d[3 * g + 2] = 16 * (v2 % 16) + (v3 \div 4)
              /\ 3 * g + 3 <= n => d[3 * g + 3] = 64 * (v3 % 4) + v4
  <2>1. /\ ByteAt(u, m, 3 * g + 1) = 4 * v1 + (v2 \div 16)
        /\ ByteAt(u, m, 3 * g + 2) = 16 * (v2 % 16) + (v3 \div 4)
        /\ ByteAt(u, m, 3 * g + 3) = 64 * (v3 % 4) + v4
    BY ONLY <1>14, g \in Nat, BytesOf
  <2> QED
    BY ONLY <1>5, <2>1, g \in Nat, n \in Nat
<1>15. CASE i = 4 * g + 1
  <2>1. /\ OrZero(u, m, 4 * g + 1) = s /\ OrZero(u, m, 4 * g + 2) = w2
        /\ OrZero(u, m, 4 * g + 3) = w3 /\ OrZero(u, m, 4 * g + 4) = w4 /\ w1 = x
    BY ONLY <1>8, <1>12, <1>15, g \in Nat, x = t[i]
  <2>2. /\ 3 * g + 1 <= n => d[3 * g + 1] = 4 * s + (w2 \div 16)
        /\ 3 * g + 2 <= n => d[3 * g + 2] = e[3 * g + 2]
        /\ 3 * g + 3 <= n => d[3 * g + 3] = e[3 * g + 3]
    BY ONLY <1>13, <1>14, <2>1
  <2> PICK k \in Nat : k = 3 * g + 1
    OBVIOUS
  <2>3. k \in 1 .. n
    BY <1>11, <1>15
  <2>4. DifferAt(d, e, k)
    <3>1. ASSUME NEW j \in 1 .. n, j # k, j # k + 1
          PROVE  d[j] = e[j]
      <4>1. CASE j \in {3 * g + 1, 3 * g + 2, 3 * g + 3}
        BY ONLY <2>2, <3>1, <4>1, k = 3 * g + 1, g \in Nat, n \in Nat
      <4> QED
        BY ONLY <1>9, <3>1, <4>1
    <3> QED
      BY ONLY <1>1, <1>5, <3>1 DEF DifferAt
  <2>5. k + 1 <= n => ~(((d[k] - e[k]) + (d[k + 1] - e[k + 1])) % 256 = 0)
    <3> SUFFICES ASSUME k + 1 <= n, ((d[k] - e[k]) + (d[k + 1] - e[k + 1])) % 256 = 0
                 PROVE  FALSE
      OBVIOUS
    <3>1. PICK y \in Nat : y = e[k + 1] /\ y = d[k + 1]
      <4>1. k + 1 \in 1 .. n /\ k + 1 = 3 * g + 2
        OBVIOUS
      <4>2. d[k + 1] = e[k + 1]
        BY ONLY <2>2, <4>1
      <4> QED
        BY <1>1, <4>1, <4>2, BytesAre
    <3>2. PICK h \in Int : h = w2 \div 16
      OBVIOUS
    <3>3. d[k] = 4 * s + h /\ e[k] = 4 * x + h
      BY ONLY <1>13, <2>1, <2>2, <2>3, <3>2, k = 3 * g + 1, k \in Nat, n \in Nat
    <3>4. (((4 * s + h) - (4 * x + h)) + 0) % 256 = 0
      <4>1. y - y = 0
        OBVIOUS
      <4> QED
        BY <3>1, <3>3, <4>1
    <3> QED
      BY ONLY <1>2, <3>4, s < 64, x < 64, x # s, x \in Nat, h \in Int, FirstApart
  <2> QED
    BY ONLY <1>1, <1>5, <2>3, <2>4, <2>5, k \in Nat DEF Nudged
<1>16. CASE i = 4 * g + 2
  <2>1. /\ OrZero(u, m, 4 * g + 1) = w1 /\ OrZero(u, m, 4 * g + 2) = s
        /\ OrZero(u, m, 4 * g + 3) = w3 /\ OrZero(u, m, 4 * g + 4) = w4 /\ w2 = x
    BY ONLY <1>8, <1>12, <1>16, g \in Nat, x = t[i]
  <2>2. /\ 3 * g + 1 <= n => d[3 * g + 1] = 4 * w1 + (s \div 16)
        /\ 3 * g + 2 <= n => d[3 * g + 2] = 16 * (s % 16) + (w3 \div 4)
        /\ 3 * g + 3 <= n => d[3 * g + 3] = e[3 * g + 3]
    BY ONLY <1>13, <1>14, <2>1
  <2> PICK k \in Nat : k = 3 * g + 1
    OBVIOUS
  <2>3. k \in 1 .. n
    BY <1>11, <1>16
  <2>4. DifferAt(d, e, k)
    <3>1. ASSUME NEW j \in 1 .. n, j # k, j # k + 1
          PROVE  d[j] = e[j]
      <4>1. CASE j \in {3 * g + 1, 3 * g + 2, 3 * g + 3}
        BY ONLY <2>2, <3>1, <4>1, k = 3 * g + 1, g \in Nat, n \in Nat
      <4> QED
        BY ONLY <1>9, <3>1, <4>1
    <3> QED
      BY ONLY <1>1, <1>5, <3>1 DEF DifferAt
  <2>5. k + 1 <= n => ~(((d[k] - e[k]) + (d[k + 1] - e[k + 1])) % 256 = 0)
    <3> SUFFICES ASSUME k + 1 <= n, ((d[k] - e[k]) + (d[k + 1] - e[k + 1])) % 256 = 0
                 PROVE  FALSE
      OBVIOUS
    <3>1. PICK h \in Int, l \in Int : h = 4 * w1 /\ l = w3 \div 4
      OBVIOUS
    <3>2. /\ d[k] = h + (s \div 16) /\ e[k] = h + (x \div 16)
          /\ d[k + 1] = 16 * (s % 16) + l /\ e[k + 1] = 16 * (x % 16) + l
      <4>1. k + 1 = 3 * g + 2 /\ 3 * g + 1 <= n /\ 3 * g + 2 <= n
        OBVIOUS
      <4> QED
        BY ONLY <1>13, <2>1, <2>2, <3>1, <4>1, k = 3 * g + 1
    <3>3. (((h + (s \div 16)) - (h + (x \div 16)))
            + ((16 * (s % 16) + l) - (16 * (x % 16) + l))) % 256 = 0
      BY ONLY <3>2, ((d[k] - e[k]) + (d[k + 1] - e[k + 1])) % 256 = 0
    <3> QED
      BY ONLY <1>2, <3>3, s < 64, x < 64, x # s, x \in Nat, h \in Int, l \in Int, SecondApart
  <2> QED
    BY ONLY <1>1, <1>5, <2>3, <2>4, <2>5, k \in Nat DEF Nudged
<1>17. CASE i = 4 * g + 3
  <2>1. /\ OrZero(u, m, 4 * g + 1) = w1 /\ OrZero(u, m, 4 * g + 2) = w2
        /\ OrZero(u, m, 4 * g + 3) = s /\ OrZero(u, m, 4 * g + 4) = w4 /\ w3 = x
    BY ONLY <1>8, <1>12, <1>17, g \in Nat, x = t[i]
  <2>2. /\ 3 * g + 1 <= n => d[3 * g + 1] = e[3 * g + 1]
        /\ 3 * g + 2 <= n => d[3 * g + 2] = 16 * (w2 % 16) + (s \div 4)
        /\ 3 * g + 3 <= n => d[3 * g + 3] = 64 * (s % 4) + w4
    BY ONLY <1>13, <1>14, <2>1
  <2> PICK k \in Nat : k = 3 * g + 2
    OBVIOUS
  <2>3. k \in 1 .. n
    BY <1>11, <1>17
  <2>4. DifferAt(d, e, k)
    <3>1. ASSUME NEW j \in 1 .. n, j # k, j # k + 1
          PROVE  d[j] = e[j]
      <4>1. CASE j \in {3 * g + 1, 3 * g + 2, 3 * g + 3}
        BY ONLY <2>2, <3>1, <4>1, k = 3 * g + 2, g \in Nat, n \in Nat
      <4> QED
        BY ONLY <1>9, <3>1, <4>1
    <3> QED
      BY ONLY <1>1, <1>5, <3>1 DEF DifferAt
  <2>5. k + 1 <= n => ~(((d[k] - e[k]) + (d[k + 1] - e[k + 1])) % 256 = 0)
    <3> SUFFICES ASSUME k + 1 <= n, ((d[k] - e[k]) + (d[k + 1] - e[k + 1])) % 256 = 0
                 PROVE  FALSE
      OBVIOUS
    <3>1. PICK h \in Int, l \in Int : h = 16 * (w2 % 16) /\ l = w4
      OBVIOUS
    <3>2. /\ d[k] = h + (s \div 4) /\ e[k] = h + (x \div 4)
          /\ d[k + 1] = 64 * (s % 4) + l /\ e[k + 1] = 64 * (x % 4) + l
      <4>1. k + 1 = 3 * g + 3 /\ 3 * g + 2 <= n /\ 3 * g + 3 <= n
        OBVIOUS
      <4> QED
        BY ONLY <1>13, <2>1, <2>2, <3>1, <4>1, k = 3 * g + 2
    <3>3. (((h + (s \div 4)) - (h + (x \div 4)))
            + ((64 * (s % 4) + l) - (64 * (x % 4) + l))) % 256 = 0
      BY ONLY <3>2, ((d[k] - e[k]) + (d[k + 1] - e[k + 1])) % 256 = 0
    <3> QED
      BY ONLY <1>2, <3>3, s < 64, x < 64, x # s, x \in Nat, h \in Int, l \in Int, ThirdApart
  <2> QED
    BY ONLY <1>1, <1>5, <2>3, <2>4, <2>5, k \in Nat DEF Nudged
<1>18. CASE i = 4 * g + 4
  <2>1. /\ OrZero(u, m, 4 * g + 1) = w1 /\ OrZero(u, m, 4 * g + 2) = w2
        /\ OrZero(u, m, 4 * g + 3) = w3 /\ OrZero(u, m, 4 * g + 4) = s /\ w4 = x
    BY ONLY <1>8, <1>12, <1>18, g \in Nat, x = t[i]
  <2>2. /\ 3 * g + 1 <= n => d[3 * g + 1] = e[3 * g + 1]
        /\ 3 * g + 2 <= n => d[3 * g + 2] = e[3 * g + 2]
        /\ 3 * g + 3 <= n => d[3 * g + 3] = 64 * (w3 % 4) + s
    BY ONLY <1>13, <1>14, <2>1
  <2> PICK k \in Nat : k = 3 * g + 3
    OBVIOUS
  <2>3. k \in 1 .. n
    BY <1>11, <1>18
  <2>4. DifferAt(d, e, k)
    <3>1. ASSUME NEW j \in 1 .. n, j # k, j # k + 1
          PROVE  d[j] = e[j]
      <4>1. CASE j \in {3 * g + 1, 3 * g + 2, 3 * g + 3}
        BY ONLY <2>2, <3>1, <4>1, k = 3 * g + 3, g \in Nat, n \in Nat
      <4> QED
        BY ONLY <1>9, <3>1, <4>1
    <3> QED
      BY ONLY <1>1, <1>5, <3>1 DEF DifferAt
  <2>5. k + 1 <= n => ~(((d[k] - e[k]) + (d[k + 1] - e[k + 1])) % 256 = 0)
    <3> SUFFICES ASSUME k + 1 <= n, ((d[k] - e[k]) + (d[k + 1] - e[k + 1])) % 256 = 0
                 PROVE  FALSE
      OBVIOUS
    <3>1. PICK y \in Nat : y = e[k + 1] /\ y = d[k + 1]
      <4>1. k + 1 \in 1 .. n /\ k + 1 \notin {3 * g + 1, 3 * g + 2, 3 * g + 3}
        OBVIOUS
      <4>2. d[k + 1] = e[k + 1]
        BY ONLY <1>9, <4>1
      <4> QED
        BY <1>1, <4>1, <4>2, BytesAre
    <3>2. PICK h \in Int : h = 64 * (w3 % 4)
      OBVIOUS
    <3>3. d[k] = h + s /\ e[k] = h + x
      BY ONLY <1>13, <2>1, <2>2, <2>3, <3>2, k = 3 * g + 3, k \in Nat, n \in Nat
    <3>4. (((h + s) - (h + x)) + 0) % 256 = 0
      <4>1. y - y = 0
        OBVIOUS
      <4> QED
        BY <3>1, <3>3, <4>1
    <3> QED
      BY ONLY <1>2, <3>4, s < 64, x < 64, x # s, x \in Nat, h \in Int, FourthApart
  <2> QED
    BY ONLY <1>1, <1>5, <2>3, <2>4, <2>5, k \in Nat DEF Nudged
<1> QED
  BY ONLY <1>7, <1>15, <1>16, <1>17, <1>18

(* A cursor whose text one symbol of is another is refused or says the same. *)
LEMMA DamageNoticed ==
  ASSUME NEW c, CursorOK(c), NEW u, NEW i, NEW s, Changed(u, EncodeText(c), i, s)
  PROVE  DecodeText(u) \in {Invalid, Decoded(c)}
<1> PICK t : t = EncodeText(c)
  OBVIOUS
<1> PICK e : e = Encode(c)
  OBVIOUS
<1> PICK n \in Nat : n = BodyLen(c) + 2
  BY Lengths
<1> PICK m \in Nat : m = SymbolsFor(n)
  BY TextLengths
<1>1. IsCursorText(t, e, n, m)
  BY CursorText
<1>2. /\ t \in Seq(Sixes) /\ Len(t) \in Nat /\ m <= Len(t)
      /\ \A j \in 1 .. m : t[j] < 64
      /\ \A j \in 1 .. Len(t) : j > m => t[j] = 64
  <2>1. /\ t \in Seq(Sixes) /\ Len(t) \in Nat /\ m <= Len(t) /\ Len(t) <= m + 2
        /\ \A j \in 1 .. Len(t) : t[j] \in Nat /\ t[j] <= 64
        /\ \A j \in 1 .. m : t[j] < 64
        /\ \A j \in 1 .. Len(t) : j > m => t[j] = 64
        /\ e \in Seq(Byte) /\ Len(e) = n /\ BytesFor(m) = n
        /\ \A k \in 1 .. n : ByteAt(t, m, k) = e[k]
    BY ONLY <1>1, n \in Nat, m \in Nat, CursorTextIs
  <2> QED
    BY ONLY <2>1
<1>3. Changed(u, t, i, s)
  OBVIOUS
<1>4. i \in Nat /\ i >= 1 /\ i <= Len(t) /\ s \in Nat /\ s <= 64 /\ s # t[i]
  BY <1>2, <1>3, ChangedIs DEF Changed
<1>5. CASE i > m
  BY ONLY <1>1, <1>3, <1>4, <1>5, CursorOK(c), n \in Nat, n = BodyLen(c) + 2, m \in Nat,
     e = Encode(c), PaddingLost
<1>6. CASE i <= m /\ s < 64
  <2>1. i \in 1 .. m
    BY <1>4, <1>6
  <2>2. PICK d \in Seq(Byte), k \in Nat : DecodeText(u) = Decode(d) /\ Nudged(d, e, k)
    BY ONLY <1>1, <1>3, <1>6, <2>1, n \in Nat, m \in Nat, SymbolChanged
  <2> QED
    BY <2>2, NudgeNoticed
<1>7. CASE i < m /\ s = 64
  <2>1. /\ u \in Seq(Sixes) /\ Len(u) = Len(t) /\ u[i] = 64
        /\ \A j \in 1 .. Len(t) : j # i => u[j] = t[j]
    BY <1>3, <1>7 DEF Changed
  <2>2. u[m] # Padding /\ \A j \in 1 .. Len(u) : j > m => u[j] = Padding
    BY ONLY <1>2, <1>4, <1>7, <2>1, m \in Nat, PaddingIs
  <2>3. Kept(u) = m
    BY ONLY <1>2, <2>1, <2>2, m \in Nat, KeptIs
  <2>4. i \in 1 .. m /\ u[i] = Padding
    BY ONLY <1>4, <1>7, <2>1, m \in Nat, PaddingIs
  <2> QED
    BY <2>1, <2>3, <2>4, PaddingWithin
<1>8. CASE i = m /\ s = 64
  <2>1. Changed(u, t, m, Padding)
    BY ONLY <1>3, <1>8, PaddingIs
  <2> QED
    BY ONLY <1>1, <2>1, CursorOK(c), n \in Nat, n = BodyLen(c) + 2, m \in Nat,
       e = Encode(c), LastLost
<1> QED
  BY ONLY <1>4, <1>5, <1>6, <1>7, <1>8, m \in Nat

-----------------------------------------------------------------------------
(* Reading page by page.                                                   *)

\* The cursor that says key k of r's list.
KeyCursor(r, k) == [subject |-> r, at |-> k.at, id |-> k.id]

\* Newest first, none twice.
Falls(s) == \A i, j \in DOMAIN s : i < j => Below(s[j], s[i])

Keys == [at : 0 .. stamp, id : 1 .. made]

PagingTypes ==
  /\ made \in Nat /\ made <= MaxItems /\ stamp \in Nat /\ stamp <= MaxStamp
  /\ items \in Seq(Keys) /\ seen \in Seq(Keys)

\* The cursor is that of the last key read.
CursorFollows ==
  /\ reading = "new" => seen = <<>>
  /\ reading = "reading" => seen # <<>> /\ cursor = EncodeText(KeyCursor(Scope, Last(seen)))

PagingInv ==
  /\ PagingTypes
  /\ Falls(items) /\ standing \subseteq ToSet(items)
  /\ CursorFollows
  /\ PagesMissNothing

\* A length of a name fits into the two bytes it is written in.
NamesFit == \A r \in Readers : Len(r) < U16

(* Keys are pairs of numbers, ordered as pairs are. *)
LEMMA KeysAre ==
  ASSUME PagingTypes
  PROVE  /\ \A k \in Keys : /\ k.at \in Nat /\ k.at <= stamp /\ k.id \in Nat /\ k.id <= made
                           /\ k = [at |-> k.at, id |-> k.id]
         /\ \A a, b, c \in Keys : Below(a, b) /\ Below(b, c) => Below(a, c)
         /\ \A a, b \in Keys : a # b => Below(a, b) \/ Below(b, a)
         /\ \A a \in Keys : ~Below(a, a)
<1>1. \A k \in Keys : /\ k.at \in Nat /\ k.at <= stamp /\ k.id \in Nat /\ k.id <= made
                     /\ k = [at |-> k.at, id |-> k.id]
  BY DEF PagingTypes, Keys
<1>2. \A a, b, c \in Keys : Below(a, b) /\ Below(b, c) => Below(a, c)
  BY <1>1 DEF Below
<1>3. \A a, b \in Keys : a # b => Below(a, b) \/ Below(b, a)
  <2> SUFFICES ASSUME NEW a \in Keys, NEW b \in Keys, ~Below(a, b), ~Below(b, a)
               PROVE  a = b
    OBVIOUS
  <2>1. a.at = b.at /\ a.id = b.id
    BY <1>1 DEF Below
  <2> QED
    BY <1>1, <2>1
<1>4. \A a \in Keys : ~Below(a, a)
  BY <1>1 DEF Below
<1> QED
  BY ONLY <1>1, <1>2, <1>3, <1>4

(* A key of a reader's list makes a cursor that can be written. *)
LEMMA KeyCursorOK ==
  ASSUME NamesFit, PagingTypes, NEW r \in Readers, NEW k \in Keys
  PROVE  CursorOK(KeyCursor(r, k))
<1>1. k.at \in Nat /\ k.at <= stamp /\ k.id \in Nat /\ k.id <= made
  BY KeysAre
<1>2. stamp \in Nat /\ stamp <= MaxStamp /\ made \in Nat /\ made <= MaxItems
  BY DEF PagingTypes
<1>3. MaxStamp \in Nat /\ MaxStamp < ByteTo(WordBytes) /\ MaxItems \in Nat /\ MaxItems < ByteTo(WordBytes)
  BY PagingAssumption, WordIs
<1>4. ByteTo(WordBytes) \in Nat
  BY PagingAssumption, ByteToIs
<1>5. k.at < ByteTo(WordBytes) /\ k.id < ByteTo(WordBytes)
  BY ONLY <1>1, <1>2, <1>3, <1>4
<1>6. k.at \in Word /\ k.id \in Word
  BY ONLY <1>1, <1>5, WordIs
<1>7. r \in Seq(Byte) /\ Len(r) < U16
  BY PagingAssumption DEF NamesFit
<1> QED
  BY ONLY <1>6, <1>7 DEF CursorOK, KeyCursor

(* Pages have at least one item. *)
LEMMA PageSizeIs ==
  ASSUME NEW size \in PageSizes
  PROVE  NormalPageSize(size) \in Nat /\ NormalPageSize(size) >= 1
  BY PagingAssumption DEF NormalPageSize

\* What stands before start has been read or need not be, and the rest is below.
StartsAt(start) ==
  /\ start \in Nat /\ start >= 1 /\ start <= Len(items) + 1
  /\ \A i \in DOMAIN items : i < start => items[i] \notin standing \ ToSet(seen)
  /\ seen # <<>> => \A i \in DOMAIN items : i >= start => Below(items[i], Last(seen))

(* A page from there leaves nothing out. *)
LEMMA ServeKeeps ==
  ASSUME PagingInv, NEW start, StartsAt(start), NEW size \in PageSizes,
         Serve(start, size), UNCHANGED <<items, made, stamp, standing>>
  PROVE  PagingInv'
<1> PICK z \in Nat : z = NormalPageSize(size) /\ z >= 1
  BY PageSizeIs
<1> PICK n \in Nat : n = Len(items)
  BY DEF PagingInv, PagingTypes
<1>0. start \in Nat /\ start >= 1 /\ start <= n + 1
  BY DEF StartsAt
<1>1. PICK end \in Nat : /\ end = IF start + z - 1 < n THEN start + z - 1 ELSE n
                         /\ end <= n /\ start <= end + 1 /\ (end < n => start <= end)
  BY <1>0
<1> PICK page : page = SubSeq(items, start, end)
  OBVIOUS
<1>2. /\ seen' = seen \o page
      /\ cursor' = IF end < n /\ page # <<>>
                   THEN EncodeText(KeyCursor(Scope, Last(page))) ELSE <<>>
      /\ reading' = IF end < n THEN "reading" ELSE "done"
  BY <1>1 DEF Serve, HasMore, KeyCursor
<1> PICK K : K = Keys
  OBVIOUS
<1>3. items \in Seq(K) /\ seen \in Seq(K)
  BY DEF PagingInv, PagingTypes
<1> PICK p \in Nat : p = end + 1 - start
  BY <1>0, <1>1
<1>4. page \in Seq(K) /\ Len(page) = p /\ \A j \in 1 .. p : page[j] = items[start + j - 1]
  <2>1. \A i \in start .. end : items[i] \in K
    BY <1>0, <1>1, <1>3
  <2>2. start \in 1 .. Len(items) + 1 /\ end \in start - 1 .. Len(items)
    BY ONLY <1>0, <1>1, n = Len(items), n \in Nat
  <2>3. /\ page \in Seq(K) /\ Len(page) = end - start + 1
        /\ \A j \in 1 .. end - start + 1 : page[j] = items[start + j - 1]
    BY ONLY <1>3, <2>2, page = SubSeq(items, start, end), SubSeqProperties
  <2>4. end - start + 1 = p
    BY ONLY <1>0, <1>1, p = end + 1 - start
  <2> QED
    BY ONLY <2>3, <2>4
<1> PICK l \in Nat : l = Len(seen)
  BY <1>3
<1> PICK read : read = seen \o page
  OBVIOUS
<1>5. /\ read \in Seq(K) /\ Len(read) = l + p
      /\ \A j \in 1 .. l : read[j] = seen[j]
      /\ \A j \in 1 .. p : read[l + j] = items[start + j - 1]
  <2>1. /\ read \in Seq(K) /\ Len(read) = l + p
        /\ \A i \in 1 .. l + p : read[i] = IF i <= l THEN seen[i] ELSE page[i - l]
    BY ONLY <1>3, <1>4, read = seen \o page, l = Len(seen), ConcatProperties
  <2>2. \A j \in 1 .. l : read[j] = seen[j]
    BY ONLY <2>1, l \in Nat, p \in Nat
  <2>3. ASSUME NEW j \in 1 .. p
        PROVE  read[l + j] = items[start + j - 1]
    <3>1. l + j \in 1 .. l + p /\ ~(l + j <= l) /\ (l + j) - l = j
      BY ONLY j \in 1 .. p, l \in Nat, p \in Nat
    <3>2. read[l + j] = page[j]
      BY ONLY <2>1, <3>1
    <3> QED
      BY ONLY <1>4, <3>2, j \in 1 .. p
  <2> QED
    BY ONLY <2>1, <2>2, <2>3
<1>6. /\ \A a, b, c \in K : Below(a, b) /\ Below(b, c) => Below(a, c)
      /\ \A i, j \in 1 .. n : i < j => Below(items[j], items[i])
      /\ \A i, j \in 1 .. l : i < j => Below(seen[j], seen[i])
      /\ standing \subseteq ToSet(items)
  BY <1>3, KeysAre DEF PagingInv, Falls, PagesMissNothing
<1>7. l > 0 => \A i \in 1 .. n : i >= start => Below(items[i], seen[l])
  <2>1. l > 0 => seen # <<>>
    BY <1>3
  <2>2. seen # <<>> => \A i \in DOMAIN items : i >= start => Below(items[i], Last(seen))
    BY DEF StartsAt
  <2>3. DOMAIN items = 1 .. n /\ Last(seen) = seen[l]
    BY <1>3 DEF Last
  <2> QED
    BY ONLY <2>1, <2>2, <2>3
<1>8. Falls(read)
  <2> SUFFICES ASSUME NEW i \in 1 .. l + p, NEW j \in 1 .. l + p, i < j
               PROVE  Below(read[j], read[i])
    <3>1. DOMAIN read = 1 .. l + p
      BY <1>5
    <3> QED
      BY <3>1 DEF Falls
  <2>1. CASE j <= l
    BY <1>5, <1>6, <2>1
  <2>2. CASE i > l
    <3>1. PICK x \in 1 .. p, y \in 1 .. p : i = l + x /\ j = l + y /\ x < y
      <4>1. i - l \in 1 .. p /\ j - l \in 1 .. p
        BY <2>2
      <4> QED
        BY <4>1
    <3>2. start + x - 1 \in 1 .. n /\ start + y - 1 \in 1 .. n /\ start + x - 1 < start + y - 1
      BY ONLY <1>0, <1>1, <3>1, p \in Nat, p = end + 1 - start, start \in Nat, end \in Nat, n \in Nat
    <3> QED
      BY <1>5, <1>6, <3>1, <3>2
  <2>3. CASE i <= l /\ j > l
    <3>1. PICK y \in 1 .. p : j = l + y
      <4>1. j - l \in 1 .. p
        BY <2>3
      <4> QED
        BY <4>1
    <3>2. start + y - 1 \in 1 .. n /\ start + y - 1 >= start
      BY ONLY <1>0, <1>1, <3>1, p \in Nat, p = end + 1 - start, start \in Nat, end \in Nat, n \in Nat
    <3>3. read[j] = items[start + y - 1] /\ read[i] = seen[i] /\ i \in 1 .. l /\ l \in 1 .. l
      BY ONLY <1>5, <2>3, <3>1, i \in 1 .. l + p, l \in Nat, p \in Nat
    <3>4. Below(items[start + y - 1], seen[l])
      BY ONLY <1>7, <2>3, <3>2, <3>3, l \in Nat
    <3>5. i # l => Below(seen[l], seen[i])
      BY ONLY <1>6, <3>3, l \in Nat
    <3>6. items[start + y - 1] \in K /\ seen[l] \in K /\ seen[i] \in K
      BY <1>3, <3>2, <3>3
    <3> QED
      BY <1>6, <3>3, <3>4, <3>5, <3>6
  <2> QED
    BY ONLY <2>1, <2>2, <2>3, l \in Nat, p \in Nat, i \in 1 .. l + p, j \in 1 .. l + p, i < j
<1>9. \A i \in 1 .. n : i <= end => items[i] \notin standing \ ToSet(read)
  <2> SUFFICES ASSUME NEW i \in 1 .. n, i <= end, items[i] \in standing
               PROVE  items[i] \in ToSet(read)
    OBVIOUS
  <2>1. CASE i < start
    <3>1. items[i] \in ToSet(seen)
      <4>1. \A x \in DOMAIN items : x < start => items[x] \notin standing \ ToSet(seen)
        BY DEF StartsAt
      <4>2. i \in DOMAIN items
        BY <1>3
      <4> QED
        BY ONLY <2>1, <4>1, <4>2, items[i] \in standing
    <3>2. PICK j \in 1 .. l : items[i] = seen[j]
      BY <1>3, <3>1 DEF ToSet
    <3>3. j \in DOMAIN read /\ read[j] = items[i]
      BY <1>5, <3>2
    <3> QED
      BY <3>3 DEF ToSet
  <2>2. CASE i >= start
    <3>1. PICK x \in 1 .. p : i = start + x - 1
      <4>1. i + 1 - start \in 1 .. p
        BY <1>0, <2>2
      <4> QED
        BY <4>1, <1>0
    <3>2. l + x \in DOMAIN read /\ read[l + x] = items[i]
      BY <1>5, <3>1
    <3> QED
      BY <3>2 DEF ToSet
  <2> QED
    BY <1>0, <2>1, <2>2
<1>10. read # <<>> => \A k \in standing \ ToSet(read) : Below(k, Last(read))
  <2> SUFFICES ASSUME read # <<>>, NEW k \in standing, k \notin ToSet(read)
               PROVE  Below(k, Last(read))
    OBVIOUS
  <2>1. PICK i \in 1 .. n : k = items[i]
    BY <1>3, <1>6 DEF ToSet
  <2>2. i > end
    BY <1>9, <2>1
  <2>3. CASE p > 0
    <3>1. Last(read) = items[end]
      <4>1. p \in 1 .. p /\ start + p - 1 = end
        BY ONLY <1>0, <1>1, <2>3, p \in Nat, p = end + 1 - start, start \in Nat, end \in Nat, n \in Nat
      <4>2. read[l + p] = items[end]
        BY ONLY <1>5, <4>1
      <4> QED
        BY ONLY <1>5, <4>2 DEF Last
    <3>2. end \in 1 .. n
      BY <1>0, <1>1, <2>3
    <3> QED
      BY <1>6, <2>1, <2>2, <3>1, <3>2
  <2>4. CASE p = 0
    <3>1. l > 0 /\ Last(read) = seen[l]
      <4>1. l > 0
        BY <1>5, <2>4
      <4>2. read[l] = seen[l] /\ Len(read) = l
        BY ONLY <1>5, <2>4, <4>1, l \in Nat
      <4> QED
        BY ONLY <4>1, <4>2 DEF Last
    <3>2. i >= start
      BY <1>0, <1>1, <2>2, <2>4
    <3> QED
      BY <1>7, <2>1, <3>1, <3>2
  <2> QED
    BY <2>3, <2>4
<1>11. end = n => standing \subseteq ToSet(read)
  <2> SUFFICES ASSUME end = n, NEW k \in standing
               PROVE  k \in ToSet(read)
    OBVIOUS
  <2>1. PICK i \in 1 .. n : k = items[i]
    BY <1>3, <1>6 DEF ToSet
  <2>2. i <= end
    OBVIOUS
  <2> QED
    BY ONLY <1>9, <2>1, <2>2, k \in standing
<1>12. end < n => page # <<>> /\ read # <<>> /\ Last(page) = Last(read)
  <2> SUFFICES ASSUME end < n
               PROVE  page # <<>> /\ read # <<>> /\ Last(page) = Last(read)
    OBVIOUS
  <2>1. p >= 1 /\ p \in 1 .. p
    BY <1>0, <1>1
  <2>2. page[p] = read[l + p]
    BY ONLY <1>4, <1>5, <2>1
  <2>3. page # <<>> /\ read # <<>>
    BY <1>4, <1>5, <2>1
  <2> QED
    BY ONLY <1>4, <1>5, <2>2, <2>3 DEF Last
<1>13. items' = items /\ made' = made /\ stamp' = stamp /\ standing' = standing /\ seen' = read
  BY <1>2
<1>14. PagingTypes'
  <2>1. Keys' = K
    BY <1>13 DEF Keys
  <2> QED
    BY <1>3, <1>5, <1>13, <2>1 DEF PagingInv, PagingTypes
<1>15. Falls(items)' /\ (standing \subseteq ToSet(items))'
  BY <1>13 DEF PagingInv, Falls
<1>16. CursorFollows'
  BY <1>2, <1>12, <1>13 DEF CursorFollows
<1>17. PagesMissNothing'
  <2>1. \A i, j \in DOMAIN read : i < j => Below(read[j], read[i])
    BY <1>8 DEF Falls
  <2>2. reading' = "done" => standing \subseteq ToSet(read)
    BY <1>1, <1>2, <1>11
  <2> QED
    BY <1>10, <1>13, <2>1, <2>2 DEF PagesMissNothing
<1> QED
  BY <1>14, <1>15, <1>16, <1>17 DEF PagingInv

(* The first item below a key: what stands before it is not below. *)
LEMMA StartAfterIs ==
  ASSUME items \in Seq(Keys), NEW c
  PROVE  /\ StartAfter(c) \in Nat /\ StartAfter(c) >= 1 /\ StartAfter(c) <= Len(items) + 1
         /\ \A i \in 1 .. Len(items) : i < StartAfter(c) => ~Below(items[i], c)
         /\ StartAfter(c) <= Len(items) => Below(items[StartAfter(c)], c)
<1> PICK n \in Nat : n = Len(items)
  OBVIOUS
<1> PICK after : after = {i \in DOMAIN items : Below(items[i], c)}
  OBVIOUS
<1>1. after = {i \in 1 .. n : Below(items[i], c)}
  OBVIOUS
<1>2. StartAfter(c) = IF after = {} THEN n + 1 ELSE Min(after)
  BY DEF StartAfter
<1>3. CASE after = {}
  <2>1. StartAfter(c) = n + 1 /\ \A i \in 1 .. n : ~Below(items[i], c)
    BY ONLY <1>1, <1>2, <1>3
  <2> QED
    BY ONLY <2>1, n = Len(items), n \in Nat
<1>4. CASE after # {}
  <2>1. after \in SUBSET (0 .. n)
    BY <1>1
  <2>2. PICK k \in after : \A m \in 0 .. k - 1 : m \notin after
    BY ONLY <1>4, <2>1, n \in Nat, LeastNatural
  <2>3. \A m \in after : k <= m
    BY ONLY <1>1, <2>2, n \in Nat
  <2>4. Min(after) = k
    <3>1. \A m \in after : m \in Nat
      BY <1>1
    <3>2. Min(after) = CHOOSE x \in after : \A y \in after : x <= y
      BY DEF Min
    <3>3. \A x \in after : (\A y \in after : x <= y) => x = k
      BY ONLY <2>2, <2>3, <3>1
    <3> QED
      BY ONLY <2>2, <2>3, <3>2, <3>3
  <2>5. k \in 1 .. n /\ Below(items[k], c) /\ \A i \in 1 .. n : i < k => ~Below(items[i], c)
    BY ONLY <1>1, <2>2, n \in Nat
  <2>6. StartAfter(c) = k
    BY ONLY <1>2, <1>4, <2>4
  <2> QED
    BY ONLY <2>5, <2>6, n = Len(items), n \in Nat
<1> QED
  BY <1>3, <1>4

(* After the last key read nothing has been read, before it nothing is missing. *)
LEMMA StartsAfter ==
  ASSUME PagingInv, seen # <<>>, NEW c, c.at = Last(seen).at, c.id = Last(seen).id
  PROVE  StartsAt(StartAfter(c))
<1>1. items \in Seq(Keys) /\ seen \in Seq(Keys) /\ PagingTypes
  BY DEF PagingInv, PagingTypes
<1> PICK n \in Nat : n = Len(items)
  BY <1>1
<1> PICK start : start = StartAfter(c)
  OBVIOUS
<1> PICK k : k = Last(seen)
  OBVIOUS
<1>2. k \in Keys
  BY <1>1 DEF Last
<1>3. \A a : (Below(a, c) <=> Below(a, k))
  BY DEF Below
<1>4. /\ start \in Nat /\ start >= 1 /\ start <= n + 1
      /\ \A i \in 1 .. n : i < start => ~Below(items[i], c)
      /\ start <= n => Below(items[start], c)
  BY <1>1, StartAfterIs
<1>5. \A i \in 1 .. n : i < start => items[i] \notin standing \ ToSet(seen)
  <2>1. \A x \in standing \ ToSet(seen) : Below(x, k)
    BY DEF PagingInv, PagesMissNothing
  <2> QED
    BY ONLY <1>3, <1>4, <2>1
<1>6. \A i \in 1 .. n : i >= start => Below(items[i], k)
  <2> SUFFICES ASSUME NEW i \in 1 .. n, i >= start
               PROVE  Below(items[i], k)
    OBVIOUS
  <2>1. start \in 1 .. n /\ Below(items[start], k)
    BY <1>3, <1>4
  <2>2. i # start => Below(items[i], items[start])
    <3>1. \A x, y \in 1 .. n : x < y => Below(items[y], items[x])
      BY <1>1 DEF PagingInv, Falls
    <3> QED
      BY ONLY <2>1, <3>1, i \in 1 .. n, i >= start, start \in 1 .. n
  <2>3. items[i] \in Keys /\ items[start] \in Keys
    BY <1>1, <2>1
  <2>4. \A x, y, z \in Keys : Below(x, y) /\ Below(y, z) => Below(x, z)
    BY <1>1, KeysAre
  <2> QED
    BY ONLY <1>2, <2>1, <2>2, <2>3, <2>4
<1> QED
  <2>1. DOMAIN items = 1 .. n
    BY <1>1
  <2> QED
    BY ONLY <1>4, <1>5, <1>6, <2>1, n = Len(items), k = Last(seen), start = StartAfter(c) DEF StartsAt

(* A page asked for with a text that is refused or says the last key read. *)
LEMMA NextPageKeeps ==
  ASSUME PagingInv, NEW text, NEW size \in PageSizes, NextPage(text, size),
         \/ ~InScope(DecodeText(text))
         \/ DecodeText(text) = Decoded(KeyCursor(Scope, Last(seen)))
  PROVE  PagingInv'
<1> PICK c : c = DecodeText(text)
  OBVIOUS
<1>1. /\ reading = "reading"
      /\ IF InScope(c) THEN Serve(StartAfter(c), size)
         ELSE reading' = "refused" /\ UNCHANGED <<cursor, seen>>
      /\ UNCHANGED <<items, made, stamp, standing>>
  BY DEF NextPage
<1>2. CASE ~InScope(c)
  <2>1. /\ reading' = "refused" /\ cursor' = cursor /\ seen' = seen
        /\ items' = items /\ made' = made /\ stamp' = stamp /\ standing' = standing
    BY <1>1, <1>2
  <2>2. PagingTypes'
    BY <2>1 DEF PagingInv, PagingTypes, Keys
  <2>3. Falls(items)' /\ (standing \subseteq ToSet(items))' /\ CursorFollows'
    BY <2>1 DEF PagingInv, Falls, CursorFollows
  <2>4. PagesMissNothing'
    BY <2>1 DEF PagingInv, PagesMissNothing
  <2> QED
    BY ONLY <2>2, <2>3, <2>4 DEF PagingInv
<1>3. CASE InScope(c) /\ c = Decoded(KeyCursor(Scope, Last(seen)))
  <2>1. seen # <<>>
    BY <1>1 DEF PagingInv, CursorFollows
  <2>2. c.at = Last(seen).at /\ c.id = Last(seen).id
    BY <1>3 DEF Decoded, KeyCursor
  <2>3. StartsAt(StartAfter(c))
    BY <2>1, <2>2, StartsAfter
  <2>4. Serve(StartAfter(c), size) /\ UNCHANGED <<items, made, stamp, standing>>
    BY <1>1, <1>3
  <2> QED
    BY <2>3, <2>4, ServeKeeps
<1> QED
  BY <1>2, <1>3

(* The cursor held while reading is that of a key of the list. *)
LEMMA HeldCursor ==
  ASSUME NamesFit, PagingInv, reading = "reading"
  PROVE  /\ CursorOK(KeyCursor(Scope, Last(seen)))
         /\ cursor = EncodeText(KeyCursor(Scope, Last(seen)))
<1>1. PagingTypes /\ seen # <<>> /\ cursor = EncodeText(KeyCursor(Scope, Last(seen)))
  BY DEF PagingInv, CursorFollows
<1>2. Last(seen) \in Keys
  BY <1>1 DEF PagingTypes, Last
<1>3. Scope \in Readers
  BY PagingAssumption
<1> QED
  BY <1>1, <1>2, <1>3, KeyCursorOK

(* The first page is read from the top. *)
LEMMA FirstPageKeeps ==
  ASSUME PagingInv, NEW size \in PageSizes, FirstPage(size)
  PROVE  PagingInv'
<1>1. reading = "new" /\ Serve(1, size) /\ UNCHANGED <<items, made, stamp, standing>>
  BY DEF FirstPage
<1>2. seen = <<>> /\ items \in Seq(Keys)
  BY <1>1 DEF PagingInv, CursorFollows, PagingTypes
<1> PICK one \in Nat : one = 1
  OBVIOUS
<1>3. StartsAt(one)
  BY <1>2 DEF StartsAt
<1> QED
  BY <1>1, <1>3, ServeKeeps

(* The next page is read with the cursor held. *)
LEMMA OwnPageKeeps ==
  ASSUME NamesFit, PagingInv, NEW size \in PageSizes, NextPage(cursor, size)
  PROVE  PagingInv'
<1>1. reading = "reading"
  BY DEF NextPage
<1>2. DecodeText(cursor) = Decoded(KeyCursor(Scope, Last(seen)))
  BY <1>1, HeldCursor, CursorText
<1> QED
  BY <1>2, NextPageKeeps

(* A damaged cursor is refused, or says the same. *)
LEMMA DamagedPageKeeps ==
  ASSUME NamesFit, PagingInv, NEW size \in PageSizes, NEW i \in DOMAIN cursor, NEW symbol \in 0 .. Padding,
         DamagedPage(i, symbol, size)
  PROVE  PagingInv'
<1> PICK text : text = [cursor EXCEPT ![i] = symbol]
  OBVIOUS
<1>1. NextPage(text, size) /\ cursor[i] # symbol
  BY DEF DamagedPage
<1>2. reading = "reading"
  BY <1>1 DEF NextPage
<1> PICK c : c = KeyCursor(Scope, Last(seen))
  OBVIOUS
<1>3. CursorOK(c) /\ cursor = EncodeText(c)
  BY <1>2, HeldCursor
<1>4. cursor \in Seq(Sixes) /\ Len(cursor) \in Nat
  <2> PICK n \in Nat : n = BodyLen(c) + 2
    BY <1>3, Lengths
  <2>1. IsText(cursor, n)
    BY <1>3, CursorText DEF IsCursorText
  <2> QED
    BY <2>1 DEF IsText
<1>5. symbol \in Sixes
  BY PaddingIs DEF Sixes
<1>6. i \in 1 .. Len(cursor)
  BY <1>4
<1>7. /\ text \in Seq(Sixes) /\ Len(text) = Len(cursor) /\ text[i] = symbol
      /\ \A j \in 1 .. Len(cursor) : j # i => text[j] = cursor[j]
  BY <1>4, <1>5, <1>6
<1>8. Changed(text, EncodeText(c), i, symbol)
  BY <1>1, <1>3, <1>6, <1>7 DEF Changed
<1>9. DecodeText(text) \in {Invalid, Decoded(c)}
  BY ONLY <1>3, <1>8, DamageNoticed
<1>10. ~InScope(Invalid)
  BY DEF InScope, Invalid
<1>11. ~InScope(DecodeText(text)) \/ DecodeText(text) = Decoded(KeyCursor(Scope, Last(seen)))
  BY <1>9, <1>10
<1> QED
  BY <1>1, <1>11, NextPageKeeps

(* The cursor of another's list is refused. *)
LEMMA ForeignPageKeeps ==
  ASSUME NamesFit, PagingInv, NEW size \in PageSizes, NEW r \in Readers, ForeignPage(r, size)
  PROVE  PagingInv'
<1>1. PICK at \in 0 .. stamp, id \in 1 .. made :
        NextPage(EncodeText([subject |-> r, at |-> at, id |-> id]), size)
  BY DEF ForeignPage
<1>2. r # Scope
  BY DEF ForeignPage
<1> PICK k : k = [at |-> at, id |-> id]
  OBVIOUS
<1>3. k \in Keys
  BY DEF Keys
<1> PICK c : c = KeyCursor(r, k)
  OBVIOUS
<1>4. c = [subject |-> r, at |-> at, id |-> id]
  BY DEF KeyCursor
<1>5. CursorOK(c)
  BY <1>3, KeyCursorOK DEF PagingInv
<1>6. DecodeText(EncodeText(c)) = Decoded(c)
  BY <1>5, CursorText
<1>7. ~InScope(Decoded(c))
  BY <1>2, <1>4 DEF InScope, Decoded
<1> PICK text : text = EncodeText(c)
  OBVIOUS
<1>8. NextPage(text, size) /\ ~InScope(DecodeText(text))
  BY <1>1, <1>4, <1>6, <1>7
<1> QED
  BY <1>8, NextPageKeeps

(* What is a sequence of some is a sequence of more. *)
LEMMA SeqOfMore ==
  ASSUME NEW S, NEW T, S \subseteq T, NEW s \in Seq(S)
  PROVE  s \in Seq(T)
<1>1. Len(s) \in Nat /\ \A i \in 1 .. Len(s) : s[i] \in T
  OBVIOUS
<1>2. s = [i \in 1 .. Len(s) |-> s[i]]
  OBVIOUS
<1> QED
  BY <1>1, <1>2

(* A new item is above all others. *)
LEMMA InsertKeeps ==
  ASSUME PagingInv, NEW tick \in {0, 1}, Insert(tick)
  PROVE  PagingInv'
<1>1. /\ made < MaxItems /\ stamp + tick <= MaxStamp /\ made' = made + 1 /\ stamp' = stamp + tick
      /\ standing' = IF reading = "new" THEN standing \union {Head(items')} ELSE standing
      /\ cursor' = cursor /\ seen' = seen /\ reading' = reading
  BY DEF Insert
<1> PICK k : k = [at |-> stamp', id |-> made']
  OBVIOUS
<1> PICK more : more = <<k>> \o items
  OBVIOUS
<1>2. items' = more
  BY DEF Insert
<1>3. PagingTypes /\ made \in Nat /\ stamp \in Nat /\ items \in Seq(Keys) /\ seen \in Seq(Keys)
  BY DEF PagingInv, PagingTypes
<1> PICK K : K = [at : 0 .. stamp', id : 1 .. made']
  OBVIOUS
<1>4. Keys \subseteq K /\ k \in K
  BY <1>1, <1>3 DEF Keys
<1> PICK n \in Nat : n = Len(items)
  BY <1>3
<1>5. /\ more \in Seq(K) /\ Len(more) = n + 1 /\ more[1] = k
      /\ \A i \in 2 .. n + 1 : more[i] = items[i - 1]
  <2>1. items \in Seq(K)
    BY ONLY <1>3, <1>4, SeqOfMore
  <2>2. <<k>> \in Seq(K)
    BY ONLY <1>4
  <2> QED
    BY ONLY <2>1, <2>2, more = <<k>> \o items, n = Len(items), n \in Nat
<1>6. PagingTypes'
  <2>1. made' \in Nat /\ stamp' \in Nat
    BY <1>1, <1>3
  <2>2. made' <= MaxItems
    <3>1. MaxItems \in Nat
      BY PagingAssumption, WordIs
    <3> QED
      BY <1>1, <1>3, <3>1
  <2>3. seen' \in Seq(K)
    <3>1. seen \in Seq(K)
      BY ONLY <1>3, <1>4, SeqOfMore
    <3> QED
      BY ONLY <1>1, <3>1
  <2>4. Keys' = K
    BY DEF Keys
  <2> QED
    BY <1>1, <1>2, <1>5, <2>1, <2>2, <2>3, <2>4 DEF PagingTypes
<1>7. Falls(more)
  <2> SUFFICES ASSUME NEW i \in 1 .. n + 1, NEW j \in 1 .. n + 1, i < j
               PROVE  Below(more[j], more[i])
    <3>1. DOMAIN more = 1 .. n + 1
      BY <1>5
    <3> QED
      BY <3>1 DEF Falls
  <2>1. j - 1 \in 1 .. n /\ more[j] = items[j - 1] /\ items[j - 1] \in Keys
    BY <1>3, <1>5
  <2>2. CASE i = 1
    <3>1. /\ items[j - 1].at \in Nat /\ items[j - 1].at <= stamp
          /\ items[j - 1].id \in Nat /\ items[j - 1].id <= made
      BY <1>3, <2>1, KeysAre
    <3>2. k.at = stamp' /\ k.id = made'
      OBVIOUS
    <3>3. Below(items[j - 1], k)
      BY <1>1, <1>3, <3>1, <3>2 DEF Below
    <3> QED
      BY <1>5, <2>1, <2>2, <3>3
  <2>3. CASE i # 1
    <3>1. i - 1 \in 1 .. n /\ i - 1 < j - 1 /\ more[i] = items[i - 1]
      <4>1. i \in 2 .. n + 1 /\ i - 1 \in 1 .. n /\ i - 1 < j - 1
        BY ONLY <2>3, i \in 1 .. n + 1, j \in 1 .. n + 1, i < j, n \in Nat
      <4> QED
        BY ONLY <1>5, <4>1
    <3>2. \A x, y \in 1 .. n : x < y => Below(items[y], items[x])
      <4>1. DOMAIN items = 1 .. n
        BY <1>3
      <4> QED
        BY <4>1 DEF PagingInv, Falls
    <3> QED
      BY ONLY <2>1, <3>1, <3>2
  <2> QED
    BY <2>2, <2>3
<1>8. ToSet(items) \subseteq ToSet(more)
  <2> SUFFICES ASSUME NEW i \in 1 .. n
               PROVE  items[i] \in ToSet(more)
    BY <1>3 DEF ToSet
  <2>1. i + 1 \in 2 .. n + 1 /\ i + 1 \in DOMAIN more /\ (i + 1) - 1 = i
    BY <1>5
  <2>2. more[i + 1] = items[i]
    BY ONLY <1>5, <2>1
  <2> QED
    BY <2>1, <2>2 DEF ToSet
<1>9. Head(more) = k /\ k \in ToSet(more)
  <2>1. 1 \in DOMAIN more
    BY <1>5
  <2> QED
    BY <1>5, <2>1 DEF ToSet
<1>10. (standing \subseteq ToSet(items))'
  BY <1>1, <1>2, <1>8, <1>9 DEF PagingInv
<1>11. CursorFollows'
  BY <1>1 DEF PagingInv, CursorFollows
<1>12. PagesMissNothing'
  <2>1. reading = "new" => seen = <<>>
    BY DEF PagingInv, CursorFollows
  <2>2. reading # "new" => standing' = standing
    BY <1>1
  <2> QED
    BY <1>1, <2>1, <2>2 DEF PagingInv, PagesMissNothing
<1>13. Falls(items)'
  BY <1>2, <1>7 DEF Falls
<1> QED
  BY <1>6, <1>10, <1>11, <1>12, <1>13 DEF PagingInv

(* An item less leaves the others in order. *)
LEMMA DeleteKeeps ==
  ASSUME PagingInv, NEW d \in DOMAIN items, Delete(d)
  PROVE  PagingInv'
<1>1. /\ standing' = standing \ {items[d]} /\ made' = made /\ stamp' = stamp
      /\ cursor' = cursor /\ seen' = seen /\ reading' = reading
  BY DEF Delete
<1>2. PagingTypes /\ items \in Seq(Keys)
  BY DEF PagingInv, PagingTypes
<1> PICK n \in Nat : n = Len(items)
  BY <1>2
<1>3. d \in 1 .. n
  BY <1>2
<1> PICK K : K = Keys
  OBVIOUS
<1> PICK less : less = SubSeq(items, 1, d - 1) \o SubSeq(items, d + 1, Len(items))
  OBVIOUS
<1>4. items' = less
  BY DEF Delete, RemoveAt
<1>5. /\ less \in Seq(K) /\ Len(less) = n - 1
      /\ \A i \in 1 .. n - 1 : less[i] = IF i < d THEN items[i] ELSE items[i + 1]
  <2> PICK a : a = SubSeq(items, 1, d - 1)
    OBVIOUS
  <2> PICK b : b = SubSeq(items, d + 1, Len(items))
    OBVIOUS
  <2>1. a \in Seq(K) /\ Len(a) = d - 1 /\ \A i \in 1 .. d - 1 : a[i] = items[i]
    BY <1>2, <1>3
  <2>2. b \in Seq(K) /\ Len(b) = n - d /\ \A i \in 1 .. n - d : b[i] = items[d + i]
    BY <1>2, <1>3
  <2>3. /\ a \o b \in Seq(K) /\ Len(a \o b) = Len(a) + Len(b)
        /\ \A i \in 1 .. Len(a) + Len(b) : (a \o b)[i] = IF i <= Len(a) THEN a[i] ELSE b[i - Len(a)]
    BY ONLY <2>1, <2>2, ConcatProperties
  <2>4. less = a \o b
    OBVIOUS
  <2>5. Len(less) = n - 1
    BY ONLY <1>3, <2>1, <2>2, <2>3, <2>4, n \in Nat
  <2>6. ASSUME NEW i \in 1 .. n - 1
        PROVE  less[i] = IF i < d THEN items[i] ELSE items[i + 1]
    <3>1. less[i] = IF i <= d - 1 THEN a[i] ELSE b[i - (d - 1)]
      BY ONLY <1>3, <2>1, <2>2, <2>3, <2>4, i \in 1 .. n - 1, n \in Nat
    <3>2. CASE i < d
      BY ONLY <1>3, <2>1, <3>1, <3>2, i \in 1 .. n - 1, n \in Nat
    <3>3. CASE ~(i < d)
      <4>1. i - (d - 1) \in 1 .. n - d /\ d + (i - (d - 1)) = i + 1 /\ ~(i <= d - 1)
        BY ONLY <1>3, <3>3, i \in 1 .. n - 1, n \in Nat
      <4>2. b[i - (d - 1)] = items[d + (i - (d - 1))]
        BY ONLY <2>2, <4>1
      <4> QED
        BY ONLY <3>1, <3>3, <4>1, <4>2
    <3> QED
      BY ONLY <3>2, <3>3
  <2> QED
    BY ONLY <2>3, <2>4, <2>5, <2>6
<1>6. PagingTypes'
  <2>1. Keys' = K
    BY <1>1 DEF Keys
  <2> QED
    BY <1>1, <1>2, <1>4, <1>5, <2>1 DEF PagingTypes
<1>7. Falls(less)
  <2> SUFFICES ASSUME NEW i \in 1 .. n - 1, NEW j \in 1 .. n - 1, i < j
               PROVE  Below(less[j], less[i])
    <3>1. DOMAIN less = 1 .. n - 1
      BY <1>5
    <3> QED
      BY <3>1 DEF Falls
  <2>1. PICK x \in 1 .. n, y \in 1 .. n : less[i] = items[x] /\ less[j] = items[y] /\ x < y
    <3>1. PICK x \in 1 .. n : less[i] = items[x] /\ x = IF i < d THEN i ELSE i + 1
      <4>1. i \in 1 .. n /\ i + 1 \in 1 .. n
        BY ONLY <1>3, i \in 1 .. n - 1, n \in Nat
      <4>2. less[i] = IF i < d THEN items[i] ELSE items[i + 1]
        BY ONLY <1>5, i \in 1 .. n - 1
      <4>3. CASE i < d
        BY ONLY <4>1, <4>2, <4>3
      <4>4. CASE ~(i < d)
        BY ONLY <4>1, <4>2, <4>4
      <4> QED
        BY ONLY <4>3, <4>4
    <3>2. PICK y \in 1 .. n : less[j] = items[y] /\ y = IF j < d THEN j ELSE j + 1
      <4>1. j \in 1 .. n /\ j + 1 \in 1 .. n
        BY ONLY <1>3, j \in 1 .. n - 1, n \in Nat
      <4>2. less[j] = IF j < d THEN items[j] ELSE items[j + 1]
        BY ONLY <1>5, j \in 1 .. n - 1
      <4>3. CASE j < d
        BY ONLY <4>1, <4>2, <4>3
      <4>4. CASE ~(j < d)
        BY ONLY <4>1, <4>2, <4>4
      <4> QED
        BY ONLY <4>3, <4>4
    <3>3. x < y
      BY ONLY <1>3, <3>1, <3>2, i \in 1 .. n - 1, j \in 1 .. n - 1, i < j, n \in Nat
    <3> QED
      BY ONLY <3>1, <3>2, <3>3
  <2>2. \A v, w \in 1 .. n : v < w => Below(items[w], items[v])
    <3>1. DOMAIN items = 1 .. n
      BY <1>2
    <3> QED
      BY <3>1 DEF PagingInv, Falls
  <2> QED
    BY ONLY <2>1, <2>2
<1>8. standing \ {items[d]} \subseteq ToSet(less)
  <2> SUFFICES ASSUME NEW k \in standing, k # items[d]
               PROVE  k \in ToSet(less)
    OBVIOUS
  <2>1. PICK i \in 1 .. n : k = items[i]
    BY <1>2 DEF PagingInv, ToSet
  <2>2. PICK j \in 1 .. n - 1 : less[j] = k
    <3>1. i # d
      BY <2>1
    <3>2. CASE i < d
      <4>1. i \in 1 .. n - 1
        BY ONLY <1>3, <3>2, n \in Nat, i \in 1 .. n
      <4> QED
        BY ONLY <1>5, <2>1, <3>2, <4>1
    <3>3. CASE i > d
      <4>1. i - 1 \in 1 .. n - 1 /\ ~(i - 1 < d) /\ (i - 1) + 1 = i
        BY ONLY <1>3, <3>3, n \in Nat, i \in 1 .. n
      <4>2. less[i - 1] = items[i]
        BY ONLY <1>5, <4>1
      <4> QED
        BY ONLY <2>1, <4>1, <4>2
    <3> QED
      BY ONLY <1>3, <3>1, <3>2, <3>3, n \in Nat, i \in 1 .. n
  <2>3. j \in DOMAIN less
    BY <1>5
  <2> QED
    BY <2>2, <2>3 DEF ToSet
<1>9. (standing \subseteq ToSet(items))' /\ Falls(items)'
  BY <1>1, <1>4, <1>7, <1>8 DEF Falls
<1>10. CursorFollows'
  BY <1>1 DEF PagingInv, CursorFollows
<1>11. PagesMissNothing'
  BY <1>1 DEF PagingInv, PagesMissNothing
<1> QED
  BY <1>6, <1>9, <1>10, <1>11 DEF PagingInv

(* Nothing is read before anything is there. *)
LEMMA PagingStarts == PagingInit => PagingInv
<1> SUFFICES ASSUME PagingInit PROVE PagingInv
  OBVIOUS
<1>1. /\ items = <<>> /\ made = 0 /\ stamp = 0
      /\ cursor = <<>> /\ seen = <<>> /\ standing = {} /\ reading = "new"
  BY DEF PagingInit
<1>2. 0 <= MaxItems /\ 0 <= MaxStamp
  BY PagingAssumption, WordIs
<1>3. PagingTypes
  BY <1>1, <1>2 DEF PagingTypes
<1>4. Falls(items) /\ standing \subseteq ToSet(items) /\ CursorFollows
  BY <1>1 DEF Falls, CursorFollows
<1>5. PagesMissNothing
  BY <1>1 DEF PagesMissNothing
<1> QED
  BY <1>3, <1>4, <1>5 DEF PagingInv

(* Every step keeps the invariant. *)
LEMMA PagingKeeps ==
  ASSUME NamesFit, PagingInv, [PagingNext]_pagingVars
  PROVE  PagingInv'
<1>1. ASSUME NEW size \in PageSizes, FirstPage(size)
      PROVE  PagingInv'
  BY <1>1, FirstPageKeeps
<1>2. ASSUME NEW size \in PageSizes, NextPage(cursor, size)
      PROVE  PagingInv'
  BY <1>2, OwnPageKeeps
<1>3. ASSUME NEW size \in PageSizes, NEW r \in Readers, ForeignPage(r, size)
      PROVE  PagingInv'
  BY <1>3, ForeignPageKeeps
<1>4. ASSUME NEW size \in PageSizes, NEW i \in DOMAIN cursor, NEW symbol \in 0 .. Padding,
             DamagedPage(i, symbol, size)
      PROVE  PagingInv'
  BY <1>4, DamagedPageKeeps
<1>5. ASSUME NEW tick \in {0, 1}, Insert(tick)
      PROVE  PagingInv'
  BY <1>5, InsertKeeps
<1>6. ASSUME NEW d \in DOMAIN items, Delete(d)
      PROVE  PagingInv'
  BY <1>6, DeleteKeeps
<1>7. CASE UNCHANGED pagingVars
  BY <1>7 DEF pagingVars, PagingInv, PagingTypes, Keys, Falls, CursorFollows, PagesMissNothing
<1> QED
  BY <1>1, <1>2, <1>3, <1>4, <1>5, <1>6, <1>7 DEF PagingNext

\* Any reader of any list whose name can be written gets each item that stood
\* through the reading once, newest first, and nothing with a cursor that one
\* symbol of has changed or that is another's: for every width of a word.
THEOREM PagesComplete == NamesFit => (PagingSpec => []PagesMissNothing)
<1> SUFFICES ASSUME NamesFit PROVE PagingSpec => []PagesMissNothing
  OBVIOUS
<1>1. PagingInit => PagingInv
  BY PagingStarts
<1>2. PagingInv /\ [PagingNext]_pagingVars => PagingInv'
  BY PagingKeeps
<1>3. PagingInv => PagesMissNothing
  BY DEF PagingInv
<1> QED
  BY <1>1, <1>2, <1>3, PTL DEF PagingSpec
=============================================================================

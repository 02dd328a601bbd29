--------------------------- MODULE Webhooks_proofs ---------------------------
(***************************************************************************)
(* TLAPS proofs about the webhook processor, for any number of runtimes,   *)
(* any retry policy and any lease.  What the lease is for holds when       *)
(* claiming and re-reading takes less than a lease (PromptClaims).         *)
(***************************************************************************)
EXTENDS Webhooks, FiniteSetTheorems, TLAPS

Held == {"handling", "finalizing", "failing", "recording"}
Engaged(r) == worker[r].pc \in {"claimed"} \union Held

\* The row as the claim of runtime r left it.
Mine(r) ==
  event.status = "processing" /\ event.updatedAt = worker[r].now /\ holder = r

\* The lease of r has run out, and somebody has written since.
Overtaken(r) ==
  event.updatedAt > worker[r].now /\ clock >= worker[r].now + Lease

\* r has finished the event without learning of it.
Unaware(r) == event.status = "processed" /\ worker[r].pc = "failing"

\* What a runtime may rely on between its steps when claims are prompt.
LeaseOK(r) ==
  /\ worker[r].pc \in {"claiming", "claimed"} => clock < worker[r].now + Lease
  /\ worker[r].pc \in Held => worker[r].token = worker[r].now
  /\ Engaged(r) => Mine(r) \/ Overtaken(r) \/ Unaware(r)
  /\ worker[r].pc = "recording" /\ Mine(r) =>
       worker[r].count = event.retryCount + 1

\* Inductive without any assumption about time.
BaseInv ==
  /\ TypeOK
  /\ event.updatedAt <= clock
  /\ \A r \in Runtimes : worker[r].now <= clock
  /\ \A r \in Runtimes : worker[r].pc = "finalizing" => handled
  /\ event.status = "processed" => handled

\* Inductive when claims are prompt.
LeaseInv ==
  /\ BaseInv
  /\ \A r \in Runtimes : LeaseOK(r)
  /\ FinishedIsEarned

EventRecord ==
  [ status : Status, retryCount : 0 .. MaxRetries,
    nextRetryAt : 0 .. MaxTime + Lease \union {None}, updatedAt : 0 .. MaxTime ]

-----------------------------------------------------------------------------
(* A retry is never planned before now or after the clock's end. *)
LEMMA RetryTimes ==
  ASSUME NEW n \in 0 .. MaxRetries, clock \in 0 .. MaxTime
  PROVE  NextRetryTimes(n) \subseteq 0 .. MaxTime
<1>1. \A x, y \in Nat : Min2(x, y) \in Nat /\ Min2(x, y) <= y
  BY DEF Min2
<1>2. Backoff ^ n \in Nat
  BY PowersAssumption
<1>3. \A x \in Nat : InitialDelay * x \in Nat
  BY WebhookAssumption
<1>4. Delay(n) \in Nat
  BY <1>1, <1>2, <1>3, WebhookAssumption DEF Delay
<1>5. \A j \in 0 .. MaxJitter : clock + Delay(n) + j \in Nat
  BY <1>4, WebhookAssumption
<1>6. \A j \in 0 .. MaxJitter : Min2(clock + Delay(n) + j, MaxTime) \in 0 .. MaxTime
  BY <1>1, <1>5, WebhookAssumption
<1> QED
  BY <1>6 DEF NextRetryTimes

(* What the types say of the row and of a runtime. *)
LEMMA BaseFacts ==
  ASSUME BaseInv
  PROVE  /\ clock \in Nat /\ clock \in 0 .. MaxTime
         /\ event \in EventRecord /\ event.updatedAt \in Nat
         /\ worker \in [Runtimes -> WorkerState]
         /\ \A r \in Runtimes :
              /\ worker[r] \in WorkerState
              /\ worker[r].now \in Nat /\ worker[r].count \in Nat
  BY WebhookAssumption DEF BaseInv, TypeOK, EventRecord, WorkerState

(* Every write of the row is one of these. *)
LEMMA RowTypes ==
  ASSUME BaseInv
  PROVE  /\ Done \in EventRecord
         /\ \A t \in 0 .. MaxTime : Leased(t) \in EventRecord
         /\ [event EXCEPT !.status = "dlq", !.updatedAt = clock] \in EventRecord
         /\ \A s \in {"failed", "pending"}, n \in 0 .. MaxRetries, t \in 0 .. MaxTime :
              [status |-> s, retryCount |-> n, nextRetryAt |-> t, updatedAt |-> clock]
                \in EventRecord
<1>1. event \in EventRecord /\ clock \in 0 .. MaxTime
  BY BaseFacts
<1>2. \A t \in 0 .. MaxTime :
        t \in 0 .. MaxTime + Lease /\ t + Lease \in 0 .. MaxTime + Lease
  BY WebhookAssumption
<1>3. Done \in EventRecord
  BY <1>1 DEF Done, EventRecord, Status
<1>4. \A t \in 0 .. MaxTime : Leased(t) \in EventRecord
  BY <1>1, <1>2 DEF Leased, EventRecord, Status
<1>5. [event EXCEPT !.status = "dlq", !.updatedAt = clock] \in EventRecord
  BY <1>1 DEF EventRecord, Status
<1>6. \A s \in {"failed", "pending"}, n \in 0 .. MaxRetries, t \in 0 .. MaxTime :
        [status |-> s, retryCount |-> n, nextRetryAt |-> t, updatedAt |-> clock]
          \in EventRecord
  BY <1>1, <1>2 DEF EventRecord, Status
<1> QED
  BY <1>3, <1>4, <1>5, <1>6

-----------------------------------------------------------------------------
(* Every step of a runtime has one of three shapes.                        *)

\* Runtime r goes on to w; the row stays as it is.
Walks(r, w) ==
  /\ worker' = [worker EXCEPT ![r] = w]
  /\ UNCHANGED <<clock, event, replays, holder>>
  /\ \/ w = Idle /\ handled' = handled
     \/ w = [worker[r] EXCEPT !.pc = "finding"] /\ handled' = handled
     \/ w = [worker[r] EXCEPT !.pc = "claiming", !.now = clock] /\ handled' = handled
     \/ /\ worker[r].pc = "claimed" /\ handled' = handled
        /\ w = [worker[r] EXCEPT !.pc = "handling", !.token = event.updatedAt]
     \/ /\ worker[r].pc = "handling" /\ handled' = TRUE
        /\ w = [worker[r] EXCEPT !.pc = "finalizing"]
     \/ /\ worker[r].pc \in {"handling", "finalizing"} /\ handled' = handled
        /\ w = [worker[r] EXCEPT !.pc = "failing"]
     \/ /\ worker[r].pc = "failing" /\ Owns(r) /\ handled' = handled
        /\ w = [worker[r] EXCEPT !.pc = "recording", !.count = event.retryCount + 1]

\* Runtime r is granted the claim.
Takes(r, w) ==
  /\ worker[r].pc = "claiming" /\ Claimable(event, worker[r].now)
  /\ event' = Leased(worker[r].now) /\ holder' = r
  /\ worker' = [worker EXCEPT ![r] = w]
  /\ w \in {Idle, [worker[r] EXCEPT !.pc = "claimed"]}
  /\ UNCHANGED <<clock, replays, handled>>

\* Runtime r, which owns the claim, writes the outcome.
Ends(r, w, e) ==
  /\ Owns(r)
  /\ event' = e /\ e \in EventRecord /\ e.updatedAt = clock
  /\ worker' = [worker EXCEPT ![r] = w]
  /\ UNCHANGED <<clock, replays, holder, handled>>
  /\ \/ e.status = "processed" /\ worker[r].pc = "finalizing"
        /\ w \in {Idle, [worker[r] EXCEPT !.pc = "failing"]}
     \/ /\ e.status = "failed" /\ worker[r].pc = "recording" /\ w = Idle
     \/ /\ e.status = "dlq" /\ worker[r].pc = "recording" /\ w = Idle
        /\ worker[r].count > MaxRetries /\ e.retryCount = event.retryCount

RuntimeStep(r) == Step(r) \/ QueryFails(r) \/ AnswerLost(r) \/ Crash(r)

LEMMA Shapes ==
  ASSUME BaseInv, NEW r \in Runtimes, RuntimeStep(r)
  PROVE  \/ \E w : Walks(r, w)
         \/ \E w : Takes(r, w)
         \/ \E w, e : Ends(r, w, e)
<1> DEFINE At(pc) == [worker[r] EXCEPT !.pc = pc]
<1>1. worker \in [Runtimes -> WorkerState] /\ event \in EventRecord
  BY BaseFacts
<1>2. CASE Poll(r)
  <2>1. Walks(r, At("finding"))
    BY <1>1, <1>2 DEF Poll, Goes, Walks
  <2> QED
    BY <2>1
<1>3. CASE Find(r)
  <2>1. Walks(r, Idle) \/ Walks(r, [worker[r] EXCEPT !.pc = "claiming", !.now = clock])
    BY <1>1, <1>3 DEF Find, Stops, Walks
  <2> QED
    BY <2>1
<1>4. CASE Claim(r)
  <2>1. Walks(r, Idle) \/ Takes(r, At("claimed"))
    BY <1>1, <1>4 DEF Claim, Stops, Goes, Walks, Takes
  <2> QED
    BY <2>1
<1>5. CASE ReRead(r)
  <2>1. Walks(r, [worker[r] EXCEPT !.pc = "handling", !.token = event.updatedAt])
    BY <1>1, <1>5 DEF ReRead, Walks
  <2> QED
    BY <2>1
<1>6. CASE HandlerReturns(r)
  <2>1. Walks(r, At("finalizing")) \/ Walks(r, At("failing"))
    BY <1>1, <1>6 DEF HandlerReturns, Goes, Walks
  <2> QED
    BY <2>1
<1>7. Done \in EventRecord /\ Done.updatedAt = clock /\ Done.status = "processed"
  BY <1>1, RowTypes DEF Done, EventRecord
<1>8. CASE Finalize(r)
  <2>1. Walks(r, Idle) \/ Ends(r, Idle, Done)
    BY <1>1, <1>7, <1>8 DEF Finalize, Stops, Walks, Ends
  <2> QED
    BY <2>1
<1>9. CASE ReadFailed(r)
  <2>1. \/ Walks(r, Idle)
        \/ Walks(r, [worker[r] EXCEPT !.pc = "recording", !.count = event.retryCount + 1])
    BY <1>1, <1>9 DEF ReadFailed, Stops, Walks
  <2> QED
    BY <2>1
<1>10. CASE RecordFailure(r)
  <2>1. worker[r].pc = "recording" /\ worker' = [worker EXCEPT ![r] = Idle]
        /\ UNCHANGED <<clock, replays, holder, handled>>
    BY <1>10 DEF RecordFailure, Stops
  <2>2. CASE ~Owns(r) /\ UNCHANGED event
    <3>1. Walks(r, Idle)
      BY <2>1, <2>2 DEF Walks
    <3> QED
      BY <3>1
  <2>3. CASE /\ Owns(r) /\ worker[r].count > MaxRetries
             /\ event' = [event EXCEPT !.status = "dlq", !.updatedAt = clock]
    <3> DEFINE e == [event EXCEPT !.status = "dlq", !.updatedAt = clock]
    <3>1. /\ e \in EventRecord /\ e.updatedAt = clock /\ e.status = "dlq"
          /\ e.retryCount = event.retryCount
      BY <1>1, RowTypes DEF EventRecord
    <3> HIDE DEF e
    <3>2. event' = e
      BY <2>3 DEF e
    <3>3. Ends(r, Idle, e)
      BY <2>1, <2>3, <3>1, <3>2 DEF Ends
    <3> QED
      BY <3>3
  <2>4. ASSUME Owns(r), worker[r].count <= MaxRetries,
               NEW t \in NextRetryTimes(worker[r].count),
               event' = [status |-> "failed", retryCount |-> worker[r].count,
                         nextRetryAt |-> t, updatedAt |-> clock]
        PROVE  \E w, e : Ends(r, w, e)
    <3> DEFINE e == [status |-> "failed", retryCount |-> worker[r].count,
                     nextRetryAt |-> t, updatedAt |-> clock]
    <3>1. worker[r].count \in 0 .. MaxRetries
      BY <1>1, <2>4, WebhookAssumption DEF WorkerState
    <3>2. t \in 0 .. MaxTime
      BY <2>4, <3>1, BaseFacts, RetryTimes
    <3>3. e \in EventRecord /\ e.updatedAt = clock /\ e.status = "failed"
      BY <3>1, <3>2, RowTypes
    <3> HIDE DEF e
    <3>4. event' = e
      BY <2>4 DEF e
    <3>5. Ends(r, Idle, e)
      BY <2>1, <2>4, <3>3, <3>4 DEF Ends
    <3> QED
      BY <3>5
  <2> QED
    BY <1>10, <2>2, <2>3, <2>4 DEF RecordFailure
<1>11. CASE QueryFails(r)
  <2>1. Walks(r, Idle) \/ Walks(r, At("failing"))
    BY <1>1, <1>11 DEF QueryFails, Stops, Goes, Walks
  <2> QED
    BY <2>1
<1>12. CASE AnswerLost(r)
  <2>1. Takes(r, Idle) \/ Ends(r, At("failing"), Done)
    BY <1>1, <1>7, <1>12 DEF AnswerLost, Stops, Goes, Takes, Ends
  <2> QED
    BY <2>1
<1>13. CASE Crash(r)
  <2>1. Walks(r, Idle)
    BY <1>13 DEF Crash, Stops, Walks
  <2> QED
    BY <2>1
<1> QED
  BY <1>2, <1>3, <1>4, <1>5, <1>6, <1>8, <1>9, <1>10, <1>11, <1>12, <1>13
  DEF RuntimeStep, Step

-----------------------------------------------------------------------------
(* The invariant that needs no prompt claims.                              *)

LEMMA InitBase == Init => BaseInv
<1> SUFFICES ASSUME Init PROVE BaseInv
  OBVIOUS
<1>1. Min2(InitialDelay, MaxTime) \in 0 .. MaxTime + Lease
  BY WebhookAssumption DEF Min2
<1>2. event \in EventRecord /\ event.status = "pending" /\ event.updatedAt = 0
  BY <1>1, WebhookAssumption DEF Init, EventRecord, Status
<1>3. Idle \in WorkerState /\ Idle.pc = "idle" /\ Idle.now = 0
  BY WebhookAssumption DEF Idle, WorkerState
<1>4. worker \in [Runtimes -> WorkerState] /\ \A r \in Runtimes : worker[r] = Idle
  BY <1>3 DEF Init
<1>5. TypeOK /\ clock = 0
  <2>1. clock = 0 /\ replays = 0 /\ holder = None /\ handled = FALSE
    BY DEF Init
  <2>2. clock \in 0 .. MaxTime /\ replays \in 0 .. MaxReplays
    BY <2>1, WebhookAssumption
  <2> QED
    BY <1>2, <1>4, <2>1, <2>2 DEF TypeOK, EventRecord
<1>6. \A r \in Runtimes : worker[r].pc = "idle" /\ worker[r].now = 0
  BY <1>3, <1>4
<1> QED
  BY <1>2, <1>5, <1>6 DEF BaseInv

(* The runtimes that do not step stay as they are. *)
LEMMA OthersStay ==
  ASSUME BaseInv, NEW r \in Runtimes, NEW w, worker' = [worker EXCEPT ![r] = w]
  PROVE  worker'[r] = w /\ \A q \in Runtimes \ {r} : worker'[q] = worker[q]
  BY BaseFacts

LEMMA WalksBase ==
  ASSUME BaseInv, NEW r \in Runtimes, NEW w, Walks(r, w)
  PROVE  BaseInv'
<1>1. /\ worker[r] \in WorkerState /\ worker[r].now \in Nat /\ worker[r].now <= clock
      /\ clock \in Nat /\ clock \in 0 .. MaxTime
      /\ event \in EventRecord
      /\ worker \in [Runtimes -> WorkerState]
  BY BaseFacts DEF BaseInv
<1>2. Idle \in WorkerState /\ Idle.pc = "idle" /\ Idle.now = 0
  BY WebhookAssumption DEF Idle, WorkerState
<1>3. event.updatedAt \in 0 .. MaxTime /\ event.retryCount + 1 \in 0 .. MaxRetries + 1
  BY <1>1, WebhookAssumption DEF EventRecord
<1>4. w \in WorkerState
  <2>1. CASE w = Idle
    BY <1>2, <2>1
  <2>2. CASE \E p \in {"finding", "finalizing", "failing"} : w = [worker[r] EXCEPT !.pc = p]
    BY <1>1, <2>2 DEF WorkerState
  <2>3. CASE w = [worker[r] EXCEPT !.pc = "claiming", !.now = clock]
    BY <1>1, <2>3 DEF WorkerState
  <2>4. CASE w = [worker[r] EXCEPT !.pc = "handling", !.token = event.updatedAt]
    BY <1>1, <1>3, <2>4 DEF WorkerState
  <2>5. CASE w = [worker[r] EXCEPT !.pc = "recording", !.count = event.retryCount + 1]
    BY <1>1, <1>3, <2>5 DEF WorkerState
  <2> QED
    BY <2>1, <2>2, <2>3, <2>4, <2>5 DEF Walks
<1>5. w.now \in {0, clock, worker[r].now}
  BY <1>1, <1>2 DEF Walks, WorkerState
<1>6. w.now <= clock
  BY <1>1, <1>5
<1>7. w.pc = "finalizing" => handled'
  BY <1>1, <1>2 DEF Walks, WorkerState
<1>8. handled \in BOOLEAN /\ handled' \in {handled, TRUE}
  BY DEF BaseInv, TypeOK, Walks
<1>9. /\ worker' = [worker EXCEPT ![r] = w]
      /\ UNCHANGED <<clock, event, replays, holder>>
  BY DEF Walks
<1>10. TypeOK'
  BY <1>1, <1>4, <1>8, <1>9 DEF BaseInv, TypeOK
<1>11. \A q \in Runtimes : worker'[q].now <= clock'
  BY <1>6, <1>9, OthersStay DEF BaseInv
<1>12. ASSUME NEW q \in Runtimes, worker'[q].pc = "finalizing"
       PROVE  handled'
  <2>1. CASE q = r
    BY <1>7, <1>9, <1>12, <2>1, OthersStay
  <2>2. CASE q # r
    <3>1. worker'[q] = worker[q]
      BY <1>9, <2>2, OthersStay
    <3>2. handled
      BY <1>12, <3>1 DEF BaseInv
    <3> QED
      BY <1>8, <3>2
  <2> QED
    BY <2>1, <2>2
<1> QED
  BY <1>8, <1>9, <1>10, <1>11, <1>12 DEF BaseInv

LEMMA TakesBase ==
  ASSUME BaseInv, NEW r \in Runtimes, NEW w, Takes(r, w)
  PROVE  BaseInv' /\ event'.updatedAt = worker[r].now
         /\ event'.status = "processing" /\ event'.retryCount = event.retryCount
<1>1. /\ worker[r] \in WorkerState /\ worker[r].now \in Nat /\ worker[r].now <= clock
      /\ clock \in Nat /\ clock \in 0 .. MaxTime
      /\ event \in EventRecord
      /\ worker \in [Runtimes -> WorkerState]
  BY BaseFacts DEF BaseInv
<1>2. worker[r].now \in 0 .. MaxTime
  BY <1>1 DEF WorkerState
<1>3. event' \in EventRecord
  BY <1>2, RowTypes DEF Takes
<1>4. /\ event'.updatedAt = worker[r].now /\ event'.status = "processing"
      /\ event'.retryCount = event.retryCount
  BY <1>1 DEF Takes, Leased, EventRecord
<1>5. w \in WorkerState /\ w.now <= clock /\ w.pc # "finalizing"
  BY <1>1, WebhookAssumption DEF Takes, Idle, WorkerState
<1>6. /\ worker' = [worker EXCEPT ![r] = w] /\ holder' = r
      /\ UNCHANGED <<clock, replays, handled>>
  BY DEF Takes
<1>7. TypeOK'
  BY <1>1, <1>3, <1>5, <1>6 DEF BaseInv, TypeOK, EventRecord
<1>8. \A q \in Runtimes : worker'[q].now <= clock'
  BY <1>5, <1>6, OthersStay DEF BaseInv
<1>9. \A q \in Runtimes : worker'[q].pc = "finalizing" => handled'
  BY <1>5, <1>6, OthersStay DEF BaseInv
<1> QED
  BY <1>1, <1>4, <1>6, <1>7, <1>8, <1>9 DEF BaseInv

LEMMA EndsBase ==
  ASSUME BaseInv, NEW r \in Runtimes, NEW w, NEW e, Ends(r, w, e)
  PROVE  BaseInv'
<1>1. /\ worker[r] \in WorkerState /\ worker[r].now \in Nat /\ worker[r].now <= clock
      /\ clock \in Nat
      /\ worker \in [Runtimes -> WorkerState]
  BY BaseFacts DEF BaseInv
<1>2. w \in WorkerState /\ w.now <= clock /\ w.pc # "finalizing"
  BY <1>1, WebhookAssumption DEF Ends, Idle, WorkerState
<1>3. /\ worker' = [worker EXCEPT ![r] = w]
      /\ UNCHANGED <<clock, replays, holder, handled>>
      /\ event' \in EventRecord /\ event'.updatedAt = clock
  BY DEF Ends
<1>4. event'.status = "processed" => handled
  BY DEF Ends, BaseInv
<1>5. TypeOK'
  BY <1>1, <1>2, <1>3 DEF BaseInv, TypeOK, EventRecord
<1>6. \A q \in Runtimes : worker'[q].now <= clock'
  BY <1>2, <1>3, OthersStay DEF BaseInv
<1>7. \A q \in Runtimes : worker'[q].pc = "finalizing" => handled'
  BY <1>2, <1>3, OthersStay DEF BaseInv
<1> QED
  BY <1>1, <1>3, <1>4, <1>5, <1>6, <1>7 DEF BaseInv

(* replayDLQEvent writes a row that is due again. *)
LEMMA ReplayRow ==
  ASSUME BaseInv, Replay
  PROVE  /\ event' \in EventRecord /\ event'.updatedAt = clock
         /\ event'.status = "pending"
<1>1. PICK t \in NextRetryTimes(0) :
        event' = [status |-> "pending", retryCount |-> 0,
                  nextRetryAt |-> t, updatedAt |-> clock]
  BY DEF Replay
<1>2. 0 \in 0 .. MaxRetries
  BY WebhookAssumption
<1>3. t \in 0 .. MaxTime
  BY <1>1, <1>2, BaseFacts, RetryTimes
<1> QED
  BY <1>1, <1>2, <1>3, RowTypes

LEMMA NextBase == BaseInv /\ [Next]_vars => BaseInv'
<1> SUFFICES ASSUME BaseInv, [Next]_vars PROVE BaseInv'
  OBVIOUS
<1>1. ASSUME NEW r \in Runtimes, RuntimeStep(r) PROVE BaseInv'
  BY <1>1, Shapes, WalksBase, TakesBase, EndsBase
<1>2. CASE Replay
  <2>1. /\ UNCHANGED <<clock, worker, holder, handled>>
        /\ replays < MaxReplays /\ replays' = replays + 1
    BY <1>2 DEF Replay
  <2>2. replays' \in 0 .. MaxReplays
    BY <2>1, WebhookAssumption DEF BaseInv, TypeOK
  <2>3. clock \in Nat
    BY BaseFacts
  <2>4. TypeOK'
    BY <1>2, <2>1, <2>2, ReplayRow DEF BaseInv, TypeOK, EventRecord
  <2> QED
    BY <1>2, <2>1, <2>3, <2>4, ReplayRow DEF BaseInv
<1>3. CASE TimePasses
  <2>1. /\ clock < MaxTime /\ clock' = clock + 1
        /\ UNCHANGED <<event, worker, replays, holder, handled>>
    BY <1>3 DEF TimePasses
  <2>2. /\ clock \in Nat /\ event.updatedAt \in Nat
        /\ \A r \in Runtimes : worker[r].now \in Nat
    BY BaseFacts
  <2>3. clock' \in 0 .. MaxTime
    BY <2>1, <2>2, WebhookAssumption
  <2>4. TypeOK'
    BY <2>1, <2>3 DEF BaseInv, TypeOK
  <2> QED
    BY <2>1, <2>2, <2>4 DEF BaseInv
<1>4. CASE UNCHANGED vars
  BY <1>4 DEF vars, BaseInv, TypeOK
<1> QED
  BY <1>1, <1>2, <1>3, <1>4 DEF Next, RuntimeStep

(* The row, the runtimes and the retry count keep their types, with or     *)
(* without prompt claims and whatever fails on the way.                    *)
THEOREM TypeCorrect == Spec => []TypeOK
<1>1. BaseInv => TypeOK
  BY DEF BaseInv
<1> QED
  BY <1>1, InitBase, NextBase, PTL DEF Spec

(* No late failure, no reclaim and no replay moves a processed event. *)
THEOREM ProcessedStays == Spec => ProcessedIsFinal
<1> DEFINE Stays == event.status = "processed" => event' = event
<1>1. BaseInv /\ [Next]_vars => [Stays]_vars
  <2> SUFFICES ASSUME BaseInv, [Next]_vars, event.status = "processed"
               PROVE  event' = event
    OBVIOUS
  <2>1. ASSUME NEW r \in Runtimes, RuntimeStep(r) PROVE event' = event
    <3>1. ~Owns(r) /\ ~Claimable(event, worker[r].now)
      BY DEF Owns, Claimable
    <3> QED
      BY <2>1, <3>1, Shapes DEF Walks, Takes, Ends
  <2>2. ~Replay
    BY DEF Replay
  <2> QED
    BY <2>1, <2>2 DEF Next, RuntimeStep, TimePasses, vars
<1> QED
  BY <1>1, InitBase, NextBase, PTL DEF Spec, ProcessedIsFinal

-----------------------------------------------------------------------------
(* What the lease gives when claims are prompt.                            *)

(* The runtime that may write the outcome is the one whose claim stands. *)
LEMMA OwnerIsHolder ==
  ASSUME LeaseInv, NEW r \in Runtimes, Owns(r), worker[r].pc \in Held
  PROVE  Mine(r)
<1>1. event.status = "processing" /\ event.updatedAt = worker[r].now
  BY DEF Owns, LeaseInv, LeaseOK
<1>2. Mine(r) \/ Overtaken(r) \/ Unaware(r)
  BY DEF LeaseInv, LeaseOK, Engaged
<1>3. ~Unaware(r)
  BY <1>1 DEF Unaware
<1>4. ~Overtaken(r)
  BY <1>1, BaseFacts DEF LeaseInv, Overtaken
<1> QED
  BY <1>2, <1>3, <1>4

(* What is said of a runtime depends on its record, the row and the clock. *)
LEMMA LeaseKeeps ==
  ASSUME NEW q \in Runtimes, LeaseOK(q), worker'[q] = worker[q],
         UNCHANGED <<clock, event, holder>>
  PROVE  LeaseOK(q)'
  BY DEF LeaseOK, Engaged, Mine, Overtaken, Unaware

LEMMA WalksLease ==
  ASSUME LeaseInv, NEW r \in Runtimes, NEW w, Walks(r, w)
  PROVE  LeaseInv'
<1>1. BaseInv /\ BaseInv' /\ LeaseOK(r)
  BY WalksBase DEF LeaseInv
<1>2. /\ worker[r] \in WorkerState /\ worker[r].now \in Nat /\ clock \in Nat
      /\ event.updatedAt \in Nat
  BY <1>1, BaseFacts
<1>3. worker'[r] = w /\ \A q \in Runtimes \ {r} : worker'[q] = worker[q]
  BY <1>1, OthersStay DEF Walks
<1>4. UNCHANGED <<clock, event, holder>> /\ handled' \in {handled, TRUE}
  BY DEF Walks
<1>5. FinishedIsEarned'
  BY <1>4 DEF LeaseInv, FinishedIsEarned
<1>6. \A q \in Runtimes \ {r} : LeaseOK(q)'
  BY <1>3, <1>4, LeaseKeeps DEF LeaseInv
<1>7. LeaseOK(r)'
  <2>1. CASE w = Idle \/ w = [worker[r] EXCEPT !.pc = "finding"]
    <3>1. worker'[r].pc \in {"idle", "finding"}
      BY <1>2, <1>3, <2>1 DEF Idle, WorkerState
    <3> QED
      BY <3>1 DEF LeaseOK, Engaged, Held
  <2>2. CASE w = [worker[r] EXCEPT !.pc = "claiming", !.now = clock]
    <3>1. worker'[r].pc = "claiming" /\ worker'[r].now = clock
      BY <1>2, <1>3, <2>2 DEF WorkerState
    <3>2. clock' < worker'[r].now + Lease
      BY <1>2, <1>4, <3>1, WebhookAssumption
    <3> QED
      BY <3>1, <3>2 DEF LeaseOK, Engaged, Held
  <2>3. CASE /\ worker[r].pc = "claimed"
             /\ w = [worker[r] EXCEPT !.pc = "handling", !.token = event.updatedAt]
    <3>1. /\ worker'[r].pc = "handling" /\ worker'[r].now = worker[r].now
          /\ worker'[r].token = event.updatedAt
      BY <1>2, <1>3, <2>3 DEF WorkerState
    <3>2. Mine(r)
      BY <1>1, <1>2, <2>3, WebhookAssumption
      DEF LeaseOK, Engaged, Overtaken, Unaware
    <3> QED
      BY <1>4, <3>1, <3>2 DEF LeaseOK, Engaged, Held, Mine
  <2>4. CASE \/ /\ worker[r].pc = "handling"
                /\ w = [worker[r] EXCEPT !.pc = "finalizing"]
             \/ /\ worker[r].pc \in {"handling", "finalizing"}
                /\ w = [worker[r] EXCEPT !.pc = "failing"]
    <3>1. /\ worker'[r].pc \in {"finalizing", "failing"}
          /\ worker'[r].now = worker[r].now /\ worker'[r].token = worker[r].token
      BY <1>2, <1>3, <2>4 DEF WorkerState
    <3>2. worker[r].token = worker[r].now /\ (Mine(r) \/ Overtaken(r))
      BY <1>1, <2>4 DEF LeaseOK, Engaged, Held, Unaware
    <3> QED
      BY <1>4, <3>1, <3>2 DEF LeaseOK, Engaged, Held, Mine, Overtaken
  <2>5. CASE /\ worker[r].pc = "failing" /\ Owns(r)
             /\ w = [worker[r] EXCEPT !.pc = "recording", !.count = event.retryCount + 1]
    <3>1. /\ worker'[r].pc = "recording" /\ worker'[r].count = event.retryCount + 1
          /\ worker'[r].now = worker[r].now /\ worker'[r].token = worker[r].token
      BY <1>2, <1>3, <2>5 DEF WorkerState
    <3>2. worker[r].token = worker[r].now /\ Mine(r)
      BY <1>1, <2>5, OwnerIsHolder DEF LeaseOK, Held
    <3> QED
      BY <1>4, <3>1, <3>2 DEF LeaseOK, Engaged, Held, Mine
  <2> QED
    BY <2>1, <2>2, <2>3, <2>4, <2>5 DEF Walks
<1> QED
  BY <1>1, <1>5, <1>6, <1>7 DEF LeaseInv

LEMMA TakesLease ==
  ASSUME LeaseInv, NEW r \in Runtimes, NEW w, Takes(r, w)
  PROVE  LeaseInv'
<1>1. BaseInv /\ BaseInv' /\ LeaseOK(r)
      /\ event'.updatedAt = worker[r].now /\ event'.status = "processing"
  BY TakesBase DEF LeaseInv
<1>2. /\ clock \in Nat /\ event.updatedAt \in Nat /\ worker[r] \in WorkerState
      /\ \A q \in Runtimes : worker[q].now \in Nat /\ worker[q].now <= clock
  BY <1>1, BaseFacts DEF BaseInv
<1>3. worker'[r] = w /\ \A q \in Runtimes \ {r} : worker'[q] = worker[q]
  BY <1>1, OthersStay DEF Takes
<1>4. /\ holder' = r /\ clock' = clock /\ clock < worker[r].now + Lease
      /\ Claimable(event, worker[r].now)
  BY <1>1 DEF Takes, LeaseOK
<1>5. FinishedIsEarned'
  BY <1>1 DEF FinishedIsEarned
<1>6. ASSUME NEW q \in Runtimes \ {r} PROVE LeaseOK(q)'
  <2>1. LeaseOK(q)
    BY DEF LeaseInv
  <2>2. Mine(q) => Overtaken(q)'
    BY <1>1, <1>2, <1>3, <1>4, WebhookAssumption DEF Mine, Overtaken, Claimable
  <2>3. Overtaken(q) => Overtaken(q)'
    BY <1>1, <1>2, <1>3, <1>4, WebhookAssumption DEF Overtaken
  <2>4. ~Unaware(q)
    BY <1>4 DEF Unaware, Claimable
  <2>5. ~Mine(q)'
    BY <1>4 DEF Mine
  <2> QED
    BY <1>3, <1>4, <2>1, <2>2, <2>3, <2>4, <2>5 DEF LeaseOK, Engaged
<1>7. LeaseOK(r)'
  <2>1. CASE w = Idle
    BY <1>3, <2>1 DEF LeaseOK, Engaged, Held, Idle
  <2>2. CASE w = [worker[r] EXCEPT !.pc = "claimed"]
    <3>1. worker'[r].pc = "claimed" /\ worker'[r].now = worker[r].now
      BY <1>2, <1>3, <2>2 DEF WorkerState
    <3> QED
      BY <1>1, <1>4, <3>1 DEF LeaseOK, Held, Mine
  <2> QED
    BY <2>1, <2>2 DEF Takes
<1> QED
  BY <1>1, <1>5, <1>6, <1>7 DEF LeaseInv

LEMMA EndsLease ==
  ASSUME LeaseInv, NEW r \in Runtimes, NEW w, NEW e, Ends(r, w, e)
  PROVE  LeaseInv' /\ holder = r
<1>1. BaseInv /\ BaseInv' /\ LeaseOK(r) /\ worker[r].pc \in Held /\ Owns(r)
  BY EndsBase DEF LeaseInv, Ends, Held
<1>2. Mine(r)
  BY <1>1, OwnerIsHolder
<1>3. /\ clock \in Nat /\ event.updatedAt \in Nat /\ worker[r] \in WorkerState
      /\ worker[r].count \in Nat /\ event.retryCount \in 0 .. MaxRetries
      /\ \A q \in Runtimes : worker[q].now \in Nat
  BY <1>1, BaseFacts DEF EventRecord
<1>4. worker'[r] = w /\ \A q \in Runtimes \ {r} : worker'[q] = worker[q]
  BY <1>1, OthersStay DEF Ends
<1>5. /\ UNCHANGED <<clock, holder, handled>>
      /\ event'.updatedAt = clock /\ event'.status # "processing"
  BY DEF Ends
<1>6. FinishedIsEarned'
  <2>1. event'.status = "processed" => handled'
    BY <1>1 DEF BaseInv
  <2>2. event'.status = "dlq" => event'.retryCount = MaxRetries
    <3> SUFFICES ASSUME event'.status = "dlq" PROVE event'.retryCount = MaxRetries
      OBVIOUS
    <3>1. /\ worker[r].pc = "recording" /\ worker[r].count > MaxRetries
          /\ event'.retryCount = event.retryCount
      BY DEF Ends
    <3>2. worker[r].count = event.retryCount + 1
      BY <1>1, <1>2, <3>1 DEF LeaseOK
    <3> QED
      BY <1>3, <3>1, <3>2, WebhookAssumption
  <2> QED
    BY <2>1, <2>2 DEF FinishedIsEarned
<1>7. ASSUME NEW q \in Runtimes \ {r} PROVE LeaseOK(q)'
  <2>1. LeaseOK(q)
    BY DEF LeaseInv
  <2>2. ~Mine(q) /\ ~Unaware(q)
    BY <1>2 DEF Mine, Unaware
  <2>3. Overtaken(q) => Overtaken(q)'
    BY <1>3, <1>4, <1>5, WebhookAssumption DEF Overtaken
  <2>4. ~Mine(q)'
    BY <1>5 DEF Mine
  <2> QED
    BY <1>4, <1>5, <2>1, <2>2, <2>3, <2>4 DEF LeaseOK, Engaged
<1>8. LeaseOK(r)'
  <2>1. CASE w = Idle
    BY <1>4, <2>1 DEF LeaseOK, Engaged, Held, Idle
  <2>2. CASE w = [worker[r] EXCEPT !.pc = "failing"] /\ e.status = "processed"
    <3>1. /\ worker'[r].pc = "failing" /\ worker'[r].now = worker[r].now
          /\ worker'[r].token = worker[r].token
      BY <1>3, <1>4, <2>2 DEF WorkerState
    <3>2. worker[r].token = worker[r].now /\ event'.status = "processed"
      BY <1>1, <2>2 DEF LeaseOK, Ends
    <3> QED
      BY <3>1, <3>2 DEF LeaseOK, Unaware
  <2> QED
    BY <2>1, <2>2 DEF Ends
<1> QED
  BY <1>1, <1>2, <1>6, <1>7, <1>8 DEF LeaseInv, Mine

LEMMA InitLease == Init => LeaseInv
<1> SUFFICES ASSUME Init PROVE LeaseInv
  OBVIOUS
<1>1. \A r \in Runtimes : worker[r].pc = "idle"
  BY DEF Init, Idle
<1>2. event.status = "pending"
  BY DEF Init
<1> QED
  BY <1>1, <1>2, InitBase DEF LeaseInv, LeaseOK, Engaged, Held, FinishedIsEarned

LEMMA NextLease ==
  ASSUME PromptClaims
  PROVE  LeaseInv /\ [Next]_vars => LeaseInv'
<1> SUFFICES ASSUME LeaseInv, [Next]_vars PROVE LeaseInv'
  OBVIOUS
<1>1. BaseInv /\ BaseInv' /\ \A r \in Runtimes : LeaseOK(r)
  BY NextBase DEF LeaseInv
<1>2. /\ clock \in Nat /\ event.updatedAt \in Nat
      /\ \A r \in Runtimes : worker[r].now \in Nat
  BY <1>1, BaseFacts
<1>3. ASSUME NEW r \in Runtimes, RuntimeStep(r) PROVE LeaseInv'
  BY <1>1, <1>3, Shapes, WalksLease, TakesLease, EndsLease
<1>4. CASE Replay
  <2>1. /\ event'.updatedAt = clock /\ event'.status = "pending"
        /\ UNCHANGED <<clock, worker, holder>> /\ event.status = "dlq"
    BY <1>1, <1>4, ReplayRow DEF Replay
  <2>2. ASSUME NEW q \in Runtimes PROVE LeaseOK(q)'
    <3>1. ~Mine(q) /\ ~Unaware(q) /\ ~Mine(q)'
      BY <2>1 DEF Mine, Unaware
    <3>2. Overtaken(q) => Overtaken(q)'
      BY <1>2, <2>1, WebhookAssumption DEF Overtaken
    <3> QED
      BY <1>1, <2>1, <3>1, <3>2 DEF LeaseOK, Engaged
  <2> QED
    BY <1>1, <2>1, <2>2 DEF LeaseInv, FinishedIsEarned
<1>5. CASE TimePasses
  <2>1. /\ clock' = clock + 1 /\ UNCHANGED <<event, worker, holder, handled>>
        /\ \A r \in Runtimes : worker[r].pc \in {"claiming", "claimed"} =>
             clock + 1 < worker[r].now + Lease
    BY <1>5 DEF TimePasses
  <2>2. ASSUME NEW q \in Runtimes PROVE LeaseOK(q)'
    <3>1. Overtaken(q) => Overtaken(q)'
      BY <1>2, <2>1, WebhookAssumption DEF Overtaken
    <3> QED
      BY <1>1, <2>1, <3>1 DEF LeaseOK, Engaged, Mine, Unaware
  <2> QED
    BY <1>1, <2>1, <2>2 DEF LeaseInv, FinishedIsEarned
<1>6. CASE UNCHANGED vars
  <2>1. \A q \in Runtimes : LeaseOK(q)'
    BY <1>1, <1>6, LeaseKeeps DEF vars
  <2> QED
    BY <1>1, <1>6, <2>1 DEF LeaseInv, FinishedIsEarned, vars
<1> QED
  BY <1>3, <1>4, <1>5, <1>6 DEF Next, RuntimeStep

(* An event is dead-lettered only when its retries are used up, and        *)
(* processed only after its handler succeeded.                             *)
THEOREM EndsAreEarned ==
  ASSUME PromptClaims PROVE Spec => []FinishedIsEarned
<1>1. LeaseInv => FinishedIsEarned
  BY DEF LeaseInv
<1> QED
  BY <1>1, InitLease, NextLease, PTL DEF Spec

(* The runtime whose claim was granted last, and no other, takes an event  *)
(* out of processing.                                                      *)
THEOREM HolderFinishes ==
  ASSUME PromptClaims PROVE Spec => OnlyHolderFinishes
<1> DEFINE Kept == event.status = "processing" /\ event'.status # "processing" =>
                     worker'[holder] # worker[holder]
<1>1. LeaseInv /\ [Next]_vars => [Kept]_vars
  <2> SUFFICES ASSUME LeaseInv, Next,
                      event.status = "processing", event'.status # "processing"
               PROVE  worker'[holder] # worker[holder]
    BY DEF vars
  <2>1. PICK r \in Runtimes : RuntimeStep(r)
    BY DEF Next, RuntimeStep, Replay, TimePasses
  <2>2. BaseInv
    BY DEF LeaseInv
  <2>3. PICK w, e : Ends(r, w, e)
    BY <2>1, <2>2, Shapes, TakesBase DEF Walks
  <2>4. holder = r
    BY <2>3, EndsLease
  <2>5. worker'[r] = w /\ worker[r] \in WorkerState
    BY <2>2, <2>3, OthersStay, BaseFacts DEF Ends
  <2>6. w.pc # worker[r].pc
    BY <2>3, <2>5 DEF Ends, Idle, WorkerState
  <2> QED
    BY <2>4, <2>5, <2>6
<1> QED
  BY <1>1, InitLease, NextLease, PTL DEF Spec, OnlyHolderFinishes

(* At most one runtime is in its handler within its lease. *)
THEOREM LeaseIsExclusive ==
  ASSUME PromptClaims PROVE Spec => []OneLiveLease
<1>1. LeaseInv => OneLiveLease
  <2> SUFFICES ASSUME LeaseInv PROVE OneLiveLease
    OBVIOUS
  <2> DEFINE S == {r \in Runtimes : Claiming(r) /\ clock < worker[r].now + Lease}
  <2>1. ASSUME NEW r \in S PROVE r = holder
    <3>1. r \in Runtimes /\ Claiming(r) /\ clock < worker[r].now + Lease
      OBVIOUS
    <3>2. clock \in Nat /\ worker[r].now \in Nat
      BY <3>1, BaseFacts DEF LeaseInv
    <3>3. ~Overtaken(r) /\ ~Unaware(r)
      BY <3>1, <3>2, WebhookAssumption DEF Overtaken, Unaware, Claiming
    <3> QED
      BY <3>1, <3>3 DEF LeaseInv, LeaseOK, Engaged, Claiming, Held, Mine
  <2>2. S \subseteq {holder}
    BY <2>1
  <2>3. IsFiniteSet({holder}) /\ Cardinality({holder}) = 1
    BY FS_Singleton
  <2>4. IsFiniteSet(S) /\ Cardinality(S) <= 1
    BY <2>2, <2>3, FS_Subset
  <2> QED
    BY <2>4 DEF OneLiveLease
<1> QED
  BY <1>1, InitLease, NextLease, PTL DEF Spec
=============================================================================

------------------------------ MODULE Webhooks ------------------------------
(***************************************************************************)
(* Processing of one stored webhook event (lib/webhooks/processor.ts and   *)
(* retry.ts).  Several runtimes poll the database; each claims the event   *)
(* by a conditional update and holds the claim as a lease identified by    *)
(* the updatedAt it re-reads.  Every await is a step boundary: between two *)
(* steps of a runtime the others run, time passes, or the runtime dies.    *)
(***************************************************************************)
EXTENDS Integers, FiniteSets

CONSTANTS
  Runtimes,      \* processes running the processing loop
  MaxRetries,    \* maxRetries
  InitialDelay,  \* initialDelayMs
  Backoff,       \* backoffMultiplier
  MaxDelay,      \* maxDelayMs
  MaxJitter,     \* bound on the jitter of a delay
  Lease,         \* leaseTimeoutMs
  MaxTime,       \* bound on the clock
  MaxReplays,    \* bound on replays of the dead-letter queue
  LastFault,     \* no runtime dies and no query fails after this time
  PromptClaims,  \* TRUE: claiming and re-reading takes less than a lease
  None           \* undefined

ASSUME WebhookAssumption ==
  /\ MaxRetries \in Nat
  /\ InitialDelay \in Nat \ {0} /\ Backoff \in Nat \ {0} /\ MaxDelay \in Nat \ {0}
  /\ MaxJitter \in Nat
  /\ Lease \in Nat \ {0}
  /\ MaxTime \in Nat /\ MaxReplays \in Nat
  /\ LastFault \in Int
  /\ PromptClaims \in BOOLEAN
  /\ None \notin Int

\* Follows from Backoff \in Nat; the prover has no induction to see it.
ASSUME PowersAssumption == \A n \in 0 .. MaxRetries : Backoff ^ n \in Nat

VARIABLES
  clock,    \* Date.now()
  event,    \* the row: status, retryCount, nextRetryAt, updatedAt
  worker,   \* per runtime: where it is and what it remembers
  replays,  \* history: replays so far
  holder,   \* history: the runtime whose claim was granted last
  handled   \* history: TRUE once the handler has returned success

vars == <<clock, event, worker, replays, holder, handled>>

Status == {"pending", "processing", "processed", "failed", "dlq"}
Finished == {"processed", "dlq"}

\* pc says which await the runtime is in.  now is the Date it compares with,
\* token is processingStartedAt, count is the retryCount it has read.
Idle == [pc |-> "idle", now |-> 0, token |-> None, count |-> 0]

Min2(x, y) == IF x < y THEN x ELSE y

\* The last instant of the clock stands for all later ones.
Init ==
  /\ clock = 0
  /\ event = [status |-> "pending", retryCount |-> 0,
              nextRetryAt |-> Min2(InitialDelay, MaxTime), updatedAt |-> 0]
  /\ worker = [r \in Runtimes |-> Idle]
  /\ replays = 0 /\ holder = None /\ handled = FALSE

\* calculateRetryAfterMs, and calculateNextRetryTime with its jitter.
Delay(n) == Min2(InitialDelay * Backoff ^ n, MaxDelay)
NextRetryTimes(n) == {Min2(clock + Delay(n) + j, MaxTime) : j \in 0 .. MaxJitter}

\* Mutant: every event that is being processed may be claimed.
Claimable_Live(e, now) ==
  \/ e.status = "pending"
  \/ e.status = "failed" /\ e.nextRetryAt <= now
  \/ e.status = "processing"

\* The condition of getPendingWebhookEvents and of the claim.
Claimable(e, now) ==
  \/ e.status = "pending"
  \/ e.status = "failed" /\ e.nextRetryAt <= now
  \/ e.status = "processing" /\ e.updatedAt <= now - Lease

Goes(r, pc) == worker' = [worker EXCEPT ![r].pc = pc]
Stops(r) == worker' = [worker EXCEPT ![r] = Idle]

-----------------------------------------------------------------------------
(* A poll of one runtime.  inFlightEvents makes it skip an event it is     *)
(* already processing: a runtime is in one place at a time.                *)

\* getPendingWebhookEvents lists the event; findUnique is issued.
Poll(r) ==
  /\ worker[r].pc = "idle"
  /\ Claimable(event, clock)
  /\ Goes(r, "finding")
  /\ UNCHANGED <<clock, event, replays, holder, handled>>

\* findUnique has answered: an event that is finished or not due is left.
Find(r) ==
  /\ worker[r].pc = "finding"
  /\ IF event.status \in Finished
        \/ (event.status = "failed" /\ event.nextRetryAt > clock)
     THEN Stops(r)
     ELSE worker' = [worker EXCEPT ![r].pc = "claiming", ![r].now = clock]
  /\ UNCHANGED <<clock, event, replays, holder, handled>>

Leased(now) == [event EXCEPT !.status = "processing", !.updatedAt = now,
                             !.nextRetryAt = now + Lease]

\* The conditional update, with the time read before it was issued.
Claim(r) ==
  /\ worker[r].pc = "claiming"
  /\ IF Claimable(event, worker[r].now)
     THEN /\ event' = Leased(worker[r].now)
          /\ holder' = r
          /\ Goes(r, "claimed")
     ELSE Stops(r) /\ UNCHANGED <<event, holder>>
  /\ UNCHANGED <<clock, replays, handled>>

\* The re-read: the handler is called, and the token is whatever the row
\* holds by now.
ReRead(r) ==
  /\ worker[r].pc = "claimed"
  /\ worker' = [worker EXCEPT ![r].pc = "handling", ![r].token = event.updatedAt]
  /\ UNCHANGED <<clock, event, replays, holder, handled>>

\* Mutant: the result of the handler is not looked at.
HandlerReturns_Unread(r) ==
  /\ worker[r].pc = "handling"
  /\ Goes(r, "finalizing")
  /\ handled' \in {handled, TRUE}
  /\ UNCHANGED <<clock, event, replays, holder>>

\* The handler returns success, or a failure (or throws).
HandlerReturns(r) ==
  /\ worker[r].pc = "handling"
  /\ \/ Goes(r, "finalizing") /\ handled' = TRUE
     \/ Goes(r, "failing") /\ UNCHANGED handled
  /\ UNCHANGED <<clock, event, replays, holder>>

Done == [event EXCEPT !.status = "processed", !.nextRetryAt = None,
                      !.updatedAt = clock]

Owns(r) == event.status = "processing" /\ event.updatedAt = worker[r].token

\* Mutant: the token is not part of the condition.
Finalize_Unconditional(r) ==
  /\ worker[r].pc = "finalizing"
  /\ event' = IF event.status = "processing" THEN Done ELSE event
  /\ Stops(r)
  /\ UNCHANGED <<clock, replays, holder, handled>>

\* Mutant: the update is not conditional at all.
Finalize_Blind(r) ==
  /\ worker[r].pc = "finalizing"
  /\ event' = Done
  /\ Stops(r)
  /\ UNCHANGED <<clock, replays, holder, handled>>

Finalize(r) ==
  /\ worker[r].pc = "finalizing"
  /\ event' = IF Owns(r) THEN Done ELSE event
  /\ Stops(r)
  /\ UNCHANGED <<clock, replays, holder, handled>>

-----------------------------------------------------------------------------
(* handleWebhookProcessingFailure.                                         *)

ReadFailed(r) ==
  /\ worker[r].pc = "failing"
  /\ IF Owns(r)
     THEN worker' = [worker EXCEPT ![r].pc = "recording",
                                   ![r].count = event.retryCount + 1]
     ELSE Stops(r)
  /\ UNCHANGED <<clock, event, replays, holder, handled>>

\* Mutant: the limit is compared with the count before this failure.
RecordFailure_OneMore(r) ==
  /\ worker[r].pc = "recording"
  /\ \/ ~Owns(r) /\ UNCHANGED event
     \/ /\ Owns(r) /\ worker[r].count - 1 > MaxRetries
        /\ event' = [event EXCEPT !.status = "dlq", !.updatedAt = clock]
     \/ /\ Owns(r) /\ worker[r].count - 1 <= MaxRetries
        /\ \E t \in NextRetryTimes(worker[r].count) :
             event' = [status |-> "failed", retryCount |-> worker[r].count,
                       nextRetryAt |-> t, updatedAt |-> clock]
  /\ Stops(r)
  /\ UNCHANGED <<clock, replays, holder, handled>>

\* Mutant: the failed event is not given back.
RecordFailure_NoUpdate(r) ==
  /\ worker[r].pc = "recording"
  /\ Stops(r)
  /\ UNCHANGED <<clock, event, replays, holder, handled>>

\* The conditional update: to the dead-letter queue, or to be retried later.
RecordFailure(r) ==
  /\ worker[r].pc = "recording"
  /\ \/ ~Owns(r) /\ UNCHANGED event
     \/ /\ Owns(r) /\ worker[r].count > MaxRetries
        /\ event' = [event EXCEPT !.status = "dlq", !.updatedAt = clock]
     \/ /\ Owns(r) /\ worker[r].count <= MaxRetries
        /\ \E t \in NextRetryTimes(worker[r].count) :
             event' = [status |-> "failed", retryCount |-> worker[r].count,
                       nextRetryAt |-> t, updatedAt |-> clock]
  /\ Stops(r)
  /\ UNCHANGED <<clock, replays, holder, handled>>

-----------------------------------------------------------------------------
(* Faults, the administrator and the clock.                                *)

\* A query rejects.  The catch block handles a failure once the token is
\* known; otherwise the event stays as it is until its lease runs out.
QueryFails(r) ==
  /\ clock <= LastFault
  /\ \/ worker[r].pc \in {"finding", "claiming", "claimed", "failing", "recording"}
        /\ Stops(r)
     \/ worker[r].pc = "finalizing" /\ Goes(r, "failing")
  /\ UNCHANGED <<clock, event, replays, holder, handled>>

\* A write is applied, and its answer is lost.
AnswerLost(r) ==
  /\ clock <= LastFault
  /\ \/ /\ worker[r].pc = "claiming" /\ Claimable(event, worker[r].now)
        /\ event' = Leased(worker[r].now) /\ holder' = r
        /\ Stops(r)
     \/ /\ worker[r].pc = "finalizing" /\ Owns(r)
        /\ event' = Done /\ UNCHANGED holder
        /\ Goes(r, "failing")
  /\ UNCHANGED <<clock, replays, handled>>

Crash(r) ==
  /\ clock <= LastFault
  /\ worker[r].pc # "idle"
  /\ Stops(r)
  /\ UNCHANGED <<clock, event, replays, holder, handled>>

\* replayDLQEvent: its update is conditional on the dead-letter queue.
Replay ==
  /\ replays < MaxReplays
  /\ event.status = "dlq"
  /\ \E t \in NextRetryTimes(0) :
       event' = [status |-> "pending", retryCount |-> 0,
                 nextRetryAt |-> t, updatedAt |-> clock]
  /\ replays' = replays + 1
  /\ UNCHANGED <<clock, worker, holder, handled>>

TimePasses ==
  /\ clock < MaxTime
  /\ PromptClaims => \A r \in Runtimes :
       worker[r].pc \in {"claiming", "claimed"} => clock + 1 < worker[r].now + Lease
  /\ clock' = clock + 1
  /\ UNCHANGED <<event, worker, replays, holder, handled>>

\* What a runtime does by itself.
Step(r) ==
  \/ Poll(r) \/ Find(r) \/ Claim(r) \/ ReRead(r) \/ HandlerReturns(r)
  \/ Finalize(r) \/ ReadFailed(r) \/ RecordFailure(r)

Next ==
  \/ \E r \in Runtimes : Step(r) \/ QueryFails(r) \/ AnswerLost(r) \/ Crash(r)
  \/ Replay \/ TimePasses

Spec == Init /\ [][Next]_vars

\* setInterval keeps polling, queries answer, handlers return, time passes.
FairSpec ==
  /\ Spec
  /\ WF_vars(TimePasses)
  /\ \A r \in Runtimes : WF_vars(Step(r))

-----------------------------------------------------------------------------
WorkerState ==
  [ pc : {"idle", "finding", "claiming", "claimed", "handling", "finalizing",
          "failing", "recording"},
    now : 0 .. MaxTime, token : 0 .. MaxTime \union {None},
    count : 0 .. MaxRetries + 1 ]

\* The row and the runtimes have their types; the retry count never passes
\* the configured maximum.
TypeOK ==
  /\ clock \in 0 .. MaxTime
  /\ event \in [ status : Status, retryCount : 0 .. MaxRetries,
                 nextRetryAt : 0 .. MaxTime + Lease \union {None},
                 updatedAt : 0 .. MaxTime ]
  /\ worker \in [Runtimes -> WorkerState]
  /\ replays \in 0 .. MaxReplays
  /\ holder \in Runtimes \union {None}
  /\ handled \in BOOLEAN

\* An end is earned: an event is processed only after a handler call of it
\* succeeded, and dead-lettered only when its retries are used up.
FinishedIsEarned ==
  /\ event.status = "processed" => handled
  /\ event.status = "dlq" => event.retryCount = MaxRetries

\* Nothing moves a processed event again: no late failure, reclaim or replay.
ProcessedIsFinal ==
  [][ event.status = "processed" => event' = event ]_vars

\* "a stale worker cannot overwrite a newer state" (docs/WEBHOOK_CONCURRENCY.md,
\* Invariants; "only if this worker still owns the claim", processor.ts:175):
\* the event leaves processing by a step of the runtime that claimed it last.
OnlyHolderFinishes ==
  [][ event.status = "processing" /\ event'.status # "processing" =>
        worker'[holder] # worker[holder] ]_vars

Claiming(r) == worker[r].pc \in {"claimed", "handling"}

\* Of all runtimes that are in the handler, at most one is within a lease of
\* its claim: a second one starts only when the first has outstayed its own.
OneLiveLease ==
  Cardinality({r \in Runtimes :
    Claiming(r) /\ clock < worker[r].now + Lease}) <= 1

\* "Calls the handler and tracks retries.  Moves to DLQ if max retries
\* exceeded" (processor.ts:86): whatever dies or fails on the way, the event
\* ends as processed or in the dead-letter queue.
EventuallySettled == <>[](event.status \in Finished)
=============================================================================

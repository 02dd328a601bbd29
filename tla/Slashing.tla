------------------------------ MODULE Slashing ------------------------------
(***************************************************************************)
(* The slashing contract (contracts/slashing/src/lib.rs): it records       *)
(* violations of a target in a role, spaced by the role's cooldown, keeps  *)
(* the most recent of them, and stops while its circuit breaker is paused. *)
(***************************************************************************)
EXTENDS Ledger, BreakerOps, Sequences

CONSTANTS
  Targets,       \* accounts that may be slashed
  SlashRoles,    \* the Symbols slashable roles are taken from
  MaxHistory,    \* MAX_HISTORY
  Cooldowns,     \* cooldown_seconds offered to configure_penalty_parameters
  SlashAmounts,  \* i128 amounts offered to slash_funds
  PauseLengths,  \* durations offered to pause
  MaxViolations, \* bound on the violation counter
  Governor       \* the Governance address initialize received

ASSUME SlashingAssumption ==
  /\ MaxHistory \in Nat \ {0}
  /\ Cooldowns \subseteq Time
  /\ SlashAmounts \subseteq I128
  /\ PauseLengths \subseteq Nat
  /\ MaxViolations \in Nat
  /\ MaxTime <= U64Max

VARIABLES
  violations,    \* ViolationCount(target, role)
  history,       \* History(target, role), oldest first
  slashable,     \* SlashableRoles
  cooldown,      \* cooldown_seconds of PenaltyParams(role), or None
  slashBreaker,  \* the circuit breaker
  slashRoles     \* roles granted to the contract's own address

slashVars == <<violations, history, slashable, cooldown, slashBreaker, slashRoles>>
slashRecords == <<violations, history>>

Offences == Targets \X SlashRoles

SlashInit ==
  /\ now = 0
  /\ violations = [o \in Offences |-> 0]
  /\ history = [o \in Offences |-> <<>>]
  /\ slashable = {}
  /\ cooldown = [r \in SlashRoles |-> None]
  /\ slashBreaker = Cleared
  /\ slashRoles = {}

SlashSetRole(role) ==
  /\ slashRoles' = slashRoles \union {role}
  /\ UNCHANGED <<slashRecords, slashable, cooldown, slashBreaker>>

ConfigurePenaltyParameters(role, seconds) ==
  /\ "Admin" \in slashRoles
  /\ cooldown' = [cooldown EXCEPT ![role] = seconds]
  /\ UNCHANGED <<slashRecords, slashable, slashBreaker, slashRoles>>

AddSlashableRole(role) ==
  /\ "Admin" \in slashRoles
  /\ slashable' = slashable \union {role}
  /\ UNCHANGED <<slashRecords, cooldown, slashBreaker, slashRoles>>

RemoveSlashableRole(role) ==
  /\ "Admin" \in slashRoles
  /\ slashable' = slashable \ {role}
  /\ UNCHANGED <<slashRecords, cooldown, slashBreaker, slashRoles>>

-----------------------------------------------------------------------------
(* slash_funds.                                                            *)

\* The u64 sum of two u64 values.
WrappingEnd(start, seconds) ==
  IF start + seconds > U64Max THEN start + seconds - (U64Max + 1)
                              ELSE start + seconds

\* Mutant: the cooldown is read from the oldest entry of the history.
CanBeSlashed_Oldest(target, role) ==
  LET h == history[<<target, role>>]
  IN  /\ role \in slashable
      /\ cooldown[role] # None /\ h # <<>> =>
           now >= WrappingEnd(h[1].timestamp, cooldown[role])

CanBeSlashed(target, role) ==
  LET h == history[<<target, role>>]
  IN  /\ role \in slashable
      /\ cooldown[role] # None /\ h # <<>> =>
           now >= WrappingEnd(h[Len(h)].timestamp, cooldown[role])

\* Mutant: the cap keeps one entry too many.
Recorded_OneMore(h, entry) ==
  IF Len(h) > MaxHistory THEN Append(Tail(h), entry) ELSE Append(h, entry)

\* #380: at the cap, the oldest entry makes room for the new one.
Recorded(h, entry) ==
  IF Len(h) >= MaxHistory THEN Append(Tail(h), entry) ELSE Append(h, entry)

\* Mutant: the breaker is not consulted.
NotPaused_Ignored == slashBreaker' = slashBreaker

\* circuit_breaker::is_paused synchronises; when the answer is TRUE the call
\* panics and the synchronisation is rolled back with it.
NotPaused ==
  /\ ~IsPaused(slashBreaker, now)
  /\ slashBreaker' = SyncResult(slashBreaker, now)

\* The history entry keeps the cooldown in force, for CooldownSpacing.
SlashFunds(target, role, amount) ==
  /\ "Governance" \in slashRoles
  /\ NotPaused
  /\ CanBeSlashed(target, role)
  /\ violations' = [violations EXCEPT ![<<target, role>>] = @ + 1]
  /\ history' = [history EXCEPT ![<<target, role>>] =
       Recorded(@, [amount |-> amount, timestamp |-> now,
                    cooldown |-> cooldown[role]])]
  /\ UNCHANGED <<slashable, cooldown, slashRoles>>

-----------------------------------------------------------------------------
(* The circuit breaker's entry points.                                     *)

SlashPause(duration) ==
  /\ PauseAccepted(slashBreaker, now, duration)
  /\ slashBreaker' = PauseResult(slashBreaker, now, duration, Governor)
  /\ UNCHANGED <<slashRecords, slashable, cooldown, slashRoles>>

SlashEmergencyPause ==
  /\ slashBreaker' = EmergencyResult(slashBreaker, now, Governor)
  /\ UNCHANGED <<slashRecords, slashable, cooldown, slashRoles>>

SlashResume ==
  /\ \/ /\ ResumeSchedules(slashBreaker, now)
        /\ slashBreaker' = ResumeScheduledResult(slashBreaker, now)
     \/ /\ ResumeCompletes(slashBreaker, now)
        /\ slashBreaker' = Cleared
  /\ UNCHANGED <<slashRecords, slashable, cooldown, slashRoles>>

SlashIsPaused ==
  /\ slashBreaker' = SyncResult(slashBreaker, now)
  /\ UNCHANGED <<slashRecords, slashable, cooldown, slashRoles>>

SlashNext ==
  \/ \E r \in {"Admin", "Governance"} : SlashSetRole(r)
  \/ \E r \in SlashRoles :
       \/ \E s \in Cooldowns : ConfigurePenaltyParameters(r, s)
       \/ AddSlashableRole(r) \/ RemoveSlashableRole(r)
  \/ \E t \in Targets, r \in SlashRoles, n \in SlashAmounts :
       violations[<<t, r>>] < MaxViolations /\ SlashFunds(t, r, n)
  \/ \E d \in PauseLengths : SlashPause(d)
  \/ SlashEmergencyPause \/ SlashResume \/ SlashIsPaused

SlashStep ==
  \/ SlashNext /\ UNCHANGED now
  \/ Tick /\ UNCHANGED slashVars

SlashSpec == SlashInit /\ [][SlashStep]_<<now, slashVars>>

-----------------------------------------------------------------------------
SlashingRecord ==
  [ amount : I128, timestamp : 0 .. MaxTime, cooldown : OptTime ]

\* Counters, histories and the breaker have their types.
SlashTypeOK ==
  /\ now \in 0 .. MaxTime
  /\ violations \in [Offences -> Nat]
  /\ history \in [Offences -> Seq(SlashingRecord)]
  /\ slashable \subseteq SlashRoles
  /\ cooldown \in [SlashRoles -> OptTime]
  /\ slashBreaker \in BreakerState({Governor})
  /\ slashRoles \subseteq {"Admin", "Governance"}

\* The history holds the most recent violations and no more than the cap:
\* its length follows the counter until the cap, never beyond.
HistoryIsRecent ==
  \A o \in Offences :
    Len(history[o]) = IF violations[o] <= MaxHistory THEN violations[o]
                                                     ELSE MaxHistory

\* Two violations of one target in one role are recorded in their order and
\* as far apart as the cooldown in force at the later one asked, whatever was
\* trimmed or reconfigured.  A cooldown so long that its end does not fit u64
\* asks for nothing: the sum in can_be_slashed wraps.
Spaced(earlier, later) ==
  /\ later.timestamp >= earlier.timestamp
  /\ later.cooldown # None /\ earlier.timestamp + later.cooldown <= U64Max =>
       later.timestamp >= earlier.timestamp + later.cooldown

CooldownSpacing ==
  \A o \in Offences : \A i \in 1 .. Len(history[o]) - 1 :
    Spaced(history[o][i], history[o][i + 1])

\* The capped history holds the latest violations, as many as the counter says
\* up to the cap, spaced by the cooldowns, through every trim.
HistoryIsSound == HistoryIsRecent /\ CooldownSpacing

\* Nothing is recorded while the breaker's effective state is paused, be the
\* pause announced or only due.
NoViolationWhilePaused ==
  [][ IsPaused(slashBreaker, now) => UNCHANGED slashRecords ]_slashVars
=============================================================================

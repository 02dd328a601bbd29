------------------------------ MODULE Sessions ------------------------------
(***************************************************************************)
(* Sign-in, refresh and logout (meridian-api/src/auth/flows.rs): sessions   *)
(* that hold a token pair each, over a token store of their own, and the    *)
(* lockout after failed passwords.                                          *)
(***************************************************************************)
EXTENDS TokenStore

CONSTANTS
  Users,         \* subjects
  MaxAttempts,   \* max_login_attempts
  Lockout,       \* lockout_duration
  MaxPairs,      \* bound on the pairs issued
  MaxClock,      \* bound on the clock
  Never          \* Option::None of a time

ASSUME SessionsAssumption ==
  /\ MaxAttempts \in Nat \ {0} /\ Lockout \in Nat /\ MaxPairs \in Nat /\ MaxClock \in Nat
  /\ Never \notin Nat

VARIABLES
  clock,      \* now_secs()
  tokens,     \* the token store
  sessions,   \* sessions; next_session_id is the length plus one
  attempts,   \* attempts: a count and locked_until
  grants,     \* history: per pair, the refresh token it was given for, or the last lockout of its login
  barred      \* history: per user the start of the last lockout, what was tried since, and the pairs cut off

sessionVars == <<tokens, sessions, attempts, grants, barred>>

SessionsInit ==
  /\ clock = 0
  /\ tokens = EmptyStore
  /\ sessions = <<>>
  /\ attempts = [s \in Users |-> [count |-> 0, until |-> Never]]
  /\ grants = <<>>
  /\ barred = [s \in Users |-> [since |-> Never, tried |-> 0, cut |-> 0]]

Pass == clock < MaxClock /\ clock' = clock + 1

\* Mutant: one password more.
Exhausted_OneMore(s) == attempts[s].until = Never /\ attempts[s].count > MaxAttempts

Exhausted(s) == attempts[s].until = Never /\ attempts[s].count >= MaxAttempts

\* Mutant: the end of a lockout is not looked at.
Locked_Not(s) == FALSE

Locked(s) == attempts[s].until # Never /\ clock < attempts[s].until

\* login with its attempts used up: whatever the password, the lockout starts
\* with this call and not with the failure that used them up.
LoginStartsLockout(s) ==
  /\ Exhausted(s)
  /\ attempts' = [attempts EXCEPT ![s].until = clock + Lockout]
  /\ barred' = [barred EXCEPT ![s].since = clock, ![s].tried = 0]
  /\ UNCHANGED <<tokens, sessions, grants>>

\* login with a wrong password; a lockout that is over no longer counts.
LoginFails(s) ==
  /\ ~Exhausted(s) /\ ~Locked(s)
  /\ attempts' = [attempts EXCEPT ![s] =
       [count |-> IF @.until = Never THEN @.count + 1 ELSE 1, until |-> Never]]
  /\ barred' = [barred EXCEPT ![s].tried = @ + 1]
  /\ UNCHANGED <<tokens, sessions, grants>>

\* login with the right one, from any number of devices.  (A balance that is no
\* Amount is refused before any of these: no step.)
LoginSucceeds(s) ==
  /\ ~Exhausted(s) /\ ~Locked(s)
  /\ attempts' = [attempts EXCEPT ![s] = [count |-> 0, until |-> Never]]
  /\ sessions' = Append(sessions,
       [ subject |-> s, access |-> NextAccess(tokens), refresh |-> NextRefresh(tokens),
         superseded |-> FALSE ])
  /\ tokens' = IssuePair(tokens, s, clock)
  /\ grants' = Append(grants, [for |-> 0, at |-> clock, since |-> barred[s].since])
  /\ barred' = [barred EXCEPT ![s].tried = 0]

Pair(i) == {sessions[i].access, sessions[i].refresh}

Open(s) == {i \in DOMAIN sessions : sessions[i].subject = s /\ ~sessions[i].superseded}

Supersede(ids) ==
  [i \in DOMAIN sessions |->
     IF i \in ids THEN [sessions[i] EXCEPT !.superseded = TRUE] ELSE sessions[i]]

\* Mutant: the refresh token of the session is forgotten.
Logout_AccessOnly(i) ==
  /\ tokens' = Revoke(tokens, {sessions[i].access})
  /\ sessions' = Supersede({i})
  /\ UNCHANGED <<attempts, grants, barred>>

\* logout and logout_for_subject, of a session that may be closed already.
Logout(i) ==
  /\ tokens' = Revoke(tokens, Pair(i))
  /\ sessions' = Supersede({i})
  /\ UNCHANGED <<attempts, grants, barred>>

\* From here on, what was issued to s so far is dead.
CutOff(s) == [barred EXCEPT ![s].cut = Len(tokens.issued)]

\* logout_all: the sessions' tokens, then whatever else the subject has live.
LogoutAll(s) ==
  /\ tokens' = RevokeAll(Revoke(tokens, UNION {Pair(i) : i \in Open(s)}), s)
  /\ sessions' = Supersede(Open(s))
  /\ barred' = CutOff(s)
  /\ UNCHANGED <<attempts, grants>>

Holders(id) == {i \in DOMAIN sessions : sessions[i].refresh = id}

\* refresh_session looks for the session that holds the token, else takes any
\* open session of the subject (they are in a HashMap).
SessionFor(id, i) ==
  IF Holders(id) # {} THEN i \in Holders(id) /\ ~sessions[i].superseded
  ELSE i \in Open(tokens.issued[id].subject)

RefreshSession(id, i) ==
  /\ SessionFor(id, i)
  /\ ~IsReplay(tokens, id) /\ CanRotate(tokens, id, clock)
  /\ tokens' = Rotate(tokens, id, clock)
  /\ sessions' = [sessions EXCEPT ![i].access = NextAccess(tokens),
                                  ![i].refresh = NextRefresh(tokens)]
  /\ grants' = Append(grants, [for |-> id, at |-> clock, since |-> Never])
  /\ UNCHANGED <<attempts, barred>>

\* Mutant: the answer is an error and nothing else.
RefreshReplayed_Tolerated(id, i) ==
  /\ SessionFor(id, i)
  /\ IsReplay(tokens, id)
  /\ barred' = CutOff(tokens.issued[id].subject)
  /\ UNCHANGED <<tokens, sessions, attempts, grants>>

\* A rotated token comes back: all the subject has is revoked and closed.
RefreshReplayed(id, i) ==
  LET s == tokens.issued[id].subject
  IN  /\ SessionFor(id, i)
      /\ IsReplay(tokens, id)
      /\ tokens' = RevokeAll(tokens, s)
      /\ sessions' = Supersede({j \in DOMAIN sessions : sessions[j].subject = s})
      /\ barred' = CutOff(s)
      /\ UNCHANGED <<attempts, grants>>

SessionsNext ==
  \/ \E s \in Users :
       \/ LoginStartsLockout(s) \/ LoginFails(s) \/ LogoutAll(s)
       \/ Len(grants) < MaxPairs /\ LoginSucceeds(s)
  \/ \E i \in DOMAIN sessions : Logout(i)
  \/ \E id \in Refreshes(tokens), i \in DOMAIN sessions :
       \/ Len(grants) < MaxPairs /\ RefreshSession(id, i)
       \/ RefreshReplayed(id, i)

SessionsStep == (SessionsNext /\ UNCHANGED clock) \/ (Pass /\ UNCHANGED sessionVars)

SessionsSpec == SessionsInit /\ [][SessionsStep]_<<clock, sessionVars>>

-----------------------------------------------------------------------------
SessionsTypeOK ==
  /\ StoreIsSound(tokens)
  /\ \A s \in Users : attempts[s].count \in 0 .. MaxAttempts
  /\ \A i \in DOMAIN sessions :
       /\ Pair(i) \subseteq DOMAIN tokens.issued
       /\ sessions[i].superseded \in BOOLEAN

\* No account is asked for more passwords in a row than the limit, and none
\* opens while its lockout lasts.
LockoutHolds ==
  /\ \A s \in Users : barred[s].tried <= MaxAttempts
  /\ \A k \in DOMAIN grants :
       grants[k].since # Never => grants[k].at >= grants[k].since + Lockout

\* Every pair was given once, for a login or for one refresh token, and what
\* is live is what the open sessions hold: no logout, rotation, replay or
\* second device leaves a token behind, and none takes one from a session that
\* is open.  What a logout everywhere or a replay cut off never verifies again.
AccessIsEarned ==
  /\ StoreIsSound(tokens)
  /\ LockoutHolds
  /\ \A j, k \in DOMAIN grants :
       j # k /\ grants[j].for # 0 => grants[j].for # grants[k].for
  /\ tokens.live = UNION {Pair(i) : i \in {j \in DOMAIN sessions : ~sessions[j].superseded}}
  /\ \A id \in DOMAIN tokens.issued :
       Verifies(tokens, id, clock) => id > barred[tokens.issued[id].subject].cut
=============================================================================

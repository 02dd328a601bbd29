---------------------------- MODULE AuthRequests ----------------------------
(***************************************************************************)
(* The requests of the NestJS API under meridian-api/src/auth/providers:   *)
(* sign-in with its lockout, refresh and logout over the token rows, and   *)
(* e-mail verification.  One process serves many requests on one thread;   *)
(* they interleave where they await a query or a hash.  Between two awaits *)
(* a request runs alone, which is one action.  A request that is answered  *)
(* without changing anything is no step.                                   *)
(***************************************************************************)
EXTENDS Integers, Sequences, FiniteSets

CONSTANTS
  Accounts,      \* users, each with the e-mail that names it
  Requests,      \* requests served at the same time
  LockAfter,     \* AUTH_LOCKOUT_MAX_ATTEMPTS
  LockWindow,    \* AUTH_LOCKOUT_WINDOW_MS
  LockFor,       \* AUTH_LOCKOUT_DURATION_MS
  MaxEntries,    \* MAX_ENTRIES of the lockout store
  RowLife,       \* Rttl of a refresh token
  LinkLife,      \* VERIFICATION_TTL_MS
  KeyLife,       \* IDEMPOTENCY_TTL_MS
  MaxMinutes,    \* bound on the clock
  MaxRows,       \* bound on the token rows
  MaxLinks,      \* bound on the verification tokens
  Absent         \* null

\* With LockAfter = 1 the second failure locks: recordFailure starts an entry
\* without looking at the limit.
ASSUME RequestsAssumption ==
  /\ LockAfter \in Nat \ {0, 1}
  /\ {LockWindow, LockFor, MaxEntries, RowLife, LinkLife, KeyLife} \subseteq Nat
  /\ {MaxMinutes, MaxRows, MaxLinks} \subseteq Nat
  /\ IsFiniteSet(Requests) /\ Absent \notin Int \union Accounts

VARIABLES
  minute,     \* Date.now()
  users,      \* emailVerified, emailVerificationToken and its end, per account
  lockouts,   \* the store of AccountLockoutService
  rows,       \* the table refresh_token; a new jti is the index of its first row
  unique,     \* whether the table has the unique index its entity declares
  links,      \* number of verification tokens made
  keys,       \* idempotencyStore, per verification token: Absent, Running or its end
  inflight,   \* the step each request has reached and what it has read
  clients,    \* external: the refresh tokens and the links that reached somebody
  ended       \* history: the jti that a logout has revoked

requestVars == <<users, lockouts, rows, unique, links, keys, inflight, clients, ended>>

Running == -1
Idle == [at |-> "idle", of |-> Absent, item |-> Absent, pair |-> Absent, verified |-> FALSE]
NoLink(verified) == [verified |-> verified, link |-> Absent, ends |-> Absent]

RequestsInit ==
  /\ minute = 0
  /\ users \in [Accounts -> {NoLink(v) : v \in BOOLEAN}]
  /\ lockouts = [a \in Accounts |-> Absent]
  /\ rows = <<>>
  /\ unique \in BOOLEAN
  /\ links = 0
  /\ keys = [l \in 1 .. MaxLinks |-> Absent]
  /\ inflight = [r \in Requests |-> Idle]
  /\ clients = [tokens |-> {}, links |-> {}]
  /\ ended = {}

MinutePasses == minute < MaxMinutes /\ minute' = minute + 1

At(r, step) == inflight[r].at = step
Goes(r, state) == inflight' = [inflight EXCEPT ![r] = state]
Moves(r, step) == inflight' = [inflight EXCEPT ![r].at = step]
Answered(r) == Goes(r, Idle)

-----------------------------------------------------------------------------
(* Sign-in and its lockout. *)

WindowOver(e) == e.until = Absent /\ minute - e.start > LockWindow

\* Mutant: a lock does not keep anybody out.
IsLocked_Not(a) == FALSE

IsLocked(a) ==
  LET e == lockouts[a] IN e # Absent /\ e.until # Absent /\ minute < e.until

\* isLocked resets what is over before the request goes on.
StartSignIn(r, a) ==
  /\ At(r, "idle") /\ ~IsLocked(a)
  /\ LET e == lockouts[a]
         over == e # Absent /\ (WindowOver(e) \/ (e.until # Absent /\ minute >= e.until))
     IN lockouts' = IF over THEN [lockouts EXCEPT ![a] = Absent] ELSE lockouts
  /\ Goes(r, [Idle EXCEPT !.at = "finding", !.of = a])
  /\ UNCHANGED <<users, rows, unique, links, keys, clients, ended>>

\* findUserByEmail: the account as it is now decides after the comparison.
FindUser(r) ==
  /\ At(r, "finding")
  /\ Goes(r, [inflight[r] EXCEPT !.at = "comparing", !.verified = users[inflight[r].of].verified])
  /\ UNCHANGED <<users, lockouts, rows, unique, links, keys, clients, ended>>

\* evictIfNeeded: the entries touched longest ago, down to four fifths of the cap.
Stored == {a \in Accounts : lockouts[a] # Absent}
Evictions ==
  IF Cardinality(Stored) <= MaxEntries THEN {{}}
  ELSE {gone \in SUBSET Stored :
          /\ Cardinality(Stored \ gone) = (MaxEntries * 8) \div 10
          /\ \A a \in gone, b \in Stored \ gone : lockouts[a].touched <= lockouts[b].touched}

\* recordFailure
OneFailure(e) ==
  IF e = Absent \/ WindowOver(e)
    THEN [attempts |-> 1, until |-> Absent, start |-> minute, touched |-> minute]
  ELSE [e EXCEPT !.attempts = @ + 1, !.touched = minute,
                 !.until = IF e.attempts + 1 >= LockAfter /\ @ = Absent THEN minute + LockFor ELSE @]

WrongPassword(r) ==
  /\ At(r, "comparing")
  /\ \E gone \in Evictions :
       lockouts' = [a \in Accounts |->
         LET kept == IF a \in gone THEN Absent ELSE lockouts[a]
         IN IF a = inflight[r].of THEN OneFailure(kept) ELSE kept]
  /\ Answered(r)
  /\ UNCHANGED <<users, rows, unique, links, keys, clients, ended>>

\* The right one resets the counter, whatever has happened to it meanwhile.
RightPassword(r) ==
  /\ At(r, "comparing") /\ inflight[r].verified
  /\ lockouts' = [lockouts EXCEPT ![inflight[r].of] = Absent]
  /\ Moves(r, "issuing")
  /\ UNCHANGED <<users, rows, unique, links, keys, clients, ended>>

-----------------------------------------------------------------------------
(* Token rows. *)

NewRow(r, jti) ==
  [jti |-> jti, of |-> inflight[r].of, ends |-> minute + RowLife, revoked |-> FALSE,
   from |-> inflight[r].item]

\* The answer may be lost; whoever has a token keeps it.
Reaches(part, x) == clients' = clients \/ clients' = [clients EXCEPT ![part] = @ \union {x}]

\* generateTokens, called by a sign-in, whose audit entry may still fail, ...
SaveTokens(r) ==
  /\ At(r, "issuing") /\ inflight[r].item = Absent /\ Len(rows) < MaxRows
  /\ rows' = Append(rows, NewRow(r, Len(rows) + 1))
  /\ Reaches("tokens", Len(rows) + 1)
  /\ Answered(r)
  /\ UNCHANGED <<users, lockouts, unique, links, keys, ended>>

\* ... and by a refresh, which has the row to itself for now.
SaveSuccessor(r) ==
  /\ At(r, "issuing") /\ inflight[r].item # Absent /\ Len(rows) < MaxRows
  /\ rows' = Append(rows, NewRow(r, Len(rows) + 1))
  /\ Goes(r, [inflight[r] EXCEPT !.at = "saving", !.pair = Len(rows) + 1])
  /\ UNCHANGED <<users, lockouts, unique, links, keys, clients, ended>>

Live(row) == ~row.revoked /\ row.ends > minute
Revoked(jtis) ==
  [i \in DOMAIN rows |-> [rows[i] EXCEPT !.revoked = @ \/ rows[i].jti \in jtis]]

\* Mutant: the old token is revoked first.
StartRefresh_RevokesFirst(r, t) ==
  /\ At(r, "idle")
  /\ \E i \in DOMAIN rows :
       /\ rows[i].jti = t /\ Live(rows[i])
       /\ Goes(r, [Idle EXCEPT !.at = "issuing", !.of = rows[i].of, !.item = t])
  /\ rows' = Revoked({t})
  /\ UNCHANGED <<users, lockouts, unique, links, keys, clients, ended>>

\* refreshToken reads the row of the token; there may be two of it.
StartRefresh(r, t) ==
  /\ At(r, "idle")
  /\ \E i \in DOMAIN rows :
       /\ rows[i].jti = t /\ Live(rows[i])
       /\ Goes(r, [Idle EXCEPT !.at = "issuing", !.of = rows[i].of, !.item = t])
  /\ UNCHANGED <<users, lockouts, rows, unique, links, keys, clients, ended>>

\* refreshToken saves the row that generateTokens has saved: with the unique
\* index this always fails (Fails).
SaveAgain(r) ==
  /\ At(r, "saving") /\ ~unique /\ Len(rows) < MaxRows
  /\ rows' = Append(rows, NewRow(r, inflight[r].pair))
  /\ Moves(r, "revoking")
  /\ UNCHANGED <<users, lockouts, unique, links, keys, clients, ended>>

RevokeOld(r) ==
  /\ At(r, "revoking")
  /\ rows' = Revoked({inflight[r].item})
  /\ Reaches("tokens", inflight[r].pair)
  /\ Answered(r)
  /\ UNCHANGED <<users, lockouts, unique, links, keys, ended>>

\* logout and logoutAll, each one update, of a token that has not expired and of
\* what an account has live.
SignOut(jtis) ==
  /\ rows' = Revoked(jtis)
  /\ ended' = ended \union jtis
  /\ UNCHANGED <<users, lockouts, unique, links, keys, inflight, clients>>

RowsOf(a) == {rows[i].jti : i \in {j \in DOMAIN rows : rows[j].of = a /\ ~rows[j].revoked}}

-----------------------------------------------------------------------------
(* E-mail verification. *)

\* resendVerification: whether a token is needed is read before it is made.
StartResend(r, a) ==
  /\ At(r, "idle") /\ ~users[a].verified
  /\ Goes(r, [Idle EXCEPT !.at = "linking", !.of = a])
  /\ UNCHANGED <<users, lockouts, rows, unique, links, keys, clients, ended>>

\* issueVerificationToken; then the audit entry and the mail, which may fail.
SaveLink(r) ==
  /\ At(r, "linking") /\ links < MaxLinks
  /\ links' = links + 1
  /\ users' = [users EXCEPT ![inflight[r].of] =
       [verified |-> FALSE, link |-> links + 1, ends |-> minute + LinkLife]]
  /\ Reaches("links", links + 1)
  /\ Answered(r)
  /\ UNCHANGED <<lockouts, rows, unique, keys, ended>>

\* Mutant: the key is stored when the operation is over.
StartVerify_Late(r, l) ==
  /\ At(r, "idle") /\ keys[l] = Absent
  /\ Goes(r, [Idle EXCEPT !.at = "looking", !.item = l])
  /\ UNCHANGED <<users, lockouts, rows, unique, links, keys, clients, ended>>

\* verifyEmail under its key: with a key at hand, what it holds is the answer.
StartVerify(r, l) ==
  /\ At(r, "idle") /\ keys[l] = Absent
  /\ keys' = [keys EXCEPT ![l] = Running]
  /\ Goes(r, [Idle EXCEPT !.at = "looking", !.item = l])
  /\ UNCHANGED <<users, lockouts, rows, unique, links, clients, ended>>

FindLink(r, a) ==
  /\ At(r, "looking") /\ users[a].link = inflight[r].item /\ users[a].ends > minute
  /\ Goes(r, [inflight[r] EXCEPT !.at = "marking", !.of = a])
  /\ UNCHANGED <<users, lockouts, rows, unique, links, keys, clients, ended>>

\* The account is marked; the audit entry may fail, and then the key goes at once.
MarkVerified(r) ==
  /\ At(r, "marking")
  /\ users' = [users EXCEPT ![inflight[r].of] = NoLink(TRUE)]
  /\ \E end \in {Absent, minute + KeyLife} : keys' = [keys EXCEPT ![inflight[r].item] = end]
  /\ Answered(r)
  /\ UNCHANGED <<lockouts, rows, unique, links, clients, ended>>

\* The timer of withIdempotency.
ForgetKey(l) ==
  /\ keys[l] \notin {Absent, Running} /\ minute >= keys[l]
  /\ keys' = [keys EXCEPT ![l] = Absent]
  /\ UNCHANGED <<users, lockouts, rows, unique, links, inflight, clients, ended>>

-----------------------------------------------------------------------------
Verifying(r) == At(r, "looking") \/ At(r, "marking")

\* A query or a hash fails, no account has the link, an insert meets the unique
\* index, or the account is not verified: the request ends with an error, a
\* verification without its key.
Fails(r) ==
  /\ ~At(r, "idle")
  /\ keys' = IF Verifying(r) THEN [keys EXCEPT ![inflight[r].item] = Absent] ELSE keys
  /\ Answered(r)
  /\ UNCHANGED <<users, lockouts, rows, unique, links, clients, ended>>

\* The process restarts: both stores are its own, the tables are not.
Restart ==
  /\ lockouts' = [a \in Accounts |-> Absent]
  /\ keys' = [l \in 1 .. MaxLinks |-> Absent]
  /\ inflight' = [r \in Requests |-> Idle]
  /\ UNCHANGED <<users, rows, unique, links, clients, ended>>

RequestsNext ==
  \/ \E r \in Requests :
       \/ \E a \in Accounts : StartSignIn(r, a) \/ StartResend(r, a) \/ FindLink(r, a)
       \/ FindUser(r) \/ WrongPassword(r) \/ RightPassword(r) \/ SaveTokens(r)
       \/ \E t \in clients.tokens : StartRefresh(r, t)
       \/ SaveSuccessor(r) \/ SaveAgain(r) \/ RevokeOld(r)
       \/ \E l \in clients.links : StartVerify(r, l)
       \/ SaveLink(r) \/ MarkVerified(r) \/ Fails(r)
  \/ \E t \in clients.tokens : rows[t].ends > minute /\ SignOut({t})
  \/ \E a \in Accounts : SignOut(RowsOf(a))
  \/ \E l \in 1 .. MaxLinks : ForgetKey(l)
  \/ Restart

RequestsStep == (RequestsNext /\ UNCHANGED minute) \/ (MinutePasses /\ UNCHANGED requestVars)

RequestsSpec == RequestsInit /\ [][RequestsStep]_<<minute, requestVars>>

-----------------------------------------------------------------------------
\* Every record has its type.
RequestsTypeOK ==
  /\ minute \in 0 .. MaxMinutes /\ links \in 0 .. MaxLinks /\ unique \in BOOLEAN
  /\ \A a \in Accounts : users[a].verified => users[a].link = Absent
  /\ \A i \in DOMAIN rows : rows[i].of \in Accounts /\ rows[i].jti \in 1 .. i
  /\ clients.tokens \subseteq DOMAIN rows /\ clients.links \subseteq 1 .. links
  /\ \A r \in Requests : inflight[r] = Idle \/ inflight[r].of \in Accounts \/ At(r, "looking")

\* Locking after the last failure, with the check before the first await: of the
\* passwords tried while an entry stands, only those in flight exceed the limit.
GuessesAreBounded ==
  \A a \in Accounts : lockouts[a] # Absent =>
    lockouts[a].attempts < LockAfter + Cardinality(Requests)

\* "concurrent requests with the same key ... share a single in-flight operation":
\* two requests never run the verification of one token side by side.
OneRunPerKey ==
  \A r, s \in Requests :
    Verifying(r) /\ Verifying(s) /\ inflight[r].item = inflight[s].item => r = s

\* "If generation or save fails, the old token remains valid": a row that no
\* logout has revoked is live until its end, or a successor has been saved twice.
RevokedIsSucceeded ==
  \A i \in DOMAIN rows : rows[i].revoked =>
    \/ rows[i].jti \in ended
    \/ \E j, k \in DOMAIN rows : j < k /\ rows[j].jti = rows[k].jti /\ rows[j].from = rows[i].jti

\* What the documents promise of requests that interleave at every await, fail at
\* each, and lose their process.
RequestsKeepPromises ==
  RequestsTypeOK /\ GuessesAreBounded /\ OneRunPerKey /\ RevokedIsSucceeded

\* A verification token is issued "if the account exists and is not already
\* verified": never to an account that is verified by then.
ReissueIsNeeded ==
  [][\A a \in Accounts :
       users'[a].link \notin {users[a].link, Absent} => ~users[a].verified]_requestVars
=============================================================================

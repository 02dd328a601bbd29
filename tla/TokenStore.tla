----------------------------- MODULE TokenStore -----------------------------
(***************************************************************************)
(* The token store of the Rust API (meridian-api/src/auth/tokens.rs): pairs *)
(* of an access and a refresh token, rotated on every use.  A store is a    *)
(* value; Sessions and Recovery each keep one.  A token is known by its id, *)
(* its place in issued, which also holds what the token itself says.        *)
(***************************************************************************)
EXTENDS Integers, Sequences, FiniteSets

CONSTANTS
  AccessLife,   \* lifetime of an access token
  RefreshLife   \* lifetime of a refresh token

ASSUME LifetimeAssumption == AccessLife \in Nat /\ RefreshLife \in Nat

\* live joins active_access and active_refresh: an id is of one kind.
EmptyStore == [live |-> {}, revoked |-> {}, paired |-> [r \in {} |-> 0], issued |-> <<>>]

Accesses(st) == {id \in DOMAIN st.issued : st.issued[id].kind = "access"}
Refreshes(st) == DOMAIN st.issued \ Accesses(st)
Of(st, s) == {id \in DOMAIN st.issued : st.issued[id].subject = s}

\* The ids the next pair gets.
NextAccess(st) == Len(st.issued) + 1
NextRefresh(st) == Len(st.issued) + 2

\* issue_pair
IssuePair(st, s, t) ==
  [ live    |-> st.live \union {NextAccess(st), NextRefresh(st)},
    revoked |-> st.revoked,
    paired  |-> [r \in DOMAIN st.paired \union {NextRefresh(st)} |->
                   IF r = NextRefresh(st) THEN NextAccess(st) ELSE st.paired[r]],
    issued  |-> st.issued \o
                << [kind |-> "access", subject |-> s, expires |-> t + AccessLife],
                   [kind |-> "refresh", subject |-> s, expires |-> t + RefreshLife] >> ]

\* verify_access: neither revoked nor expired.
Verifies(st, id, t) ==
  /\ id \in Accesses(st) \ st.revoked
  /\ id \in st.live
  /\ st.issued[id].expires > t

\* revoke, of any ids.
Revoke(st, ids) == [st EXCEPT !.live = @ \ ids, !.revoked = @ \union ids]

\* Mutant: everybody's tokens.
RevokeAll_OfEveryone(st, s) == Revoke(st, st.live)

\* revoke_all_for_subject: what is live; the pairs of its refresh tokens go.
RevokeAll(st, s) ==
  LET ids == st.live \intersect Of(st, s)
  IN  [Revoke(st, ids) EXCEPT
         !.paired = [r \in DOMAIN @ \ ids |-> @[r]]]

\* refresh finds the token rotated or logged out before.
IsReplay(st, id) == id \in st.revoked

CanRotate(st, id, t) == id \in st.live /\ st.issued[id].expires > t

\* Mutant: the old access token stays good.
Rotate_KeepsAccess(st, id, t) ==
  IssuePair(Revoke(st, {id}), st.issued[id].subject, t)

\* Mutant: the old refresh token stays good.
Rotate_KeepsRefresh(st, id, t) ==
  IssuePair(Revoke(st, {st.paired[id]}), st.issued[id].subject, t)

\* refresh: the token and the access token issued with it are revoked, or all
\* access tokens of the subject when it has lost its pair; then a fresh pair.
Rotate(st, id, t) ==
  LET s    == st.issued[id].subject
      gone == IF id \in DOMAIN st.paired THEN {st.paired[id]}
              ELSE Accesses(st) \intersect st.live \intersect Of(st, s)
      kept == Revoke(st, {id} \union gone)
  IN  IssuePair([kept EXCEPT !.paired = [r \in DOMAIN @ \ {id} |-> @[r]]], s, t)

\* What a store is: the live tokens and the revoked ones are apart, together
\* they are everything issued, and the pairs link tokens of one subject.
StoreIsSound(st) ==
  /\ st.live \intersect st.revoked = {}
  /\ st.live \union st.revoked = DOMAIN st.issued
  /\ \A r \in DOMAIN st.paired :
       /\ r \in Refreshes(st) /\ st.paired[r] \in Accesses(st)
       /\ st.issued[r].subject = st.issued[st.paired[r]].subject
=============================================================================

------------------------------ MODULE Recovery ------------------------------
(***************************************************************************)
(* Account recovery (meridian-api/src/auth/recovery.rs): a request gives a  *)
(* token, the token replaces all the subject has in a token store.  The     *)
(* caller owns that store and also issues and refreshes pairs in it; the    *)
(* store of the sessions is private to them, so this is another one.        *)
(***************************************************************************)
EXTENDS TokenStore

CONSTANTS
  People,          \* subjects
  SessionIds,      \* the old sessions people ask to recover
  RecoveryLife,    \* token_lifetime_secs
  MaxRecoveries,   \* bound on the requests
  MaxIssues,       \* bound on the tokens issued
  MaxHours         \* bound on the clock

ASSUME RecoveryAssumption ==
  /\ SessionIds \subseteq Nat \ {0}
  /\ RecoveryLife \in Nat /\ MaxRecoveries \in Nat /\ MaxIssues \in Nat /\ MaxHours \in Nat

VARIABLES
  hour,        \* now_secs()
  vault,       \* the TokenStore recovery is completed with
  requests,    \* requests, each with its token
  redeemable,  \* active_tokens
  redeemed,    \* used_tokens
  recoveries   \* history: the completions, in order

recoveryVars == <<vault, requests, redeemable, redeemed, recoveries>>

RecoveryInit ==
  /\ hour = 0
  /\ vault = EmptyStore
  /\ requests = <<>>
  /\ redeemable = {}
  /\ redeemed = {}
  /\ recoveries = <<>>

HourPasses == hour < MaxHours /\ hour' = hour + 1

\* issue_pair and refresh, called by the owner of the store.
DirectIssue(s) ==
  /\ vault' = IssuePair(vault, s, hour)
  /\ UNCHANGED <<requests, redeemable, redeemed, recoveries>>

DirectRefresh(id) ==
  /\ \/ IsReplay(vault, id) /\ vault' = RevokeAll(vault, vault.issued[id].subject)
     \/ CanRotate(vault, id, hour) /\ vault' = Rotate(vault, id, hour)
  /\ UNCHANGED <<requests, redeemable, redeemed, recoveries>>

ForSession(sid) == {k \in DOMAIN requests : requests[k].session = sid}

\* One earlier request for the session, any of them (a HashMap again), decides:
\* it must not be somebody else's, completed, or still good.
Decides(k, s) ==
  /\ requests[k].subject = s
  /\ requests[k].status # "Completed"
  /\ requests[k].status = "Pending" => requests[k].expires <= hour

\* request_recovery; a good pending token is given again, which is no step.
RequestRecovery(s, sid) ==
  /\ ForSession(sid) = {} \/ \E k \in ForSession(sid) : Decides(k, s)
  /\ requests' = Append(requests,
       [ subject |-> s, session |-> sid, status |-> "Pending",
         expires |-> hour + RecoveryLife ])
  /\ redeemable' = redeemable \union {Len(requests) + 1}
  /\ UNCHANGED <<vault, redeemed, recoveries>>

\* complete_recovery, too late.
RecoveryExpires(k) ==
  /\ k \in redeemable
  /\ requests[k].expires <= hour
  /\ redeemable' = redeemable \ {k}
  /\ UNCHANGED <<vault, requests, redeemed, recoveries>>

Completed(k) ==
  /\ requests' = [requests EXCEPT ![k].status = "Completed"]
  /\ recoveries' = Append(recoveries, [by |-> k, at |-> hour, first |-> NextAccess(vault)])
  /\ redeemed' = redeemed \union {k}

\* Mutant: the old sessions stay.
CompleteRecovery_KeepsSessions(k) ==
  /\ k \in redeemable
  /\ requests[k].expires > hour
  /\ requests[k].status = "Pending"
  /\ redeemable' = redeemable \ {k}
  /\ Completed(k)
  /\ vault' = IssuePair(vault, requests[k].subject, hour)

\* Mutant: the token may be presented again, the request is not looked at.
CompleteRecovery_Again(k) ==
  /\ k \in redeemable
  /\ requests[k].expires > hour
  /\ UNCHANGED redeemable
  /\ Completed(k)
  /\ vault' = IssuePair(RevokeAll(vault, requests[k].subject), requests[k].subject, hour)

\* complete_recovery: all the subject has goes, one pair comes.
CompleteRecovery(k) ==
  /\ k \in redeemable
  /\ requests[k].expires > hour
  /\ requests[k].status = "Pending"
  /\ redeemable' = redeemable \ {k}
  /\ Completed(k)
  /\ vault' = IssuePair(RevokeAll(vault, requests[k].subject), requests[k].subject, hour)

\* Mutant: the token survives its request.
CancelRecovery_KeepsToken(k) ==
  /\ requests[k].status = "Pending"
  /\ requests' = [requests EXCEPT ![k].status = "Cancelled"]
  /\ UNCHANGED <<vault, redeemable, redeemed, recoveries>>

\* cancel_recovery and cancel_recovery_for_subject, of a pending request for
\* the session, any of them.
CancelRecovery(k) ==
  /\ requests[k].status = "Pending"
  /\ requests' = [requests EXCEPT ![k].status = "Cancelled"]
  /\ redeemable' = redeemable \ {k}
  /\ UNCHANGED <<vault, redeemed, recoveries>>

RecoveryNext ==
  \/ \E s \in People :
       \/ Len(vault.issued) < MaxIssues /\ DirectIssue(s)
       \/ \E sid \in SessionIds : Len(requests) < MaxRecoveries /\ RequestRecovery(s, sid)
  \/ \E id \in Refreshes(vault) : Len(vault.issued) < MaxIssues /\ DirectRefresh(id)
  \/ \E k \in DOMAIN requests :
       \/ RecoveryExpires(k) \/ CancelRecovery(k)
       \/ Len(vault.issued) < MaxIssues /\ CompleteRecovery(k)

RecoveryStep == (RecoveryNext /\ UNCHANGED hour) \/ (HourPasses /\ UNCHANGED recoveryVars)

RecoverySpec == RecoveryInit /\ [][RecoveryStep]_<<hour, recoveryVars>>

-----------------------------------------------------------------------------
RecoveryTypeOK ==
  /\ StoreIsSound(vault)
  /\ redeemable \union redeemed \subseteq DOMAIN requests
  /\ \A k \in DOMAIN requests : requests[k].status \in {"Pending", "Completed", "Cancelled"}

\* A recovery token is good once, before it expires and unless its request was
\* cancelled; and nothing a subject had before a recovery is live after it,
\* whatever was refreshed, replayed or recovered in between.
RecoveryIsExclusive ==
  /\ StoreIsSound(vault)
  /\ \A i, j \in DOMAIN recoveries : i # j => recoveries[i].by # recoveries[j].by
  /\ redeemed = {recoveries[i].by : i \in DOMAIN recoveries}
  /\ \A k \in DOMAIN requests :
       /\ (requests[k].status = "Completed") = (k \in redeemed)
       /\ k \in redeemable => requests[k].status = "Pending"
  /\ \A i \in DOMAIN recoveries :
       LET r == requests[recoveries[i].by]
       IN  /\ recoveries[i].at < r.expires
           /\ \A id \in vault.live \intersect Of(vault, r.subject) :
                id >= recoveries[i].first
=============================================================================

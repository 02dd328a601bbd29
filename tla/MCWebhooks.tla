----------------------------- MODULE MCWebhooks -----------------------------
(* Webhooks with a time before the clock starts, for runs without faults.    *)
EXTENDS Webhooks

MCNever == -1
=============================================================================

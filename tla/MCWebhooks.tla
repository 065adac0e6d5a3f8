----------------------------- MODULE MCWebhooks -----------------------------
(* Small instances of Webhooks.                                             *)
EXTENDS Webhooks
=============================================================================

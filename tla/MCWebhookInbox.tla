--------------------------- MODULE MCWebhookInbox ---------------------------
(* Instances of WebhookInbox for TLC. *)
EXTENDS WebhookInbox, TLC

\* The subscription lapses and comes back: versions 0 and 2 look the same.
BackAndForth == (0 :> "active") @@ (1 :> "past_due") @@ (2 :> "active") @@ (3 :> "canceled")
=============================================================================

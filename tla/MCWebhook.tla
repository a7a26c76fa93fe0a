----------------------------- MODULE MCWebhook -----------------------------
(* Small instances of WebhookDelivery for TLC.                              *)
EXTENDS WebhookDelivery

CONSTANTS d1, d2, u1, u2

\* A subscription for each of two deliveries.
OwnSubscription == [d \in Deliveries |-> IF d = d1 THEN u1 ELSE u2]
=============================================================================

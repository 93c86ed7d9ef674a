------------------------- MODULE MCWebhookDelivery -------------------------
\* Two events of one merchant, one crash, and a URL cleared and set again.
EXTENDS WebhookDelivery
=============================================================================

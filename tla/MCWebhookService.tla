------------------------ MODULE MCWebhookService ------------------------
(* WebhookService on the messages of MCRequestPipeline.                      *)
EXTENDS MCRequestPipeline, WebhookService
=========================================================================

--------------------------- MODULE MCWebhookJobQueue ---------------------------
(***************************************************************************)
(* Constants of WebhookJobQueue for model checking that a .cfg cannot      *)
(* write.                                                                  *)
(***************************************************************************)
EXTENDS WebhookJobQueue, TLC

\* Loops, dispatchers and webhooks differ in nothing but their names.
Symmetry == Permutations(Workers) \cup Permutations(Dispatchers) \cup Permutations(Webhooks)

================================================================================

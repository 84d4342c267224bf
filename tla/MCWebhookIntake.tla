--------------------------- MODULE MCWebhookIntake ---------------------------
(* A review and a comment on it while the pull request is synced, an issue  *)
(* and a push while the repository is; two handlers.                        *)
EXTENDS WebhookIntake

History(first, second, kind) ==
  [event |-> [d \in Deliveries |-> IF d = "d1" THEN first ELSE second], sync |-> kind]

MCHistories ==
  {History("pull_request_review", "pull_request_review_comment", "pull_request"),
   History("issues", "push", "repository")}
============================================================================

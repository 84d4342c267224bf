---------------------------- MODULE WebhookIntake ----------------------------
(***************************************************************************)
(* GitHub's webhooks on their way into the database (router.go,            *)
(* PersistWebhook, the delivery store): a delivery is remembered, its      *)
(* payload stored in one transaction, a job enqueued in memory, and its    *)
(* status written; a repeated delivery is only marked a duplicate, and an  *)
(* operator may requeue a delivery.  Syncs write the same rows from what   *)
(* they fetched before.                                                    *)
(*                                                                         *)
(* GitHub's data is a version that grows with every event; a delivery      *)
(* carries the version of its event, and a row holds the version it was    *)
(* written from.  Upserts overwrite whatever the row holds.                *)
(***************************************************************************)
EXTENDS Naturals, FiniteSets

CONSTANTS
  Deliveries,
  Histories,    \* the events GitHub may send, and the syncs that run beside them
  Handlers,     \* request handlers, of any number of pods
  MaxFailures     \* bound

ASSUME IntakeAssumption == Deliveries # {} /\ MaxFailures \in Nat

VARIABLES
  history,   \* history.event[d]: what d is about; history.sync: a kind of sync
  version,   \* what GitHub has
  carried,   \* carried[d]: the version of d's payload, 0 before its event
  status,    \* github_webhook_deliveries
  handler,   \* handler[h]: the step a request is at, and its delivery
  rows,      \* the rows about one pull request, its repository, an issue
  fetched,   \* what a running sync holds
  applied,   \* history: deliveries whose payload was committed
  intakes,   \* history: how often a delivery passed the duplicate check
  failures

intakeVars ==
  <<history, version, carried, status, handler, rows, fetched, applied, intakes, failures>>

Idle == [pc |-> "idle", d |-> CHOOSE d \in Deliveries : TRUE]
NoFetch == [v |-> 0, skips |-> FALSE]
EmptyRows ==
  [installations |-> 0, member |-> FALSE, repositories |-> 0, pull_requests |-> 0,
   labels |-> 0, files |-> 0, reviews |-> 0,
   review_comments |-> 0, linked |-> FALSE, issues |-> 0, commits |-> 0]

IntakeInit ==
  /\ history \in Histories
  /\ version = 0
  /\ carried = [d \in Deliveries |-> 0]
  /\ status = [d \in Deliveries |-> "unknown"]
  /\ handler = [h \in Handlers |-> Idle]
  /\ rows = EmptyRows /\ fetched = NoFetch /\ applied = {}
  /\ intakes = [d \in Deliveries |-> 0]
  /\ failures = 0

Failure == failures < MaxFailures /\ failures' = failures + 1
NoFailure == UNCHANGED failures
GitHub == <<history, version, carried>>

At(h, pc) == handler[h].pc = pc
Goto(h, pc) == handler' = [handler EXCEPT ![h].pc = pc]
Done(h) == handler' = [handler EXCEPT ![h] = Idle]
Of(h) == handler[h].d

----------------------------------------------------------------------------
(* The delivery store.                                                     *)

\* Mutant: looks whether the delivery was handled, not whether it is known.
KnownOnceHandled(d) == status[d] \in {"enqueued", "failed", "duplicate"}

\* NewWebhookDelivery and the INSERT of Remember, which a conflict ends.
Known(d) == status[d] # "unknown"

Receive(h, d) ==
  /\ At(h, "idle") /\ carried[d] > 0
  /\ handler' = [handler EXCEPT ![h] =
                   [pc |-> IF Known(d) THEN "duplicate" ELSE "persist", d |-> d]]
  /\ status' = IF Known(d) THEN status ELSE [status EXCEPT ![d] = "received"]
  /\ intakes' = IF Known(d) THEN intakes ELSE [intakes EXCEPT ![d] = @ + 1]
  /\ UNCHANGED <<GitHub, rows, fetched, applied, failures>>

\* The UPDATE of Remember, a statement of its own.
MarkDuplicate(h) ==
  /\ At(h, "duplicate")
  /\ status' = [status EXCEPT ![Of(h)] = "duplicate"]
  /\ Done(h)
  /\ UNCHANGED <<GitHub, rows, fetched, applied, intakes, failures>>

\* MarkStatus, whose error the handlers ignore.
MarkStatus(h, pc, new) ==
  /\ At(h, pc)
  /\ \/ status' = [status EXCEPT ![Of(h)] = new] /\ NoFailure
     \/ UNCHANGED status /\ Failure
  /\ Done(h)
  /\ UNCHANGED <<GitHub, rows, fetched, applied, intakes>>

\* Mutant: a requeued delivery is only enqueued.
RequeueWithoutPersist(h, d) ==
  /\ At(h, "idle") /\ Known(d)
  /\ handler' = [handler EXCEPT ![h] = [pc |-> "enqueued", d |-> d]]
  /\ UNCHANGED <<GitHub, status, rows, fetched, applied, intakes, failures>>

\* The requeue endpoint: Lookup, then the path of a new delivery.
Requeue(h, d) ==
  /\ At(h, "idle") /\ Known(d)
  /\ handler' = [handler EXCEPT ![h] = [pc |-> "persist", d |-> d]]
  /\ UNCHANGED <<GitHub, status, rows, fetched, applied, intakes, failures>>

----------------------------------------------------------------------------
(* Storing a payload: each operator maps the rows before to the rows after *)
(* an upsert of what was true at version v.                                *)

UpsertRepository(r, v) == [r EXCEPT !.repositories = v]

\* The link is overwritten by the last delivery stored, in whatever order
\* the two were sent.
syncInstallationRepositories(r, e) ==
  [r EXCEPT !.member = CASE e = "repositories_added"   -> TRUE
                         [] e = "repositories_removed" -> FALSE
                         [] OTHER -> @]

UpsertInstallation(r, v, e) ==
  syncInstallationRepositories([r EXCEPT !.installations = v], e)

UpsertTopLevelLabel(r, v) == [r EXCEPT !.labels = v]

\* Links to labels are only ever added; the label itself is overwritten.
syncPullRequestLabels(r, v) == [r EXCEPT !.labels = v]

syncIssueLabels(r, v) == [r EXCEPT !.labels = v]

\* Mutant: an existing pull request is left alone.
UpsertPullRequestOnce(r, v) ==
  syncPullRequestLabels([r EXCEPT !.pull_requests = IF @ = 0 THEN v ELSE @], v)

UpsertPullRequest(r, v) == syncPullRequestLabels([r EXCEPT !.pull_requests = v], v)
UpsertPullRequestFile(r, v) == [r EXCEPT !.files = v]
UpsertReview(r, v) == [r EXCEPT !.reviews = v]

\* A review that is not stored yet is not found, and the comment loses its link.
UpsertReviewComment(r, v) == [r EXCEPT !.review_comments = v, !.linked = r.reviews > 0]

UpsertIssue(r, v) == syncIssueLabels([r EXCEPT !.issues = v], v)
UpsertCommits(r, v) == [r EXCEPT !.commits = v]

\* The switch of PersistWebhook, after the installation and the repository.
Store(r, v, e) ==
  CASE e = "pull_request"        -> UpsertPullRequest(r, v)
    [] e = "pull_request_review" -> UpsertReview(UpsertPullRequest(r, v), v)
    [] e = "pull_request_review_comment" ->
         UpsertReviewComment(UpsertPullRequest(r, v), v)
    [] e = "issues"              -> UpsertIssue(r, v)
    [] e = "label"               -> UpsertTopLevelLabel(r, v)
    [] e = "push"                -> UpsertCommits(r, v)
    [] OTHER                     -> r    \* repository, installation_repositories

Payload(d) ==
  Store(UpsertRepository(UpsertInstallation(rows, carried[d], history.event[d]), carried[d]),
        carried[d], history.event[d])

PersistWebhook(h) ==
  /\ At(h, "persist")
  /\ \/ /\ rows' = Payload(Of(h))
        /\ applied' = applied \cup {Of(h)}
        /\ Goto(h, "enqueued") /\ NoFailure
     \/ Goto(h, "failed") /\ UNCHANGED <<rows, applied>> /\ Failure
  /\ UNCHANGED <<GitHub, status, fetched, intakes>>

\* Mutant: a failed delivery is reported as enqueued.
MarkFailedAsEnqueued(h) == MarkStatus(h, "failed", "enqueued")

MarkFailed(h) == MarkStatus(h, "failed", "failed")

\* webhookJobs and enqueueJobs, into a queue in memory that nobody leases
\* from: the job leaves no trace, the status does.
MarkEnqueued(h) == MarkStatus(h, "enqueued", "enqueued")

\* They fail: a delivery that is stored is marked failed all the same.
EnqueueFails(h) ==
  /\ At(h, "enqueued")
  /\ Goto(h, "failed") /\ Failure
  /\ UNCHANGED <<GitHub, status, rows, fetched, applied, intakes>>

Handle(h) ==
  \/ PersistWebhook(h) \/ MarkDuplicate(h) \/ MarkFailed(h)
  \/ MarkEnqueued(h) \/ EnqueueFails(h)

----------------------------------------------------------------------------
(* Syncs read from GitHub and store later, in one transaction.             *)

\* Parts that GitHub refuses to hand out are skipped.
SyncFetch ==
  /\ fetched = NoFetch /\ version > 0
  /\ \/ fetched' = [v |-> version, skips |-> FALSE] /\ NoFailure
     \/ fetched' = [v |-> version, skips |-> TRUE] /\ Failure
  /\ UNCHANGED <<GitHub, status, handler, rows, applied, intakes>>

\* The transaction of SyncRepository.
StoreRepository(r, v, skips) ==
  LET known == UpsertRepository(r, v)
  IN  IF skips THEN known
      ELSE UpsertCommits(UpsertIssue(UpsertReview(UpsertPullRequest(known, v), v), v), v)

\* The transaction of syncPullRequestSurface.
StorePullRequest(r, v, skips) ==
  LET pr == UpsertPullRequest(UpsertRepository(r, v), v)
  IN  IF skips THEN pr ELSE UpsertReviewComment(UpsertReview(UpsertPullRequestFile(pr, v), v), v)

SyncStore ==
  /\ fetched # NoFetch
  /\ rows' = IF history.sync = "repository"
             THEN StoreRepository(rows, fetched.v, fetched.skips)
             ELSE StorePullRequest(rows, fetched.v, fetched.skips)
  /\ fetched' = NoFetch
  /\ UNCHANGED <<GitHub, status, handler, applied, intakes, failures>>

\* The pods restart: requests and syncs in progress are gone.
PodsRestart ==
  /\ Failure
  /\ handler' = [h \in Handlers |-> Idle] /\ fetched' = NoFetch
  /\ UNCHANGED <<GitHub, status, rows, applied, intakes>>

\* Something happens on GitHub, which sends a delivery about it.
Emit(d) ==
  /\ carried[d] = 0
  /\ version' = version + 1
  /\ carried' = [carried EXCEPT ![d] = version + 1]
  /\ UNCHANGED <<history, status, handler, rows, fetched, applied, intakes, failures>>

IntakeNext ==
  \/ \E d \in Deliveries : Emit(d)
  \/ \E h \in Handlers, d \in Deliveries : Receive(h, d) \/ Requeue(h, d)
  \/ \E h \in Handlers : Handle(h)
  \/ SyncFetch \/ SyncStore \/ PodsRestart

\* GitHub delivers at least once; the operator requeues, again and again,
\* whatever is not marked enqueued; syncs are repeated.
IntakeFairness ==
  /\ \A d \in Deliveries :
       /\ SF_intakeVars(\E h \in Handlers : Receive(h, d) /\ ~Known(d))
       /\ SF_intakeVars(\E h \in Handlers : Requeue(h, d) /\ status[d] # "enqueued")
  /\ \A h \in Handlers : WF_intakeVars(Handle(h))
  /\ WF_intakeVars(SyncFetch) /\ WF_intakeVars(SyncStore)

IntakeSpec == IntakeInit /\ [][IntakeNext]_intakeVars /\ IntakeFairness

----------------------------------------------------------------------------
\* Concurrent and repeated deliveries pass the duplicate check once, however
\* they interleave with restarts and operators.
OneIntake == \A d \in Deliveries : intakes[d] <= 1

\* A delivery marked enqueued, or whose jobs a request is about to enqueue, is
\* in the database, although redeliveries, requeues and late failure reports
\* write the same status column.
EnqueuedWasStored ==
  /\ \A d \in Deliveries : status[d] = "enqueued" => d \in applied
  /\ \A h \in Handlers : At(h, "enqueued") => Of(h) \in applied

\* No delivery is lost: one whose handler failed or died, and one whose
\* failure a redelivery has hidden behind "duplicate", is stored when
\* the operator requeues everything that is not marked enqueued.
EveryDeliveryIsStored ==
  []<>(\A d \in Deliveries : carried[d] > 0 => d \in applied)

\* What the sync writes.
Written ==
  {"repositories", "pull_requests", "labels", "reviews"} \cup
  IF history.sync = "repository" THEN {"issues", "commits"} ELSE {"files", "review_comments"}

\* Stale payloads and stale fetches overwrite newer rows, and a comment
\* that comes before its review is stored without it, but not for ever:
\* repeated syncs bring what they write to GitHub's state.  (Links to labels
\* and to installations are not among it: no sync corrects those.)
EventuallyCurrent ==
  []<>(/\ \A t \in Written : rows[t] = version
       /\ version > 0 /\ "review_comments" \in Written => rows.linked)
============================================================================

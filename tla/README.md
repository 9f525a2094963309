# TechFlow: verification of the gateway

TechFlow answers technical questions about ABLESTACK in two places: the Flarum
community and Synology Chat. This directory holds TLA+ models of the parts of
it that keep state, the TLC runs that check them on small instances, and
proofs, checked by TLAPS, that the main guarantees hold for every instance.

## 1. The system

```
 Flarum <--- poll --- Community poller ---> Activepieces flow ---+
   ^                        |  confirm: GET .../case             |
   |  posts, best answers   v                                    v
   +---------------- AI gateway (FastAPI, PostgreSQL) <--- POST /v1/community/cases
                        |  ^
        alerts, answers v  | questions, "solved"
                     Synology Chat
```

| Component | State it keeps | Operations | Talks to |
|---|---|---|---|
| Community case (`app/main.py` `create_community_case`, `app/postgres_store.py`, `app/community.py`) | `community_case` (one row a discussion), `community_turn`, `community_response`, `community_case_event` | a post event, a resolution event; inside them create, record, sync, mark published, mark knowledge, mark solution | Flarum (look up, post, select), the AI provider |
| Chat assist (`_run_chat_job`, `handle_synology_chat_event`) | `chat_assist_conversation`, `chat_assist_turn`, `chat_assist_job`; in memory a task a job and a lock a user | question, `solved`, claim, ingest, query, send, complete, fail, recover at start | Chat, the AI provider, the failure register |
| Operation failure register (`record_`, `recover_`, `retry_operation_failure`) | `operation_failure`, a row a fingerprint | record, recover, retry, each followed by an alert | poller, chat jobs, reviewers in Chat |
| Community poller (`scripts/poll_flarum.py`) | a state file: seen posts, pending posts and resolutions, retired posts, snapshots | one poll: confirm, retire, discover, submit, write the file | Flarum, Activepieces, gateway |
| Event gateway (`event-gateway/gateway.py`) | leases in Redis: a reserved event, the slot for Chat | reserve, forward, release; one Chat message at a time | GitHub, Activepieces, Chat |
| Source registry and ingestion (`app/postgres_store.py`) | `rag_source_version`, `rag_ingestion_job`, `rag_chunk` | register, scan, approve, ingest, run, complete, withdraw | git hosts, the embedding provider |
| Retrieval and answers (`postgres_store.py` `retrieve`, `app/main.py` `_query_grounded`, `_query_comprehensive`, `app/versioned_assist.py`, `app/responses.py`) | compatibility sets; in memory the circuit breaker | choose the scope, search, choose the evidence, ask, validate | registry, artifacts, the AI provider, web search |
| Drafts of the community handler (`app/main.py`, `app/conversation.py`) | none | choose attachments, build the question, rewrite once, refuse | retrieval and answers |
| Review of drafts (`app/main.py` reconcile, publish, decision; `app/community.py`) | `community_case`, `community_case_event` | hold a draft as a private post, take note of the moderators, publish by version | Flarum, the flow `community-assist` |
| Store of the tests (`app/store.py`) | the same, in memory | the same | the unit tests, the canary |
| Artifacts (`app/artifacts.py`, `scripts/artifact_maintenance.py`) | encrypted files with an expiry | receive, store, read, delete, expire | poller, chat, answers |
| Community monitor (`deploy/flarum/operations`) | the fingerprint and the time of the last alert | check, decide, send, note | the forum's host, Chat |
| Deployment (`deploy/compose/activepieces/scripts`) | lock files of the current and the previous release | capture, deploy, verify, go back | containers |
| State backup and observer (`backup-state.sh`, `observability/observer.py`) | archives; what systemd remembers of the service | back up, prune, look, report | containers, files |

What makes it hard:

* **Concurrency in the gateway.** Request handlers are plain functions: every
  request runs in a thread of its own. Each store method is one transaction,
  each Flarum call one request, and nothing is held between two of them. A
  community handler makes up to seven such steps. Chat jobs are coroutines of
  one event loop; they interleave at every `await`.
* **At-least-once delivery.** The poller resubmits what it cannot confirm; the
  flow in between may repeat, delay and reorder. Every step that must happen
  once is protected by an idempotency key or by a marker in the post it writes.
* **Two stores, no common transaction.** An answer is posted to Flarum and then
  recorded in PostgreSQL, an alert recorded and then sent, an answer sent to
  Chat and then its job completed. A failure may come between the two.
* **People act meanwhile.** A best answer may be selected, unset, and selected
  again while the Knowledge Base post of the first selection is being written.
* **Long work outside any transaction.** An index is built for minutes between
  two transactions; another activation or a withdrawal may come between.
* **Leases.** A reservation in Redis and the slot for Chat end by time, whatever
  their holder is doing; the breaker lets a probe through by time, whoever is
  still away.
* **Scripts that end anywhere.** Deployment, backup and the monitor run under
  `set -e`: what they leave when they are broken off is what the next run finds.
* **A second account of the rules.** The unit tests run on `MemoryStore`, the service on
  `PostgresStore`.

## 2. The modules

| Module | Models | Contains |
|---|---|---|
| `CommunityCase` | the case of one discussion, the requests in flight, the forum | state, actions, all its properties |
| `MCCommunityCase` | | the symmetry of the request identities, for TLC |
| `CommunityCaseProofs` | | theorems about `CommunityCase` and `MemoryCase` |
| `MemoryCase` | the case of `MemoryStore` next to `CommunityCase` | the same calls, their agreement |
| `CommunityPoller`, `CommunityPollerProofs` | the poller, its state file, and what it sees of the forum, the flow and the gateway | state, actions, safety and liveness properties; theorems |
| `CommunityReview` | a case of the deployment that holds drafts for review | state, actions, safety and liveness properties |
| `CommunityDraft`, `CommunityDraftProofs` | how the handler of a post comes to an answer; the room of its prompts | state, actions, properties; theorems, and the induction they need |
| `ChatAssist`, `ChatAssistProofs` | one user's contexts, jobs and runners | state, actions, safety and liveness properties; theorems |
| `FailureRow` | one row of `operation_failure` | the three transactions as operators, used by the next two and by `ChatAssist` |
| `OperationFailure` | the register, its callers and the alerts | state, actions, refinement of `OutageAlerts` |
| `OutageAlerts` | the promise to the reviewers | abstract specification |
| `EventGateway` | deliveries in and Chat messages out | state, actions, properties |
| `SourceRegistry` | the versions of a source and the jobs that index them | state, actions, properties |
| `Retrieval` | a query over `SourceRegistry` | compatibility sets, the searches, properties |
| `MemoryRegistry` | `MemoryStore` next to `SourceRegistry` | the same calls, their agreement |
| `SourceRegistryProofs` | | theorems about `SourceRegistry`, `Retrieval` and `MemoryRegistry` |
| `Answering` | a question on its way to an answer | state, actions, properties |
| `ProviderBreaker` | the circuit breaker its callers share | state, actions, properties |
| `AnsweringProofs` | | theorems about `ProviderBreaker`, `Answering` and `CommunityReview` |
| `ArtifactStore` | the files of artifacts, two processes | state, actions, liveness |
| `CommunityMonitor` | the monitor of the forum's host | state, actions, properties |
| `ReleaseDeployment` | deployment and the way back | state, actions, properties |
| `StateBackup` | backup runs, retention, the observer | state, actions, properties |
| `OperationsProofs` | | theorems about `StateBackup`, `ReleaseDeployment`, `CommunityMonitor`, `OperationFailure`, `EventGateway` and `ArtifactStore` |
| `MCServices` | `Retrieval` with `SourceRegistry`, `MemoryRegistry`, `EventGateway`, `ArtifactStore`, `CommunityMonitor`, `ReleaseDeployment`, `OperationFailure`, `CommunityReview`, `ProviderBreaker`, `Answering`, `CommunityDraft`, `StateBackup`, side by side | one run for TLC |
| `ServicesProofs` | | theorems about the services of `MCServices` together |

`PROJECT.json` maps every definition to the lines it stands for. Definitions
with a suffix after an underscore and the word "fault" in their comment
(`FollowUp_SameVersion`, ...) belong to no specification: each is the mutated
form of the definition next to it, and the table `mutants` in `PROJECT.json`
says which property it breaks.

### CommunityCase

A request is a record `[pc, ev, row, pub]`: the step it waits at, the event it
carries until its first store call, the row that call returned (only the
columns a later step reads), and the post it found or wrote. One action is one
store transaction or one Flarum call:

| `pc` | Action | Code |
|---|---|---|
| `idle` | `ReceivePost`, `ReceiveResolution` | the handler up to its first store write: is the turn on record, does it await publication, who selected the answer |
| `record` | `RecordTurn` | `record_community_turn` |
| `create` | `CreateCase` | answer generation and `create_community_case` |
| `lookupAnswer`, `postAnswer` | `LookupAnswer`, `PostAnswer` | the two halves of `publish_assistant_reply` |
| `markAnswer` | `MarkAnswer` | `mark_community_auto_published` |
| `sync` | `SyncResolution` | `sync_community_resolution` |
| `lookupKnowledge`, `postKnowledge`, `markKnowledge` | `LookupKnowledge`, `PostKnowledge`, `MarkKnowledge` | Knowledge Base generation, the post, `mark_community_knowledge_published` |
| `select`, `verify`, `markSolution` | `SelectSolution`, `VerifySolution`, `MarkSolution` | `select_solution`, `mark_community_knowledge_solution_selected` |
| any | `Fail` | an exception or a crash: the request is gone, its commits and posts stay |

`HumanPost` and `SelectBest` (with no post: unset) are the people on the forum. There is
no action of the poller: any post and any selection may be delivered at any
time, any number of times and in any order, which is more than the poller does
(`CommunityPoller` models it).

Abstractions. An answer is identified by the post it answers, a marker and an
idempotency key by a kind and a number, a selection by its position in the
history of selections (the code hashes the post and the time it was selected,
so two selections have different keys, but every unset has the same one). A
hidden post, an attachment that has gone, a provider that fails: all of them
end the request without a change, which is `Fail`. The deployed configuration
is modelled (automatic publication on, review posts off); `CommunityReview` is
the other one. Left out: `retry_failed_community_case`, which
cannot be reached because a FAILED answer is refused with 503 before it is
stored, and the notices to reviewers, which change no state.
`publish_assistant_reply` reads 50 posts; the model reads all of them, so
nothing here is claimed of discussions with more than 50 posts.

### CommunityPoller

The poller and one discussion: the state file has nothing across discussions,
and one that fails does not stop the others. `file` is the file, `work` the
copy in memory that a poll changes, `poll` where the poll is. An action is one
request of `run_once` with what the code does until the next:

| `poll.pc` | Action | Code |
|---|---|---|
| `idle` | `Discover` | read the file and the list of discussions, drop obsolete resolutions |
| `confirm` | `ConfirmPost`, `LeavePost`, `LookAfterPost` | each pending post: `gateway_post_is_confirmed` and `checkpoint_confirmed_post`, or `retire_unavailable_pending_post` |
| `confirm` | `ConfirmResolution` | `gateway_resolution_is_confirmed` |
| `confirm` | `Pass`, `Visit` | is the discussion changed; read its posts and its case |
| `events` | `SubmitPost`, `FailPost` | the webhook, and writing the file |
| `events` | `Hold`, `SubmitResolution`, `LeaveResolution`, `TakeSnapshot` | the best answer and the snapshot |
| any | `Abort` | an exception or a stop: `work` is forgotten, `file` stays |

`flow` holds the events the webhook accepted: it delivers them in any order
(`Handle`) or loses them (`Lose`). `gw` is the case as the poller can observe
it, with the steps of `CommunityCase` that change it; a request that stops
half-way and is repeated is a step that comes later. Time is the flag `due` of
a pending post: its confirmation is overdue. Left out: the first poll, which
only marks the posts that are there, posts of the staff that ask for an answer,
attachments (a part of the submission, which fails as a whole), and the page
limit of 50 posts. Pending posts are looked after in the order of the posts;
the file keeps the order in which they were first submitted, which is the same
unless a retired post came back.

### OperationFailure and OutageAlerts

`RecordFailure`, `RecordRecovery` and `RetryFailure` are the transactions of
the three endpoints; the row lock makes each atomic. The alert a call decided
on waits in `pending` until its thread sends it (`SendAlert`) or fails to
(`LoseAlert`). So alerts may be overtaken and lost, as in the code, which marks
them as sent in the transaction that decides on them. `outage` numbers the
outages of a fingerprint; the code has the time `first_failed_at` instead.
`OutageAlerts` knows only whether an operation is failing, how often it
started to, and which alerts were raised; the refinement maps `down` to the
rows whose state is neither absent nor `RECOVERED`.

### ChatAssist

A job is named by its context and its post, as the unique key of
`chat_assist_job`. `runner[j]` is where the task of job `j` waits: for the
user's lock (`queued`), in one of the three threads it awaits (`ingest`,
`query`, `send`), in the thread of the failure notice, or nowhere. An action
runs from one `await` to the next, because the event loop runs nothing else of
the gateway's coroutines meanwhile. `Question` and `Resolve` are the event
handler, `Restart` is a stop at any point followed by `lifespan`. `failure` is
the job's row of the failure register, through `FailureRow`. Delays are
abstracted: a retry may be claimed at any time after it was scheduled. The
provider answers, does not answer or raises; Chat delivers and confirms,
delivers and does not confirm, or does neither. `Die` is an exception outside
the handler's `try`, which ends the task: its job waits for the next restart.
One user is enough, since locks, contexts and jobs of two users are disjoint.

### CommunityReview

The deployment that holds answers for review (`config.py:161` excludes it and
automatic publication from each other). `thread` is the assistant's posts on
the forum, `call` where each of the three kinds of calls is: the handler that
makes a draft and writes its private post, `reconcile` of the poller, the
publication by the flow. `Moderate` is a moderator on the forum, `Decide` the
decision by version, `BreakCall` an exception or a stop between two steps. An
answer is known by the version of its draft.

### MemoryCase and MemoryRegistry

The tests of the handler and of ingestion run on `MemoryStore`. Both modules
let it make the same calls as the deployed store and compare what the two hold
afterwards. The comparison ends (`parted`) at a call the two answer
differently, and the property names those calls: a repeated resolution after
the case has moved on; an ingestion when the version to be indexed is not the
latest; a withdrawal with several versions in use; a run whose version was
withdrawn, or its job declared failed, before it. Two more differences lie
outside of these models: `MemoryStore.retrieve` does not check that the members
of a compatibility set are still ACTIVE, and its follow-up does not reset the
number of approvals (see the finding about `ApprovedAnswerIsPublished`). Chat
jobs and the failure register have no such twin: there the two stores are the
same operators, so a comparison would show nothing.

### CommunityDraft

From a post to the answer, the refusal or the next delivery: which attachments
are sent (those of the post first, as far as the store still holds them), the
question, the reply, at most one rewrite. A text is its length: short or longer
than every limit; the frames are the lengths of the code's constant texts.
What a text says (faults of an answer, typing errors found) is a free choice.

### EventGateway

A thread a request over Redis. `Reserve` is `SET NX` with an expiry, then one
`Post` or `FailPost` for each upstream of the event in turn, then `Release`
when a post failed. `LeaveBehind` is a stop of the process in between, or a
reply of Redis that was lost; `ExpireReservation` the end of the lease. The Chat
delivery takes a slot, sends, keeps the interval and frees the slot; `EndLease`
may come at any time, `StopSender` too. `excused`, `cut` and `lapsed` are history
variables: they count what the properties must except. `lapsed` lasts only while
somebody is in the slot: then the exclusion is whole again.

### SourceRegistry and Retrieval

A version is named by its commit, a job by its number. A store method is one
transaction, except `run_job`: claim, build outside any transaction, activate,
and the activation is split again (`BeginActivation`: its locks and the
snapshot of its UPDATE, `CommitActivation`), because READ COMMITTED lets
another activation commit between the two. `CutOff` is a stop of the gateway:
the job stays RUNNING. `complete_job` of somebody else may come at any time
(`DeclareIndexed`, `DeclareFailed`); it is one step. `rag_source.state` is read
nowhere, and `rag_chunk.active` follows the state of the version, so neither is
a variable. `Retrieval` adds queries: the scope is read once, and each search is
a statement of its own that sees what was committed before it.

### Answering and ProviderBreaker

`Answering` follows one question through its refusals, the searches, the choice
of evidence within twenty chunks, the official documentation, the call, one
retry of a comprehensive reply and the validation. Evidence is known by its
source and by whether it is of a test; a search finds any of it and a reply
cites anything, also what it was not given. `ProviderBreaker` is the breaker as
threads share it: let through, away for a while, back with a result. A call it
refuses is a call that fails in `Answering`.

### ArtifactStore

The three files of an artifact, written and unlinked one by one by two
processes whose locks do not exclude each other. `Maintain` is one step of the
quarter-hourly pass: list, look at one metadata file, or unlink one file.

### CommunityMonitor, ReleaseDeployment, StateBackup

Shell scripts with `set -e`: each command that changes a file, a container or
Chat is an action, and the run may end before any of them (`BreakOff`,
`BackupFails`, `HostStops` and the like). `CommunityMonitor` decides by the two
files it wrote after the last message. In `ReleaseDeployment` images are named
by the release that brought them, and `verified` remembers which sets of them
passed every check. `StateBackup` has the runs by the service, by hand and by
deployments (one at a time by `flock`), retention, and the observer, which looks
at the newest archive and later judges.

### MCServices

The services around the assistant for TLC. They share no state but the
registry and the queries over it, so a product of their state spaces shows
nothing that each of them does not; `part` says which one moves, and the run
explores each by itself. What the event gateway hands to the registry is a
discovery, and `Register` may come at any time. That the composition does to
each service what its own specification allows, and no more, is proved
(`PartsImplemented`), so the run says of each what a run of its own would.

## 3. The runs

| Run | Instance | Question |
|---|---|---|
| `community_sequential` | 1 request at a time, 4 posts, 2 selections by the requester, both stores compared over 5 posts and selections (1.9 million states) | does every guarantee hold through repetition, reordering and interruption, and do the two stores agree? |
| `community_concurrent` | 2 requests, 4 posts, 1 selection by a moderator | which guarantees do the transactions give by themselves? |
| `community_duplicate_answer` | 2 requests, 3 posts | violation: two requests post the same answer |
| `community_resolution_lost` | 1 request, 4 posts, 2 selections | violation: publishing takes a resolution back |
| `community_unauthorised_resolution` | 1 request, 4 posts, 3 selections | violation: a member's selection becomes the resolution |
| `community_poller_posts` | 2 posts of people or the assistant, 2 upsets (edits, faults) | is every post taken in the end, and nothing checkpointed, overlooked or given up wrongly? |
| `community_poller_resolutions` | a question, an answer, a Knowledge Base post, 2 upsets | does the snapshot follow only a resolution that was carried through? |
| `community_checkpoint_unaccepted` | 3 posts, 1 upset | violation: a post the gateway has not seen is checkpointed |
| `services` | the instance below | the properties of the components in `MCServices`, see the next table |
| `chat_assist` | 2 posts, 2 contexts, limit 2, 1 restart | does no job outlive its context, and does every job end? |
| `chat_notice_after_resolve` | as `chat_assist` | violation: a withdrawn question is answered with a failure notice |
| `review_approval_reused` | 2 drafts, 3 posts, 1 call broken off | violation: an approval publishes the answer of the draft before |

Why the bounds are enough to be worth something. Four posts hold a question, its
answer, a follow-up (or a staff comment), and its answer or a Knowledge Base post; a
person's two selections are what it takes to select, unset, and select again.
Two requests are the smallest number that can overtake each other, and the
proofs below are for any number. One fingerprint suffices because rows and
alerts of two fingerprints never meet; three failures pass the limit of two.
Two posts and two contexts give two jobs in one context (the lock), and a
context closed under a running job (cancellation); one restart falls at every
point of every job. Only people, crashes and reports are bounded; deliveries,
retries by the poller and failures of requests are not.

For the poller `MaxUpsets` bounds together what people change and what fails:
two upsets select and unset an answer, hide and restore a post, lose an event
and stop the poll, or any one of these and another. `community_poller_posts`
has one post the poller must look after while the discussion changes, and a
second that may be lost, hidden, restored, or speak for the first;
`community_poller_resolutions` needs the third post for the Knowledge Base. A
restored post whose visibility cannot be read (`passed` in `Visit`) takes three
upsets and is not reached in these instances.

### What `services` checks

`services` has all the properties of its components, because they share no
state and one exploration serves them all; `TypeOK` has the types of every part:

| Part | Instance | Properties |
|---|---|---|
| `registry` | 2 commits, 3 jobs | `IndexingHasJob`: a version being indexed has a job that goes on. `WithdrawnIsFinal`: nothing takes a withdrawn version back. `WithdrawalPurges`: after the DELETION job no chunks come back. `ServedUntilReplaced`: what is served stays until its successor is activated (`docs/runbooks/parser-embedding-retrieval.md` section 7, `previousActiveVersionIsWithdrawnOnlyAfterAtomicActivation` in `docs/decisions/techflow-source-registry.json`) |
| `retrieval` | 2 commits, 2 jobs, 2 searches a query | `EvidenceIsOfOneVersion`, but for versions activated while another activation was open: nothing in the schema says that one version is ACTIVE |
| `twin` | 2 commits, 3 jobs | `MemoryAgrees`: the tests' store holds what the deployed one holds, until a call the two are known to answer differently |
| `deliveries`, `chat` | 1 event of each kind in turn, 3 attempts, 3 senders | `ForwardedOnce`: what is reserved is forwarded or on its way, and nothing is forwarded twice without a failed post or an expired lease. `OneMessageAtATime`, until a lease ends under its holder, and again once the slot is empty |
| `artifacts` | 1 image, 1 log, 2 stops | `ExpiredIsGone`: expired evidence leaves the disk (24 hours, `docs/runbooks/synology-chat-artifact-ingestion.md:35`), unless storing or deleting it was broken off |
| `monitor` | 2 sets of alerts | `ChatKnows`: what is on record is what Chat was told last (`docs/runbooks/community-backup-monitor-security.md:87-89`, `docs/adr/0010-community-auto-publish-knowledge-base.md:47-49`) |
| `releases` | 3 services, 2 of them with one image, 2 releases | `RollbackTarget`: the way back leads to images that were in order together (`docs/runbooks/image-version-upgrade-rollback.md` section 7, ADR 0005 section 5), unless a deployment was begun on top of one that had failed; and even then, while what runs is unchecked, `current` does, once a deployment was completed |
| `failures` | 1 fingerprint, limit 2, 3 outages of 3 failures | `KeepsPromise`: the register implements `OutageAlerts` |
| `review` | 2 drafts, 2 posts, 1 call broken off, one call of each kind | `PublishedIsJudged`: a case is published on the approval of that very draft. `EveryDraftIsReviewed`: a draft that waits gets its post |
| `breaker` | 3 threads, 2 results count, 3 remembered | `OneProbe` ("Half-open 1건만 허용", `docs/runbooks/grounded-responses.md:123`), unless a call of before the outage came back. `ProviderTriedAgain` |
| `answers` | 1 attachment, 9 sources, 6 chunks are plenty | `AnswersAreGrounded`: an answer cites what it was given, of one branch of a repository, not of tests alone, and says nothing of a guest system without the documentation it needed. `EverySourceIsReviewed`: the limits of twenty leave room for each source |
| `drafts` | 3 posts, 2 files (one sent at a time), texts of 10 or 16,000 characters | `QuestionsCanBeAsked`: what a prompt keeps in any case fits, but for the rewrite described in section 5 |
| `backups` | retentions 1, 2 and 3, 3 units of time, 2 archives begun | `RestorePointRemains`: once there is an archive to restore from, there always is one. `SilenceIsHonest`: no alert means a recent whole archive, or a part of one the service cannot tell of |

Bounds of these instances. Two commits give a successor, three jobs an
ingestion of each and a reindex or a deletion that meets them. Two searches let
a version take over between them; the code has up to four. Three attempts of
one event are the first, one beside it, and one after the lease ended; three
senders are an owner, the one that took the slot from it, and one more. Two
stops break off a deletion in each process. Retention 2 stands for 7 days and
`Fresh` 1 for 26 hours: a manual retention below and above that of the service
is what matters. `Plenty` is 6 because the largest limit of one source is 6;
more of it changes nothing. Of the sources outside the shared documentation
and the two branches of the cloud repository the code treats every product
alike, so only these three may be named in a question, and the offers vary
the related products together. A comprehensive reply cites one thing, since
one that was not given makes it unacceptable. Every list of typing errors and
of faults that changes which limit is met is there (0, 25, 105 or 317
characters; none, one, three or all faults), and one post is answered at a
time. A result that comes back to the breaker drops as many old ones as the
bound needs.

In `StateBackup` the last commands of a run, and one look of the observer, take
less than a unit of time, and what was written survives a stop of the host.

### What is false, and what is excepted

Six of the properties are false, and are kept as runs whose counterexample
documents a divergence between the code and its documents (`findings` in
`PROJECT.json`): the marker does not exclude two overlapping requests, the
publication of an answer overwrites a resolution, preserving the resolved
post preserves an unauthorised one, a cancelled job takes the path of a
dead letter, a later post is no proof that an earlier one was accepted, and the
approval of a follow-up finds the answer approved before it.
`CheckpointWasReached` is what remains of the fifth: a checkpoint stands on the
gateway's word for this post or a later one, never on the webhook's.

`NothingOverlooked` and `EveryPostIsTaken` except a discussion that looks as it
did at its snapshot after a post was hidden, deleted or restored: the poller
compares the number of comments, and one post gone and one post new leave it
as it was.

`MarkersAreUnique`, `PublishedPostIsCurrent` and `KnowledgeMatchesSource` are
checked with one request at a time only: with two they are false, the first as
the finding says, the others because a late mark may meet a newer version.
What remains with two is `PublishedPostIsAnAnswer`.

### Fairness

`ChatAssist`: `WF_vars(Run(j))` says that a task that can continue does: the
event loop schedules every ready task, every delay ends, and the threads it
awaits have timeouts. Users and restarts get no fairness. `EveryJobEnds`
excepts a task ended by an exception outside its `try`; the code has nothing
that would start it again before a restart.

`CommunityPoller`: `WF_vars(Poll)`, because `main` polls in an endless loop and
every request has a timeout; `SF_vars(TimePasses)`, because time passes however
often the poller polls; `WF_vars(Deliver(p))`, because the flow delivers what it
has not lost. People get no fairness, and faults are bounded instead of
excluded by fairness: after the last of them the post has to get through.

`ArtifactStore`: `WF(Maintain)`, because the maintainer loops for ever and its
container is restarted, and `WF(Unlink("gateway"))`, because a deletion that
began goes on. Stops are bounded, and what they leave behind is excepted.

`CommunityReview`: `WF(Reconcile)`, because every poll calls it, and
`WF(CallStep(c))`, because each call of Flarum has a timeout. Broken-off calls
are bounded; moderators get no fairness.

`ProviderBreaker`: `WF(Waited)`, because `open_seconds` pass; `WF` of a return,
because a call has a timeout (90 s in the client); `WF` of a probe, because
questions keep coming: without another question the breaker stays open, as in
the code.

In `services` each of these is required of its part only while that part moves.

## 4. The proofs

`CommunityCaseProofs` proves, for any number of requests, posts and selections
and from `SelectorsAssumption`, `CommentsAssumption` and `BoundsAssumption`:

* `TypeCorrect`: `Spec => []TypeOK`.
* `KnowledgeStands`: `Spec => []KnowledgeStandsOnResolution`. The property is
  inductive together with `TypeOK`: every place that clears the resolution
  clears the Knowledge Base columns, and every place that sets those columns
  tests the resolution in the same transaction.
* `AnsweredOnce`: `Spec => []OneVersionPerPost`. The strengthening says that the
  posts answered are turns on record, so the test `Known` in the creating
  transaction excludes them.
* `PublishedOnce`: `Spec => PublishedOncePerVersion`, an action property. The
  invariant behind it ties the reviewer and the state of the row to its
  published post: a row with a published post is one that may not be published
  again.
* `PublishedIsAnAnswer`: `Spec => []PublishedPostIsAnAnswer`. `AnswerInv` adds
  what each request knows: the version it holds exists, and the post it holds
  at `markAnswer` carries the marker of that version. Posts are never removed,
  so this survives the steps of the other requests.

Four more theorems assume `Solo`, one request in flight (`Handlers` has one
member at most), and otherwise any number of posts, selections, repetitions and
broken requests. They need it: `community_duplicate_answer` is what two requests
do to the first. The run `community_sequential` is the same assumption.

* `MarkedOnce` (`MarkersAreUnique`), `PublishedIsCurrent`
  (`PublishedPostIsCurrent`) and `KnowledgeIsOfItsSource`
  (`KnowledgeMatchesSource`) are inductive together in `SoloInv`. None is alone:
  `HoldsLast` adds that the version, or the resolution, which a request read is
  still that of the row when it writes, that no post carries its marker when it
  comes to post, and that the post it marks carries the marker.
* `TestsHoldTheSameCase`: `TwinSpec => []MemoryCaseAgrees`. `HeldInv` says that
  the tests' store is a function of the deployed row, turns and responses, and
  that each call noted as an event is one `MemoryStore` remembers by its key. The
  calls come out alike because of `RowInv`, what the deployed rows do not show by
  themselves: the draft is the last response, an answer recorded as published is
  of a version that was published, and the key of a case is that of a turn.

`CommunityPollerProofs` proves, for any number of posts, upsets and requests:
`PollerTypeCorrect` (`TypeOK`), `CheckpointsWereReached`
(`CheckpointWasReached`), `NothingIsOverlooked` (`NothingOverlooked`) and
`SnapshotsFollowResolutions` (`SnapshotFollowsResolution`). One invariant,
`PollerInv`, carries all four, because what the poller writes rests on what it
read some requests earlier: the file on disk and the copy a poll works on each
say only what is true of the gateway (`FileFits`: a checkpointed post has a turn
at or after it, a snapshot's best answer was carried through), and the list a
poll started from is still accounted for when it comes to replace the snapshot
(`PollFits`: what the list counts is checkpointed or among its events, or the
discussion is held back). Both survive because the gateway never loses a turn
and never takes back that a resolution was carried through.

`ChatAssistProofs` proves, for any posts and any limits: `ChatTypeCorrect`,
`NothingOutlivesItsContext` (`LiveJobsAreCurrent`), `OneRunnerAtATime`
(`RunnersAreOrderly`) and `CancelledIsNotSent` (`SendsOnlyRunning`). The
strengthening, `RunnerFits`, says that a runner at work has a job that is
RUNNING or was CANCELLED under it, and that a notice is sent for no live job:
that is what excludes a second runner, and what makes the test before sending
enough. `AttemptsAreCounted` (`DeliveriesMatchAttempts`) needs that an attempt
under way has sent nothing yet, and that a job that waits has an attempt left,
one more for every restart (`Counted`).

`SourceRegistryProofs` proves, for any commits and any number of jobs:
`RegistryTypeCorrect`, `IndexingGoesOn` (`IndexingHasJob`), `WithdrawalIsFinal`
(`WithdrawnIsFinal`) and `PurgedForGood` (`WithdrawalPurges`). `OpenHoldsRow` is what makes them
hold: while an activation is open its version is as it was when it was read,
because its row is locked, so no withdrawal and no second run can be undone by
the commit. `RunFits` ties what a run does to the type of its job.
The purge follows from this and from `DeletionsCover`: what a DELETION job covers
is withdrawn, so no activation finds it fit to be indexed.
`NewestIsOne` shows that the CHOOSE of the newest version chooses one, by
minimality in a well-founded order. `StaysInService` (`ServedUntilReplaced`) is an
action property over the same invariants and one about who is ACTIVE
(`ActiveInv`: an open activation has seen every other ACTIVE version, but for
those in `overlap`).

The same module proves, over the same invariants: `RetrievalTypeCorrect` and
`OneVersionFound` (`EvidenceIsOfOneVersion`) for any number of searches, where the
point is that the scope of a query and the members of a set were ACTIVE together
when they were read (`QueryInv`), so a version that takes over between two
searches adds nothing; and `TestsTellTheTruth` (`MemoryAgrees`) for any commits
and jobs. `MemoryStore` does a whole run in one call, so while the deployed store
is between two steps of a run the two differ: `Behind` says by how much (the job
of the run is still PENDING there, and all else alike), and `OneRun` that there is
one such job. `TwinTypeCorrect` has the types of both stores. They are wanted
also after the comparison has ended, when nothing is known of the second store
but that each of its calls takes it from a well-formed state to one
(`MemoryType`).

`OperationsProofs` proves, for any retention of the service and by hand, any
threshold and any number of archives: `BackupTypeCorrect`, `AlwaysRestorable`
(`RestorePointRemains`) and `SilenceMeansRestorable` (`SilenceIsHonest`). The
invariant: the archive begun last is there (`LatestIsThere`), a run that comes
to remove old archives has just written a whole one (`WrittenIsWhole`), a part of
one that is the newest is told by systemd or is one that nobody can tell
(`PartIsTold`), and what the observer saw before it judges still says as much
(`LookIsCurrent`).

It proves `ReleaseTypeCorrect` and `WayBackIsInOrder`
(`RollbackTarget`) for any services and releases: what runs was verified or is
known to be loose (`LooseIsKnown`), what is verified or about to be put in place has
an environment (`VerifiedIsUsable`, `TargetIsLock`), `current` is only ever what was
verified (`RecordIsVerified`), and images are not switched before there is a lock to
return to (`LockIsThere`). And it proves `ChatIsTold` (`ChatKnows`) for any
alerts: what a run of the monitor has told and not yet recorded is what it saw
(`ToldIsSeen`), and a run with nothing to tell saw what is on record (`QuietRun`).
That rests on `OutagesAssumption`: the hash of some alerts is not the hash of none.
`MonitorTypeCorrect` adds the types.

Of the register it proves, for every set of fingerprints and every limit: `FailureTypeCorrect`; `AlertedOnce` (`NoAlertTwice`; the
strengthening says that no alert carries an outage number above that of its row,
and that a recovery is not raised while the outage lasts); `GivenUpAtLimit`
(`DeadLetterAtLimit`); and `PromiseKept` (`Spec => KeepsPromise`), the refinement,
step by step.

Of the event gateway it proves, for any events, deliveries and senders:
`DeliveriesForwardedOnce` (`ForwardedOnce`), `MessagesGoAlone`
(`OneMessageAtATime`) and `GatewayTypeCorrect`. `HoldsAlone` is the heart of the
first: a request that posts or releases holds the reservation of its event, and
holds it alone. `OnTheirWay` adds that what it has posted was accepted, that what is
still to be posted may be accepted once more, and that an event without a
reservation has been received no more often than there are excuses. For the
second, the sender in the slot is the one whose lease is in Redis, until a lease
ends under its holder.

`ArtifactTypeCorrect` has the types of `ArtifactStore`, for any artifacts and any
number of stops (`ArtifactAssumption`): a process that deletes is at one of the
three files (`AtAFile`).

`AnsweringProofs` proves `ProbesGoAlone` (`OneProbe`) for any number of
threads: while the breaker is open, whoever is away left before it opened or is
a probe (`AwayIsKnown`), and if nobody came back late the breaker is half open
for the one probe that is away (`ProbeIsAwaited`). `BreakerTypeCorrect` has the types,
over a specification with fairness.

It proves `AnswersStandOnEvidence` (`AnswersAreGrounded`) for any number of
attachments and any limit of evidence: what is handed to the provider passed the
checks before it, so a grounded question comes with evidence of one branch and a
question about a guest system with the documentation it needs (`HandedOver`).
`AnsweringTypeCorrect` adds the types. `EverySourceSeen`
(`EverySourceIsReviewed`) proves that the evidence handed over for a question
without a scope is of every source that offers something, whatever the topic. A
source is left out when those ahead of it fill the twenty places, and what each
of them takes is at most the limit of its topic: added up source by source
(`RoomGrows`) these limits come to eighteen (`RoomForAll`). The nine sources and
their limits are those of the code.

It proves `ReviewTypeCorrect` and `JudgedBeforePublished` (`PublishedIsJudged`)
for any number of drafts, posts and broken calls. The invariant ties three
things that different calls write: the row (`DraftFit`: APPROVED only when
judged), the thread (`ThreadFit`: a post for review carries its own version's
number, and the present draft's is public only when judged) and each call
under way (`Current`: unless a draft was made meanwhile, a call for review is
about the present draft). `review_approval_reused` shows why the theorem is not
stated of the answer that is published.

`CommunityDraftProofs` proves `QuestionsAsked` (`QuestionsCanBeAsked`),
`DraftInvariant` and `DraftTypeCorrect`: for any number of posts, of any of the
modelled lengths, and any attachments, a question can be made of the discussion.
The invariant (`DraftInv`) says what the handler holds at each stage: the post it
answers is the requester's and not after the posts it read (`DraftOf`), and it
sends no more attachments than a request takes, those of the post among them as
long as they are kept (`SentWith`). The rest is arithmetic about the prompts: what
is quoted of a post is within the limit of its part (`QuotedFits`, `Cuts`), rows are
taken while there is room (`FillFits`), so what the short prompt keeps in any case
(`EssentialsFit`) leaves room for the instruction to rewrite (`RewriteFits`), but for
the named exception; and the attachments of the first post are taken first
(`TakingFirst`, `AvailableAre`).

Sums and rows are folds of the community modules, which are recursions over
finite sets. The induction theorems of the library take an operator, so the
module begins with the induction it needs, derived from well-founded orders and
stated of sets: `UpToInduction` (a set with 0 and, with n, n + 1 has all the numbers
up to N), `SubsetInduction` (the same over the subsets of a finite set), and
`FoldExists` (the recursion which a fold is the CHOOSE of has a solution). From these
follow what a sum is bounded by (`SumIsBounded`) and what a fold over a sequence
returns (`FoldInTurn`). `AnsweringProofs` uses the same lemmas. `CommunityDraft` picks
posts by the set of their positions for this reason, and not by `SelectSeq`, whose
recursion is inside the standard module.

`ServicesProofs` proves of all the services of `MCServices` together, for all
values of the constants:

* `PartsImplemented`: the composition implements the specification of each part
  (those without fairness). A step of one part is a step of it and leaves the
  others' variables alone; the registry, moved by three parts, takes steps of
  `SourceRegistry` in each.
* `ServicesTypeCorrect`: `Spec => []TypeOK`, from the types of the parts.
* `ServicesKeepPromises`: every invariant and every action property that the run
  checks, of the composition.

The three parts with fairness in their own specification (`ArtifactStore`,
`CommunityReview`, `ProviderBreaker`) promise it there at all times, the composition
only while they move, so their invariants are carried over instead (`FairInv`).

The assumptions are the named ones of the modules (limits are numbers, at least
one attempt, the first release is a release), and each is evaluated by a run.

Only model-checked are the liveness properties (`EveryJobEnds`,
`EveryPostIsTaken`, `ExpiredIsGone`, `EveryDraftIsReviewed`,
`ProviderTriedAgain`), since the prover handles neither fairness nor ENABLED, and
the six runs that end in a violation, which are about one instance by nature.
Every invariant and every action property of a passing run is a theorem.

Proved and in no run, because a theorem says all that a run would: `PublishedOncePerVersion`, `NoAlertTwice`,
`DeadLetterAtLimit`, and `TypeOK` of `CommunityCase`.

## 5. Seen on the way, and not stated as a finding

What the models had to except, or what was met while reading the code for them.

* `conversation.py:1079-1080` raises `ValueError` when the essentials do not fit.
  In `build_progression_retry_question` the room is what the faults leave: a
  long conversation with one short typing error and three faults, or with a long
  one or more than one and a single fault, overflows. `main.py:1119` does not catch
  it, so the post fails at every delivery that comes to the rewrite. This is the
  exception in `QuestionsCanBeAsked`.
* A follow-up whose answer is ABSTAINED is refused with 503 and never stored:
  every delivery asks the provider again.
* A comprehensive question with explicit profiles and a product version that
  resolves to an approved set is searched in the whole set
  (`docs/plans/issues-56-58-assist-multimodal-design.md`, rule 1); rule 4 there,
  to abstain on conflicting evidence, is `decide_generation`, which that path
  does not call.
* `docs/plans/issue-76` section 4 has the analysis of local evidence go on when
  the official search fails; `main.py:700-735` fails a question about a guest
  system then.
* With an explicit scope the raw question goes to `embed()`, which raises
  `ProviderContractError` above 7,936 bytes of UTF-8; `QueryRequest` stops at
  4,000 characters, the Knowledge Base and Chat at 16,000.
* The official web search and answers whose recording failed are in no ledger
  of provider calls; `projection_is_safe` is called by tests only;
  `analysis_event["artifactWarnings"]` (`main.py:1055-1058`) is read by nothing.
* The runbook has three attempts at the provider, the code one retry
  (`max_retries=1`), and a reply that is recorded as a success and then fails
  validation is recorded again, as a failure.
* A `last-alert.epoch` broken off half-way makes `alert_policy.py` exit with 2;
  an artifact without metadata is never found by the maintenance.
* A deployment on top of a failed one loses the way back that the runbook names,
  `runtime-lock.previous.json`. `runtime-lock.current.json` still has one
  (`RollbackTarget`), unless no deployment was ever completed. A capture of mixed
  images can be unusable (`HasEnvironment`). The older locks in `history/` are
  there for this and are not modelled.
* An archive that was broken off counts as fresh after a manual run or a restart
  of the host, and the drill takes the newest archive, so it fails although an
  older one is whole. A stopped run leaves its staging directory, with plain
  dumps. The label "30일 보존" of the recovery drill
  (`docs/runbooks/state-backup-recovery.md` section 6) is not kept: the daily run
  removes every archive older than its own 7 days. An archive removed between
  `glob` and `stat` fails one collection of the observer.
* The observer appends to `alerts.jsonl` before it replaces
  `current-alerts.json`, without a lock against a second `collect`: a stop in
  between leaves the log saying what the file never knew.
* A compatibility set stays APPROVED when its members are withdrawn.
* A run of the evaluation stays RUNNING when the gateway stops; `secretctl.sh`
  may stop between its two `set_secret` calls or before the restart.

## 6. Not modelled, and what is left

The map covers about a fifth of the implementation's lines. The rest is, by size:

| What | Lines, about | Why not |
|---|---|---|
| report and presentation builders (`tools/artifacts`) | 12,000 | documents made once; no part of the running system |
| Korean text rules, prompts, reviewed answers (`conversation.py`, `main.py`, `versioned_assist.py`) | 2,000 | what a text says is a free choice in the models; rules on its words state nothing a model could check |
| chunking, parsing, redaction, log extraction, embedding | 1,500 | pure functions of long texts, without state |
| evaluation | 500 | one request creates, runs and ends a run: no two actors meet |
| the rest of `gateway.py`, of `poll_flarum.py` and of the handlers | 1,500 | signatures, parsing and formatting of messages, reading endpoints, metrics |
| migrations | 500 | one transaction under an advisory lock, once at deployment |
| the observer's other probes, `secretctl.sh`, the escrow | 1,000 | one reading against a threshold; files handled by an operator |
| Flarum theme, Activepieces flows | | user interface; third-party orchestration, which appears as deliveries that are lost, repeated and reordered |

Modelling these would mean transcribing text and input/output, so the share
will not reach that of a program made of protocols. Within the modelled parts
the following is left, in this order:

1. The locks kept in `history/` as targets of a rollback.
2. Lengths of texts in `CommunityDraft` other than short ones and those longer
   than every limit.

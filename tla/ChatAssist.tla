----------------------------- MODULE ChatAssist -----------------------------
(***************************************************************************)
(* Technical support over Synology Chat for one user: the event handler,   *)
(* the background runner of a question (_run_chat_job) and the recovery at *)
(* startup (app/main.py) over the conversation, turn and job tables        *)
(* (app/postgres_store.py).                                                *)
(*                                                                         *)
(* Handlers and runners share one event loop: between two awaits a runner  *)
(* runs alone, so an action here goes from one await to the next.  The     *)
(* runners of a user are serialised by a lock.  Every store call is its    *)
(* own transaction and may fail; the gateway may be restarted at any time. *)
(* All tables are keyed by the user, so one user is enough.                *)
(***************************************************************************)
EXTENDS FailureRow, FiniteSets

CONSTANTS
    Posts,        \* the user's questions: Chat posts, delivered again at will
    MaxAttempts,  \* max_attempts of a job
    MaxContexts,  \* bound: contexts the user opens
    MaxQuestions, \* bound: questions recorded, over all contexts
    MaxRestarts   \* bound: restarts of the gateway

ASSUME AttemptsAssumption == MaxAttempts \in Nat \ {0}
ASSUME ContextsAssumption == MaxContexts \in Nat
ASSUME QuestionsAssumption == MaxQuestions \in Nat
ASSUME RestartsAssumption == MaxRestarts \in Nat

VARIABLES
    conv,        \* chat_assist_conversation
    turns,       \* chat_assist_turn with role USER, by context and post
    checked,     \* those whose attachments were looked at (artifact_checked)
    answers,     \* chat_assist_turn with role ASSISTANT
    job,         \* chat_assist_job, by context and post
    failure,     \* operation_failure of each job, by its fingerprint
    runner,      \* the task that runs each job
    deliveries,  \* how often the answer of each job reached the user
    notices,     \* jobs whose user was told that the analysis failed
    restarts     \* restarts so far

conversation == <<conv, turns, checked, answers>>
outbox == <<deliveries, notices>>
vars == <<conv, turns, checked, answers, job, failure, runner, deliveries,
          notices, restarts>>

----------------------------------------------------------------------------
JobId == (1..MaxContexts) \X Posts
Current(p) == <<conv.version, p>>    \* the rows a store call finds for post p
PostOf(j) == j[2]

NoJob == [state |-> "NONE", attempts |-> 0]
LiveStates == {"PENDING", "RUNNING", "RETRYING"}
Live(j) == job[j].state \in LiveStates

(* A runner waits for the lock ("queued"); then it is at the top of its    *)
(* loop or awaits one of its threads; "dead" when an exception left it.    *)
Awaits == {"loop", "ingest", "query", "send", "notice"}
LockFree == \A j \in JobId : runner[j] \notin Awaits
At(j, pc) == runner[j] = pc
Goto(j, pc) == runner' = [runner EXCEPT ![j] = pc]

Init ==
    /\ conv = [state |-> "NONE", version |-> 1]
    /\ turns = {} /\ checked = {} /\ answers = {}
    /\ job = [j \in JobId |-> NoJob]
    /\ failure = [j \in JobId |-> NoRow]
    /\ runner = [j \in JobId |-> "none"]
    /\ deliveries = [j \in JobId |-> 0]
    /\ notices = {}
    /\ restarts = 0

----------------------------------------------------------------------------
(* The user.                                                               *)

(* open_chat_conversation.                                                 *)
Opened ==
    IF conv.state = "RESOLVED"
    THEN [state |-> "ACTIVE", version |-> conv.version + 1]
    ELSE [conv EXCEPT !.state = "ACTIVE"]

(* A question, new or delivered again: open_chat_conversation,             *)
(* record_chat_turn and enqueue_chat_job, of which the later ones may fail *)
(* (the last one after its commit: then the job has no runner).            *)
Question(p) ==
    LET opened == Opened
        j == <<opened.version, p>>
        enqueued == IF job[j] = NoJob THEN [state |-> "PENDING", attempts |-> 0]
                    ELSE job[j]
    IN /\ opened.version <= MaxContexts
       /\ Cardinality(turns \cup {j}) <= MaxQuestions
       /\ conv' = opened
       /\ \/ UNCHANGED <<turns, job, runner>>
          \/ /\ turns' = turns \cup {j}
             /\ UNCHANGED <<job, runner>>
          \/ /\ turns' = turns \cup {j}
             /\ job' = [job EXCEPT ![j] = enqueued]
             /\ \/ job[j] = NoJob /\ Goto(j, "queued")
                \/ job[j] = NoJob /\ Goto(j, "dead")
                \/ job[j] # NoJob /\ UNCHANGED runner
       /\ UNCHANGED <<checked, answers, failure, restarts>> /\ UNCHANGED outbox

(* cancel_chat_jobs.  The fault forgets the job that is running.           *)
Cancelled_Waiting ==
    [j \in JobId |-> IF j[1] = conv.version /\ job[j].state \in {"PENDING", "RETRYING"}
                     THEN [job[j] EXCEPT !.state = "CANCELLED"] ELSE job[j]]
Cancelled ==
    [j \in JobId |-> IF j[1] = conv.version /\ Live(j)
                     THEN [job[j] EXCEPT !.state = "CANCELLED"] ELSE job[j]]

(* The user writes that the problem is solved: cancel_chat_jobs, then      *)
(* resolve_chat_conversation, which may fail.                              *)
Resolve ==
    /\ conv.state # "NONE"
    /\ job' = Cancelled
    /\ conv' \in {conv, [conv EXCEPT !.state = "RESOLVED"]}
    /\ UNCHANGED <<turns, checked, answers, failure, runner, restarts>>
    /\ UNCHANGED outbox

----------------------------------------------------------------------------
(* What a runner does between two awaits.                                  *)

(* fail_chat_job.                                                          *)
AfterFail(row) ==
    IF row.state = "CANCELLED" THEN row
    ELSE [row EXCEPT !.state = IF row.attempts >= MaxAttempts THEN "DEAD_LETTER"
                               ELSE "RETRYING"]

(* The exception handler, over the job as the failed step left it:         *)
(* fail_chat_job and record_operation_failure.  An exception of either     *)
(* leaves the runner.                                                      *)
HandleFailure(j, row) ==
    LET failed == AfterFail(row) IN
    \/ /\ job' = [job EXCEPT ![j] = row]
       /\ Goto(j, "dead")
       /\ UNCHANGED failure
    \/ /\ job' = [job EXCEPT ![j] = failed]
       /\ Goto(j, "dead")
       /\ UNCHANGED failure
    \/ /\ job' = [job EXCEPT ![j] = failed]
       /\ failure' = [failure EXCEPT ![j] = AfterFailure(@, MaxAttempts)]
       /\ Goto(j, IF failed.state = "RETRYING" THEN "loop" ELSE "notice")

(* The answer of job j is ready: unless the user cancelled it, it is       *)
(* recorded, in the context open now, and sent.                            *)
Deliver_Unchecked(j) ==     \* fault: the job is not looked at again
    /\ answers' = answers \cup {Current(PostOf(j))}
    /\ Goto(j, "send")

Deliver(j) ==
    \/ /\ job[j].state = "CANCELLED"
       /\ Goto(j, "none")
       /\ UNCHANGED answers
    \/ /\ job[j].state # "CANCELLED"
       /\ answers' = answers \cup {Current(PostOf(j))}
       /\ Goto(j, "send")

(* The turn's attachments are known: an answer recorded by an earlier      *)
(* attempt is used again; otherwise the answer is what the attachments'    *)
(* warnings say, or that of the AI.                                        *)
FindAnswer(j) ==
    \/ Deliver(j)
    \/ /\ Current(PostOf(j)) \notin answers
       /\ Goto(j, "query")
       /\ UNCHANGED answers

----------------------------------------------------------------------------
(* The steps of a runner.                                                  *)

Acquire(j) ==
    /\ At(j, "queued") /\ LockFree
    /\ Goto(j, "loop")
    /\ UNCHANGED <<job, failure, restarts>>
    /\ UNCHANGED conversation /\ UNCHANGED outbox

(* The job has ended, or was cancelled, while the runner waited.           *)
Return(j) ==
    /\ At(j, "loop") /\ ~Live(j)
    /\ Goto(j, "none")
    /\ UNCHANGED <<job, failure, restarts>>
    /\ UNCHANGED conversation /\ UNCHANGED outbox

(* claim_chat_job, when the delay of a retry is over.  A post that was     *)
(* looked at before goes on without an await.                              *)
Claim(j) ==
    /\ At(j, "loop") /\ job[j].state \in {"PENDING", "RETRYING"}
    /\ job' = [job EXCEPT ![j] = [state |-> "RUNNING", attempts |-> @.attempts + 1]]
    /\ \/ /\ Current(PostOf(j)) \notin checked
          /\ Goto(j, "ingest")
          /\ UNCHANGED answers
       \/ /\ Current(PostOf(j)) \in checked
          /\ FindAnswer(j)
    /\ UNCHANGED <<conv, turns, checked, failure, restarts>> /\ UNCHANGED outbox

(* A store call outside the try block fails.                               *)
Die(j) ==
    /\ runner[j] \in {"queued", "loop"}
    /\ Goto(j, "dead")
    /\ UNCHANGED <<job, failure, restarts>>
    /\ UNCHANGED conversation /\ UNCHANGED outbox

(* update_chat_turn_artifacts finds the turn of the context open now.      *)
Ingested(j) ==
    /\ At(j, "ingest")
    /\ conv.state = "ACTIVE" /\ Current(PostOf(j)) \in turns
    /\ checked' = checked \cup {Current(PostOf(j))}
    /\ FindAnswer(j)
    /\ UNCHANGED <<conv, turns, job, failure, restarts>> /\ UNCHANGED outbox

Answered(j) ==
    /\ At(j, "query")
    /\ Deliver(j)
    /\ UNCHANGED <<conv, turns, checked, job, failure, restarts>>
    /\ UNCHANGED outbox

(* A download, a missing turn, the AI or a store call raised an exception. *)
Raise(j) ==
    /\ runner[j] \in {"ingest", "query"}
    /\ HandleFailure(j, job[j])
    /\ UNCHANGED restarts /\ UNCHANGED conversation /\ UNCHANGED outbox

(* complete_chat_job.  The fault writes a state that the table refuses.    *)
Completed_Unknown(row) ==
    IF row.state = "RUNNING" THEN [row EXCEPT !.state = "DONE"] ELSE row
Completed(row) ==
    IF row.state = "RUNNING" THEN [row EXCEPT !.state = "COMPLETED"] ELSE row

(* The answer has been sent: complete_chat_job, recover_operation_failure. *)
(* A failure of the second one is handled as a failure of the answer.      *)
Sent(j) ==
    /\ At(j, "send")
    /\ deliveries' = [deliveries EXCEPT ![j] = @ + 1]
    /\ \/ /\ job' = [job EXCEPT ![j] = Completed(@)]
          /\ failure' = [failure EXCEPT ![j] = AfterRecovery(@)]
          /\ Goto(j, "none")
       \/ HandleFailure(j, job[j])
       \/ HandleFailure(j, Completed(job[j]))
    /\ UNCHANGED <<notices, restarts>> /\ UNCHANGED conversation

(* Chat did not confirm the answer; it may have delivered it.  The fault   *)
(* takes the answer for sent.                                              *)
NotSent_Swallowed(j) ==
    /\ At(j, "send")
    /\ deliveries' \in {deliveries, [deliveries EXCEPT ![j] = @ + 1]}
    /\ job' = [job EXCEPT ![j] = Completed(@)]
    /\ failure' = [failure EXCEPT ![j] = AfterRecovery(@)]
    /\ Goto(j, "none")
    /\ UNCHANGED <<notices, restarts>> /\ UNCHANGED conversation

NotSent(j) ==
    /\ At(j, "send")
    /\ deliveries' \in {deliveries, [deliveries EXCEPT ![j] = @ + 1]}
    /\ HandleFailure(j, job[j])
    /\ UNCHANGED <<notices, restarts>> /\ UNCHANGED conversation

(* The notice that the analysis could not be completed, sent once or lost. *)
Notice(j) ==
    /\ At(j, "notice")
    /\ notices' \in {notices, notices \cup {j}}
    /\ Goto(j, "none")
    /\ UNCHANGED <<job, failure, deliveries, restarts>> /\ UNCHANGED conversation

(* The gateway stops and starts: recover_chat_jobs makes running jobs      *)
(* retryable and every job that has not ended gets a runner.  The fault    *)
(* starts only the jobs that had not been running.                         *)
Recovered_Waiting ==
    [j \in JobId |-> IF job[j].state \in {"PENDING", "RETRYING"} THEN "queued" ELSE "none"]
Recovered == [j \in JobId |-> IF Live(j) THEN "queued" ELSE "none"]

Restart ==
    /\ restarts < MaxRestarts
    /\ restarts' = restarts + 1
    /\ job' = [j \in JobId |-> IF job[j].state = "RUNNING"
                               THEN [job[j] EXCEPT !.state = "RETRYING"] ELSE job[j]]
    /\ runner' = Recovered
    /\ UNCHANGED failure /\ UNCHANGED conversation /\ UNCHANGED outbox

----------------------------------------------------------------------------
Run(j) ==
    \/ Acquire(j) \/ Return(j) \/ Claim(j) \/ Die(j)
    \/ Ingested(j) \/ Answered(j) \/ Raise(j)
    \/ Sent(j) \/ NotSent(j) \/ Notice(j)

Next ==
    \/ \E p \in Posts : Question(p)
    \/ Resolve
    \/ \E j \in JobId : Run(j)
    \/ Restart

(* A task that can go on does: the event loop schedules it, a delay ends,  *)
(* and every thread it awaits has a timeout.  Nothing obliges the user to  *)
(* write or the gateway to restart.                                        *)
Spec == Init /\ [][Next]_vars /\ \A j \in JobId : WF_vars(Run(j))

----------------------------------------------------------------------------
(* Properties.                                                             *)

JobStates == LiveStates \cup {"NONE", "COMPLETED", "DEAD_LETTER", "CANCELLED"}
FailureType ==
    [state : {"NONE", "OPEN", "RETRYING", "DEAD_LETTER", "RECOVERED"},
     attempts : Nat, outage : Nat]

(* Every variable has its type.                                            *)
TypeOK ==
    /\ conv \in [state : {"NONE", "ACTIVE", "RESOLVED"}, version : Nat \ {0}]
    /\ turns \subseteq JobId /\ checked \subseteq JobId /\ answers \subseteq JobId
    /\ job \in [JobId -> [state : JobStates, attempts : Nat]]
    /\ failure \in [JobId -> FailureType]
    /\ runner \in [JobId -> Awaits \cup {"none", "queued", "dead"}]
    /\ deliveries \in [JobId -> Nat]
    /\ notices \subseteq JobId
    /\ restarts \in Nat

(* Work that has not ended belongs to the context the user is in: nothing  *)
(* of a context that was closed by "solved" is still to be analysed,       *)
(* retried or recovered, whatever was running or waiting then.             *)
LiveJobsAreCurrent ==
    \A j \in JobId : Live(j) => conv.state = "ACTIVE" /\ j[1] = conv.version

(* A job says it is completed only when its answer reached the user; an    *)
(* attempt delivers it at most once; and, restarts aside, it is not tried  *)
(* more often than its limit.                                              *)
DeliveriesMatchAttempts ==
    \A j \in JobId :
       /\ job[j].state = "COMPLETED" => deliveries[j] > 0
       /\ deliveries[j] <= job[j].attempts
       /\ job[j].attempts <= MaxAttempts + restarts

(* The user's runners exclude each other, and no job that waits is left    *)
(* without a runner unless an exception took it.                           *)
RunnersAreOrderly ==
    /\ \A i, j \in JobId : runner[i] \in Awaits /\ runner[j] \in Awaits => i = j
    /\ \A j \in JobId : Live(j) => runner[j] # "none"
    /\ \A j \in JobId : job[j].state = "RUNNING" =>
          runner[j] \in {"ingest", "query", "send", "dead"}

(* Sending starts only for a job that runs in the user's context: what is  *)
(* cancelled during the analysis is not sent.                              *)
SendsOnlyRunning ==
    [][\A j \in JobId : runner[j] # "send" /\ runner'[j] = "send"
          => job'[j].state = "RUNNING" /\ j \in answers']_vars

(* Every accepted question is answered, given up or cancelled, unless an   *)
(* exception takes its runner (then a restart is needed).                  *)
EveryJobEnds == \A j \in JobId : Live(j) ~> (~Live(j) \/ runner[j] = "dead")

(* The user is told of a failure when the retries are exhausted            *)
(* (docs/runbooks/epic4-service-continuity.md:17), not of a question that  *)
(* was withdrawn.                                                          *)
NoticeOnlyForDeadLetter == \A j \in notices : job[j].state = "DEAD_LETTER"
============================================================================

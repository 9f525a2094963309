-------------------------- MODULE ChatAssistProofs --------------------------
(***************************************************************************)
(* Theorems about ChatAssist, for any posts, any number of contexts,       *)
(* attempts and restarts.                                                  *)
(***************************************************************************)
EXTENDS ChatAssist, TLAPS

RowType == [state : JobStates, attempts : Nat]
Pcs == Awaits \cup {"none", "queued", "dead"}
Works == {"ingest", "query", "send"}
LiveRow(row) == row.state \in LiveStates

(* A runner that works has a job that runs or was cancelled under it; one  *)
(* that sends the notice has a job that has ended.                         *)
RunnerFits ==
    \A j \in JobId : /\ runner[j] \in Works => job[j].state \in {"RUNNING", "CANCELLED"}
                     /\ runner[j] = "notice" => ~Live(j)

Orderly == LiveJobsAreCurrent /\ RunnersAreOrderly /\ RunnerFits
ChatInv == TypeOK /\ Orderly

LEMMA InitChat == Init => ChatInv
<1>1. SUFFICES ASSUME Init PROVE ChatInv
  OBVIOUS
<1>2. NoJob \in RowType /\ NoRow \in FailureType /\ ~LiveRow(NoJob)
  BY DEF NoJob, NoRow, RowType, FailureType, JobStates, LiveRow, LiveStates
<1>3. TypeOK
  BY <1>1, <1>2 DEF Init, TypeOK, RowType
<1>4. \A j \in JobId : job[j] = NoJob /\ runner[j] = "none" /\ ~Live(j)
  BY <1>1, <1>2 DEF Init, Live, LiveRow
<1>5. Orderly
  BY <1>4 DEF Orderly, LiveJobsAreCurrent, RunnersAreOrderly, RunnerFits, Awaits, Works, NoJob
<1>6. QED
  BY <1>3, <1>5 DEF ChatInv

----------------------------------------------------------------------------
(* One runner goes on and leaves its row as row and itself at pc.          *)
LEMMA OneRunner ==
  ASSUME ChatInv, NEW j \in JobId, NEW row \in RowType, NEW pc \in Pcs,
         job' = [job EXCEPT ![j] = row], runner' = [runner EXCEPT ![j] = pc], conv' = conv,
         LiveRow(row) => Live(j) /\ pc # "none",
         pc \in Awaits => runner[j] \in Awaits \/ LockFree,
         row.state = "RUNNING" => pc \in Works \cup {"dead"},
         pc \in Works => row.state \in {"RUNNING", "CANCELLED"},
         pc = "notice" => ~LiveRow(row)
  PROVE  /\ Orderly'
         /\ job' \in [JobId -> RowType] /\ runner' \in [JobId -> Pcs]
<1>1. job \in [JobId -> RowType] /\ runner \in [JobId -> Pcs]
  BY DEF ChatInv, TypeOK, RowType, Pcs
<1>2. job' \in [JobId -> RowType] /\ runner' \in [JobId -> Pcs]
  BY <1>1
<1>3. /\ job'[j] = row /\ runner'[j] = pc
      /\ \A i \in JobId \ {j} : job'[i] = job[i] /\ runner'[i] = runner[i]
  BY <1>1
<1>4. (Live(j)' <=> LiveRow(row)) /\ \A i \in JobId \ {j} : Live(i)' <=> Live(i)
  BY <1>3 DEF Live, LiveRow
<1>5. LiveJobsAreCurrent'
  BY <1>4 DEF ChatInv, Orderly, LiveJobsAreCurrent
<1>6. RunnersAreOrderly'
  <2>1. \A i \in JobId \ {j} : runner'[i] \in Awaits => pc \notin Awaits
    BY <1>3 DEF ChatInv, Orderly, RunnersAreOrderly, LockFree
  <2>2. \A i, k \in JobId : runner'[i] \in Awaits /\ runner'[k] \in Awaits => i = k
    BY <1>3, <2>1 DEF ChatInv, Orderly, RunnersAreOrderly
  <2>3. \A i \in JobId : Live(i)' => runner'[i] # "none"
    BY <1>3, <1>4 DEF ChatInv, Orderly, RunnersAreOrderly
  <2>4. \A i \in JobId : job'[i].state = "RUNNING" => runner'[i] \in {"ingest", "query", "send", "dead"}
    BY <1>3 DEF ChatInv, Orderly, RunnersAreOrderly, Works
  <2>5. QED
    BY <2>2, <2>3, <2>4 DEF RunnersAreOrderly
<1>7. RunnerFits'
  BY <1>3, <1>4 DEF ChatInv, Orderly, RunnerFits
<1>8. QED
  BY <1>2, <1>5, <1>6, <1>7 DEF Orderly

(* What a live job's runner records is of its own question.                *)
LEMMA CurrentIsOwn ==
  ASSUME ChatInv, NEW j \in JobId, Live(j)
  PROVE  Current(PostOf(j)) = j
  BY DEF ChatInv, Orderly, LiveJobsAreCurrent, Current, PostOf, JobId

LEMMA RowFacts ==
  ASSUME ChatInv, NEW j \in JobId
  PROVE  /\ job[j] \in RowType /\ runner[j] \in Pcs /\ failure[j] \in FailureType
         /\ job[j].state \in JobStates /\ job[j].attempts \in Nat
         /\ [job EXCEPT ![j] = job[j]] = job
  BY DEF ChatInv, TypeOK, RowType, Pcs

LEMMA FailureStays ==
  ASSUME NEW row \in FailureType, NEW max \in Nat
  PROVE  AfterFailure(row, max) \in FailureType /\ AfterRecovery(row) \in FailureType
<1>1. row.state \in {"NONE", "OPEN", "RETRYING", "DEAD_LETTER", "RECOVERED"}
      /\ row.attempts \in Nat /\ row.outage \in Nat
  BY DEF FailureType
<1>2. AfterFailure(row, max) \in FailureType
  <2>1. CASE StartsOutage(row)
    BY <1>1, <2>1 DEF AfterFailure, FailureType
  <2>2. CASE ~StartsOutage(row)
    <3>1. \A s \in {"DEAD_LETTER", "OPEN"}, n \in Nat :
             [row EXCEPT !.attempts = n, !.state = s] \in FailureType
      BY DEF FailureType
    <3>2. row.attempts + 1 \in Nat
      BY <1>1
    <3>3. CASE row.attempts + 1 >= max
      BY <2>2, <3>1, <3>2, <3>3 DEF AfterFailure
    <3>4. CASE ~(row.attempts + 1 >= max)
      BY <2>2, <3>1, <3>2, <3>4 DEF AfterFailure
    <3>5. QED
      BY <3>3, <3>4
  <2>3. QED
    BY <2>1, <2>2
<1>3. AfterRecovery(row) \in FailureType
  BY <1>1 DEF AfterRecovery, FailureType
<1>4. QED
  BY <1>2, <1>3

(* The exception handler, over a job that ran.                             *)
LEMMA HandlerKeeps ==
  ASSUME ChatInv, NEW j \in JobId, NEW row \in RowType, runner[j] \in Works,
         row.state \in {"RUNNING", "COMPLETED", "CANCELLED"},
         row.state # "CANCELLED" => Live(j),
         HandleFailure(j, row), conv' = conv
  PROVE  /\ Orderly'
         /\ job' \in [JobId -> RowType] /\ runner' \in [JobId -> Pcs]
         /\ failure' \in [JobId -> FailureType]
         /\ runner'[j] # "send"
<1>1. /\ AfterFail(row) \in RowType
      /\ AfterFail(row).state \in {"CANCELLED", "DEAD_LETTER", "RETRYING"}
      /\ row.state = "CANCELLED" <=> AfterFail(row).state = "CANCELLED"
  BY DEF AfterFail, RowType, JobStates, LiveStates
<1>2. failure \in [JobId -> FailureType] /\ runner \in [JobId -> Pcs] /\ runner[j] \in Awaits
  BY DEF ChatInv, TypeOK, Pcs, Works, Awaits
<1>3. failure' \in [JobId -> FailureType]
  BY <1>2, FailureStays, AttemptsAssumption DEF HandleFailure
<1>4. PICK after \in RowType, pc \in {"dead", "loop", "notice"} :
          /\ job' = [job EXCEPT ![j] = after] /\ runner' = [runner EXCEPT ![j] = pc]
          /\ \/ after = row /\ pc = "dead"
             \/ after = AfterFail(row) /\ pc = "dead"
             \/ after = AfterFail(row) /\ pc = (IF after.state = "RETRYING" THEN "loop" ELSE "notice")
  BY <1>1 DEF HandleFailure, Goto
<1>5. /\ LiveRow(after) => Live(j)
      /\ after.state = "RUNNING" => pc = "dead"
      /\ pc = "notice" => ~LiveRow(after)
  BY <1>1, <1>4 DEF LiveRow, LiveStates
<1>6. pc \in Pcs /\ pc \notin Works /\ pc # "none"
  BY DEF Pcs, Awaits, Works
<1>7. /\ Orderly'
      /\ job' \in [JobId -> RowType] /\ runner' \in [JobId -> Pcs]
  BY <1>2, <1>4, <1>5, <1>6, OneRunner
<1>8. runner'[j] # "send"
  BY <1>2, <1>4
<1>9. QED
  BY <1>3, <1>7, <1>8

(* The answer is ready.                                                    *)
LEMMA DeliverKeeps ==
  ASSUME ChatInv, NEW j \in JobId, runner[j] \in Works, Deliver(j), UNCHANGED <<conv, job>>
  PROVE  /\ Orderly' /\ answers' \subseteq JobId
         /\ job' \in [JobId -> RowType] /\ runner' \in [JobId -> Pcs]
         /\ runner'[j] = "send" => job'[j].state = "RUNNING" /\ j \in answers'
<1>1. /\ job[j].state \in {"RUNNING", "CANCELLED"} /\ runner[j] \in Awaits
      /\ runner \in [JobId -> Pcs] /\ answers \subseteq JobId
  BY DEF ChatInv, TypeOK, Orderly, RunnerFits, Works, Awaits, Pcs
<1>2. CASE job[j].state = "CANCELLED" /\ Goto(j, "none") /\ UNCHANGED answers
  <2>1. runner' = [runner EXCEPT ![j] = "none"] /\ job' = [job EXCEPT ![j] = job[j]]
    BY <1>2, RowFacts DEF Goto
  <2>2. ~LiveRow(job[j]) /\ "none" \in Pcs /\ "none" \notin Awaits \cup Works
    BY <1>2 DEF LiveRow, LiveStates, Pcs, Awaits, Works
  <2>3. Orderly' /\ job' \in [JobId -> RowType] /\ runner' \in [JobId -> Pcs]
    BY <1>2, <2>1, <2>2, RowFacts, OneRunner
  <2>4. QED
    BY <1>1, <1>2, <2>1, <2>3
<1>3. CASE job[j].state = "RUNNING" /\ answers' = answers \cup {Current(PostOf(j))} /\ Goto(j, "send")
  <2>1. runner' = [runner EXCEPT ![j] = "send"] /\ job' = [job EXCEPT ![j] = job[j]]
    BY <1>3, RowFacts DEF Goto
  <2>2. Live(j) /\ "send" \in Pcs /\ "send" \in Works /\ "send" # "none"
    BY <1>3 DEF Live, LiveStates, Pcs, Awaits, Works
  <2>3. Orderly' /\ job' \in [JobId -> RowType] /\ runner' \in [JobId -> Pcs]
    BY <1>1, <1>3, <2>1, <2>2, RowFacts, OneRunner
  <2>4. QED
    BY <1>1, <1>3, <2>2, <2>3, CurrentIsOwn
<1>4. QED
  BY <1>1, <1>2, <1>3 DEF Deliver

----------------------------------------------------------------------------
(* The steps.  Each also starts to send only as SendsOnlyRunning says.     *)

SendsWell == \A j \in JobId : runner[j] # "send" /\ runner'[j] = "send"
                                  => job'[j].state = "RUNNING" /\ j \in answers'
StepOK == ChatInv' /\ SendsWell

(* What only one runner's step has to show.                                *)
LEMMA OneRunnerOK ==
  ASSUME ChatInv, NEW j \in JobId, NEW pc, runner' = [runner EXCEPT ![j] = pc],
         TypeOK', Orderly',
         runner'[j] = "send" => runner[j] = "send" \/ (job'[j].state = "RUNNING" /\ j \in answers')
  PROVE  StepOK
<1>1. \A i \in JobId \ {j} : runner'[i] = runner[i]
  BY DEF ChatInv, TypeOK
<1>2. QED
  BY <1>1 DEF StepOK, ChatInv, SendsWell

LEMMA WaitKeeps ==
  ASSUME ChatInv, NEW j \in JobId, Acquire(j) \/ Return(j) \/ Die(j) \/ Notice(j)
  PROVE  StepOK
<1>1. PICK pc \in {"loop", "none", "dead"} :
          /\ runner' = [runner EXCEPT ![j] = pc]
          /\ LiveRow(job[j]) => pc # "none"
          /\ pc = "loop" => LockFree
          /\ job[j].state = "RUNNING" => pc = "dead"
  <2>1. job[j].state = "RUNNING" => runner[j] \in Works \cup {"dead"}
    BY DEF ChatInv, Orderly, RunnersAreOrderly, Works
  <2>2. CASE Acquire(j)
    BY <2>1, <2>2 DEF Acquire, At, Goto, Works
  <2>3. CASE Return(j)
    BY <2>1, <2>3 DEF Return, At, Goto, Works, Live, LiveRow
  <2>4. CASE Die(j)
    BY <2>4 DEF Die, Goto
  <2>5. CASE Notice(j)
    BY <2>1, <2>5 DEF Notice, At, Goto, Works, Live, LiveRow, ChatInv, Orderly, RunnerFits
  <2>6. QED
    BY <2>2, <2>3, <2>4, <2>5
<1>2. /\ UNCHANGED <<conv, turns, checked, answers, job, failure, deliveries, restarts>>
      /\ notices' \subseteq JobId
  BY DEF Acquire, Return, Die, Notice, conversation, outbox, ChatInv, TypeOK
<1>3. pc \in Pcs /\ pc \notin Works /\ (pc \in Awaits => pc = "loop") /\ pc # "send"
  BY DEF Pcs, Awaits, Works
<1>4. /\ Orderly' /\ job' \in [JobId -> RowType] /\ runner' \in [JobId -> Pcs]
  BY <1>1, <1>2, <1>3, RowFacts, OneRunner DEF LiveRow, Live
<1>5. TypeOK'
  BY <1>2, <1>4 DEF ChatInv, TypeOK, RowType, Pcs
<1>6. runner'[j] # "send"
  BY <1>1, <1>3 DEF ChatInv, TypeOK
<1>7. QED
  BY <1>1, <1>4, <1>5, <1>6, OneRunnerOK

LEMMA ClaimKeeps == ASSUME ChatInv, NEW j \in JobId, Claim(j) PROVE StepOK
<1>1. /\ Live(j) /\ runner[j] \in Awaits /\ Current(PostOf(j)) = j
      /\ UNCHANGED <<conv, turns, checked, failure, deliveries, notices, restarts>>
  BY CurrentIsOwn DEF Claim, At, Live, LiveStates, Awaits, outbox
<1>2. PICK row \in RowType : job' = [job EXCEPT ![j] = row] /\ row.state = "RUNNING"
  <2> DEFINE new == [state |-> "RUNNING", attempts |-> job[j].attempts + 1]
  <2>1. new \in RowType
    BY RowFacts DEF RowType, JobStates, LiveStates
  <2>2. QED
    BY <2>1 DEF Claim
<1>3. PICK pc \in {"ingest", "query", "send"} :
          /\ runner' = [runner EXCEPT ![j] = pc]
          /\ answers' \in {answers, answers \cup {j}}
          /\ pc = "send" => j \in answers'
  BY <1>1 DEF Claim, FindAnswer, Deliver, Goto
<1>4. pc \in Pcs /\ pc \in Works /\ pc # "none" /\ pc # "notice"
  BY DEF Pcs, Awaits, Works
<1>5. Orderly' /\ job' \in [JobId -> RowType] /\ runner' \in [JobId -> Pcs]
  BY <1>1, <1>2, <1>3, <1>4, OneRunner
<1>6. TypeOK'
  BY <1>1, <1>3, <1>5 DEF ChatInv, TypeOK, RowType, Pcs
<1>7. runner'[j] = "send" => job'[j].state = "RUNNING" /\ j \in answers'
  BY <1>2, <1>3 DEF ChatInv, TypeOK
<1>8. QED
  BY <1>3, <1>5, <1>6, <1>7, OneRunnerOK

LEMMA WorkKeeps == ASSUME ChatInv, NEW j \in JobId, Ingested(j) \/ Answered(j) PROVE StepOK
<1>1. /\ runner[j] \in Works /\ UNCHANGED <<conv, turns, job, failure, deliveries, notices, restarts>>
      /\ checked' \subseteq JobId
  BY DEF Ingested, Answered, At, Works, outbox, ChatInv, TypeOK
<1>2. CASE Deliver(j)
  <2>1. /\ Orderly' /\ answers' \subseteq JobId
        /\ job' \in [JobId -> RowType] /\ runner' \in [JobId -> Pcs]
        /\ runner'[j] = "send" => job'[j].state = "RUNNING" /\ j \in answers'
    BY <1>1, <1>2, DeliverKeeps
  <2>2. TypeOK'
    BY <1>1, <2>1 DEF ChatInv, TypeOK, RowType, Pcs
  <2>3. PICK pc \in {"none", "send"} : runner' = [runner EXCEPT ![j] = pc]
    BY <1>2 DEF Deliver, Goto
  <2>4. QED
    BY <2>1, <2>2, <2>3, OneRunnerOK
<1>3. CASE Goto(j, "query") /\ UNCHANGED answers
  <2>1. runner' = [runner EXCEPT ![j] = "query"] /\ job' = [job EXCEPT ![j] = job[j]]
    BY <1>1, <1>3, RowFacts DEF Goto
  <2>2. "query" \in Pcs /\ "query" \in Works /\ "query" \notin {"none", "notice", "send"} /\ runner[j] \in Awaits
    BY <1>1 DEF Pcs, Awaits, Works
  <2>3. job[j].state \in {"RUNNING", "CANCELLED"} /\ (LiveRow(job[j]) <=> Live(j))
    BY <1>1 DEF ChatInv, Orderly, RunnerFits, LiveRow, Live
  <2>4. Orderly' /\ job' \in [JobId -> RowType] /\ runner' \in [JobId -> Pcs]
    BY <1>1, <2>1, <2>2, <2>3, RowFacts, OneRunner
  <2>5. TypeOK'
    BY <1>1, <1>3, <2>4 DEF ChatInv, TypeOK, RowType, Pcs
  <2>6. runner'[j] # "send"
    BY <2>1 DEF ChatInv, TypeOK
  <2>7. QED
    BY <2>1, <2>4, <2>5, <2>6, OneRunnerOK
<1>4. QED
  BY <1>2, <1>3 DEF Ingested, Answered, FindAnswer

(* The end of an attempt, by the exception handler or without it.          *)
LEMMA AttemptEndKeeps ==
  ASSUME ChatInv, NEW j \in JobId, Raise(j) \/ Sent(j) \/ NotSent(j)
  PROVE  StepOK
<1>1. /\ runner[j] \in Works /\ UNCHANGED <<conv, turns, checked, answers, notices, restarts>>
      /\ deliveries' \in [JobId -> Nat]
  <2>1. deliveries \in [JobId -> Nat]
    BY DEF ChatInv, TypeOK
  <2>2. [deliveries EXCEPT ![j] = @ + 1] \in [JobId -> Nat]
    BY <2>1
  <2>3. QED
    BY <2>1, <2>2 DEF Raise, Sent, NotSent, At, Works, conversation, outbox
<1>2. /\ job[j] \in RowType /\ job[j].state \in {"RUNNING", "CANCELLED"}
      /\ Completed(job[j]) \in RowType
      /\ job[j].state = "RUNNING" => Completed(job[j]).state = "COMPLETED"
      /\ job[j].state = "CANCELLED" => Completed(job[j]) = job[j]
      /\ job[j].state # "CANCELLED" => Live(j)
  BY <1>1, RowFacts DEF Completed, RowType, JobStates, ChatInv, Orderly, RunnerFits, Live, LiveStates
<1>3. ASSUME NEW row \in {job[j], Completed(job[j])}, HandleFailure(j, row) PROVE StepOK
  <2>1. /\ row \in RowType /\ row.state \in {"RUNNING", "COMPLETED", "CANCELLED"}
        /\ row.state # "CANCELLED" => Live(j)
    BY <1>2
  <2>2. /\ Orderly'
        /\ job' \in [JobId -> RowType] /\ runner' \in [JobId -> Pcs]
        /\ failure' \in [JobId -> FailureType]
        /\ runner'[j] # "send"
    BY <1>1, <1>3, <2>1, HandlerKeeps
  <2>3. TypeOK'
    BY <1>1, <2>2 DEF ChatInv, TypeOK, RowType, Pcs
  <2>4. PICK pc \in {"dead", "loop", "notice"} : runner' = [runner EXCEPT ![j] = pc]
    BY <1>3 DEF HandleFailure, Goto
  <2>5. QED
    BY <2>2, <2>3, <2>4, OneRunnerOK
<1>4. CASE /\ job' = [job EXCEPT ![j] = Completed(@)]
           /\ failure' = [failure EXCEPT ![j] = AfterRecovery(@)]
           /\ Goto(j, "none")
  <2>1. runner' = [runner EXCEPT ![j] = "none"] /\ job' = [job EXCEPT ![j] = Completed(job[j])]
    BY <1>4 DEF Goto
  <2>2. ~LiveRow(Completed(job[j])) /\ Completed(job[j]).state # "RUNNING"
    BY <1>2 DEF LiveRow, LiveStates
  <2>3. "none" \in Pcs /\ "none" \notin Awaits \cup Works
    BY DEF Pcs, Awaits, Works
  <2>4. Orderly' /\ job' \in [JobId -> RowType] /\ runner' \in [JobId -> Pcs]
    BY <1>1, <1>2, <2>1, <2>2, <2>3, OneRunner
  <2>5. failure' \in [JobId -> FailureType]
    <3>1. failure \in [JobId -> FailureType] /\ AfterRecovery(failure[j]) \in FailureType
      BY FailureStays, AttemptsAssumption DEF ChatInv, TypeOK
    <3>2. QED
      BY <1>4, <3>1
  <2>6. TypeOK'
    BY <1>1, <2>4, <2>5 DEF ChatInv, TypeOK, RowType, Pcs
  <2>7. runner'[j] # "send"
    BY <2>1 DEF ChatInv, TypeOK
  <2>8. QED
    BY <2>1, <2>4, <2>6, <2>7, OneRunnerOK
<1>5. QED
  BY <1>3, <1>4 DEF Raise, Sent, NotSent

(* The user and the gateway.                                               *)
LEMMA QuestionKeeps == ASSUME ChatInv, NEW p \in Posts, Question(p) PROVE StepOK
<1>1. PICK j \in JobId : j = <<Opened.version, p>>
  BY DEF ChatInv, TypeOK, Opened, Question, JobId
<1>2. /\ conv' = Opened /\ UNCHANGED <<checked, answers, failure, deliveries, notices, restarts>>
      /\ turns' \subseteq JobId
      /\ \/ UNCHANGED <<job, runner>>
         \/ UNCHANGED runner /\ job' = [job EXCEPT ![j] = job[j]]
         \/ /\ job[j] = NoJob
            /\ job' = [job EXCEPT ![j] = [state |-> "PENDING", attempts |-> 0]]
            /\ \E pc \in {"queued", "dead"} : runner' = [runner EXCEPT ![j] = pc]
         \/ /\ job[j] = NoJob
            /\ job' = [job EXCEPT ![j] = [state |-> "PENDING", attempts |-> 0]]
            /\ UNCHANGED runner /\ FALSE
  <2>1. turns \subseteq JobId
    BY DEF ChatInv, TypeOK
  <2>2. QED
    BY <1>1, <2>1 DEF Question, outbox, Goto
<1>3. /\ conv' \in [state : {"NONE", "ACTIVE", "RESOLVED"}, version : Nat \ {0}]
      /\ conv'.state = "ACTIVE" /\ conv'.version = j[1]
      /\ conv.state = "ACTIVE" => conv' = conv
  BY <1>1, <1>2 DEF ChatInv, TypeOK, Opened
<1>4. job \in [JobId -> RowType] /\ runner \in [JobId -> Pcs]
  BY DEF ChatInv, TypeOK, RowType, Pcs
<1>5. \A i \in JobId : Live(i) => conv'.state = "ACTIVE" /\ i[1] = conv'.version
  BY <1>3 DEF ChatInv, Orderly, LiveJobsAreCurrent
<1>6. CASE UNCHANGED <<job, runner>>
  <2>1. TypeOK'
    BY <1>2, <1>3, <1>6 DEF ChatInv, TypeOK
  <2>2. Orderly' /\ SendsWell
    BY <1>5, <1>6 DEF ChatInv, Orderly, LiveJobsAreCurrent, RunnersAreOrderly, RunnerFits, Live, SendsWell
  <2>3. QED
    BY <2>1, <2>2 DEF StepOK, ChatInv
<1>7. ASSUME NEW pc \in {"queued", "dead"}, runner' = [runner EXCEPT ![j] = pc], job[j] = NoJob,
             job' = [job EXCEPT ![j] = [state |-> "PENDING", attempts |-> 0]]
      PROVE  StepOK
  <2>1. /\ job'[j].state = "PENDING" /\ runner'[j] = pc
        /\ \A i \in JobId \ {j} : job'[i] = job[i] /\ runner'[i] = runner[i]
        /\ runner' \in [JobId -> Pcs]
    BY <1>4, <1>7 DEF Pcs
  <2>2. job' \in [JobId -> RowType]
    <3>1. [state |-> "PENDING", attempts |-> 0] \in RowType
      BY DEF RowType, JobStates, LiveStates
    <3>2. QED
      BY <1>4, <1>7, <3>1
  <2>3. TypeOK'
    BY <1>2, <1>3, <2>1, <2>2 DEF ChatInv, TypeOK, RowType, Pcs
  <2>4. LiveJobsAreCurrent'
    BY <1>3, <1>5, <2>1 DEF LiveJobsAreCurrent, Live
  <2>5. RunnersAreOrderly' /\ RunnerFits' /\ SendsWell
    BY <2>1 DEF ChatInv, Orderly, RunnersAreOrderly, RunnerFits, SendsWell, Awaits, Works, Live
  <2>6. QED
    BY <2>3, <2>4, <2>5 DEF StepOK, ChatInv, Orderly
<1>8. QED
  BY <1>2, <1>6, <1>7, RowFacts

LEMMA ResolveKeeps == ASSUME ChatInv, Resolve PROVE StepOK
<1>1. /\ job' = Cancelled /\ conv' \in {conv, [conv EXCEPT !.state = "RESOLVED"]}
      /\ UNCHANGED <<turns, checked, answers, failure, runner, restarts, deliveries, notices>>
  BY DEF Resolve, outbox
<1>2. \A i \in JobId : /\ job[i] \in RowType
                       /\ Live(i) => job'[i] = [job[i] EXCEPT !.state = "CANCELLED"]
                       /\ ~Live(i) => job'[i] = job[i]
  BY <1>1 DEF Cancelled, ChatInv, TypeOK, RowType, Orderly, LiveJobsAreCurrent
<1>3. job' \in [JobId -> RowType] /\ \A i \in JobId : Live(i) => job'[i].state = "CANCELLED"
  BY <1>1, <1>2 DEF Cancelled, RowType, JobStates
<1>4. TypeOK'
  BY <1>1, <1>3 DEF ChatInv, TypeOK, RowType
<1>5. \A i \in JobId : ~Live(i)'
  BY <1>2, <1>3 DEF Live, LiveStates
<1>6. RunnersAreOrderly' /\ RunnerFits'
  <2>1. \A i \in JobId : job'[i].state # "RUNNING"
    BY <1>5 DEF Live, LiveStates
  <2>2. \A i \in JobId : runner[i] \in Works => job'[i].state \in {"RUNNING", "CANCELLED"}
    BY <1>2, <1>3 DEF ChatInv, Orderly, RunnerFits, Live, LiveStates
  <2>3. QED
    BY <1>1, <1>5, <2>1, <2>2 DEF ChatInv, Orderly, RunnersAreOrderly, RunnerFits
<1>7. QED
  BY <1>1, <1>4, <1>5, <1>6 DEF StepOK, ChatInv, Orderly, LiveJobsAreCurrent, SendsWell

LEMMA RestartKeeps == ASSUME ChatInv, Restart PROVE StepOK
<1>1. /\ UNCHANGED <<conv, turns, checked, answers, failure, deliveries, notices>> /\ restarts' = restarts + 1
      /\ runner' = [i \in JobId |-> IF Live(i) THEN "queued" ELSE "none"]
      /\ job' = [i \in JobId |-> IF job[i].state = "RUNNING" THEN [job[i] EXCEPT !.state = "RETRYING"] ELSE job[i]]
  BY DEF Restart, Recovered, conversation, outbox
<1>2. \A i \in JobId : /\ job[i] \in RowType
                       /\ job'[i].state = (IF job[i].state = "RUNNING" THEN "RETRYING" ELSE job[i].state)
  BY <1>1 DEF ChatInv, TypeOK, RowType
<1>3. job' \in [JobId -> RowType] /\ runner' \in [JobId -> Pcs]
  BY <1>1, <1>2 DEF RowType, JobStates, LiveStates, Pcs
<1>4. TypeOK'
  BY <1>1, <1>3 DEF ChatInv, TypeOK, RowType, Pcs
<1>5. \A i \in JobId : (Live(i)' <=> Live(i)) /\ job'[i].state # "RUNNING"
  BY <1>2 DEF Live, LiveStates
<1>6. \A i \in JobId : runner'[i] \notin Awaits \cup Works /\ (Live(i) => runner'[i] = "queued") /\ runner'[i] \notin {"send", "notice"}
  BY <1>1 DEF Awaits, Works
<1>7. QED
  BY <1>1, <1>4, <1>5, <1>6
     DEF StepOK, ChatInv, Orderly, LiveJobsAreCurrent, RunnersAreOrderly, RunnerFits, SendsWell

LEMMA ChatStep == ASSUME ChatInv, [Next]_vars PROVE StepOK
<1>1. CASE UNCHANGED vars
  BY <1>1 DEF vars, StepOK, SendsWell, ChatInv, TypeOK, Orderly, LiveJobsAreCurrent, RunnersAreOrderly,
              RunnerFits, Live
<1>2. QED
  BY <1>1, WaitKeeps, ClaimKeeps, WorkKeeps, AttemptEndKeeps, QuestionKeeps, ResolveKeeps, RestartKeeps
     DEF Next, Run

LEMMA ChatInvariant == Spec => []ChatInv
<1>1. ASSUME ChatInv, [Next]_vars PROVE ChatInv'
  BY <1>1, ChatStep DEF StepOK
<1>2. QED
  BY InitChat, <1>1, PTL DEF Spec

(* Contexts, jobs and runners have their types.                            *)
THEOREM ChatTypeCorrect == Spec => []TypeOK
<1>1. ChatInv => TypeOK
  BY DEF ChatInv
<1>2. QED
  BY ChatInvariant, <1>1, PTL

(* Nothing of a context that was closed is still to be analysed, retried   *)
(* or recovered, for any posts, contexts, attempts and restarts.           *)
THEOREM NothingOutlivesItsContext == Spec => []LiveJobsAreCurrent
<1>1. ChatInv => LiveJobsAreCurrent
  BY DEF ChatInv, Orderly
<1>2. QED
  BY ChatInvariant, <1>1, PTL

(* A user's runners exclude each other, and a job that waits has one.      *)
THEOREM OneRunnerAtATime == Spec => []RunnersAreOrderly
<1>1. ChatInv => RunnersAreOrderly
  BY DEF ChatInv, Orderly
<1>2. QED
  BY ChatInvariant, <1>1, PTL

(* What was cancelled during the analysis is not sent.                     *)
THEOREM CancelledIsNotSent == Spec => SendsOnlyRunning
<1>1. ASSUME ChatInv, [Next]_vars PROVE [SendsWell]_vars
  BY <1>1, ChatStep DEF StepOK
<1>2. QED
  BY ChatInvariant, <1>1, PTL DEF Spec, SendsOnlyRunning, SendsWell

----------------------------------------------------------------------------
(* What was delivered against what was tried: an attempt that is under way *)
(* has not been delivered yet, and a job that waits has an attempt left,   *)
(* for every restart one more.                                             *)
Counted(j) ==
    /\ job[j].state = "COMPLETED" => deliveries[j] > 0
    /\ deliveries[j] <= job[j].attempts
    /\ job[j].attempts <= MaxAttempts + restarts
    /\ runner[j] \in Works => deliveries[j] < job[j].attempts
    /\ job[j].state \in {"PENDING", "RETRYING"} => job[j].attempts < MaxAttempts + restarts
CountInv == \A j \in JobId : Counted(j)

LEMMA InitCounted == Init => CountInv
<1> SUFFICES ASSUME Init, NEW j \in JobId PROVE Counted(j)
  BY DEF CountInv
<1>1. job[j] = NoJob /\ runner[j] = "none" /\ deliveries[j] = 0 /\ restarts = 0
  BY DEF Init
<1>2. NoJob.state = "NONE" /\ NoJob.attempts = 0 /\ "none" \notin Works
  BY DEF NoJob, Works
<1>3. QED
  BY <1>1, <1>2, AttemptsAssumption DEF Counted

LEMMA CountFacts ==
  ASSUME ChatInv, CountInv, NEW j \in JobId
  PROVE  /\ Counted(j) /\ job[j].attempts \in Nat /\ deliveries[j] \in Nat
         /\ restarts \in Nat /\ MaxAttempts \in Nat \ {0}
BY RowFacts, AttemptsAssumption DEF ChatInv, TypeOK, CountInv

(* One job's row, runner and deliveries are new, as row, pc and n.         *)
LEMMA OneCount ==
  ASSUME ChatInv, CountInv, NEW j \in JobId, NEW row, NEW pc, NEW n,
         job' = [job EXCEPT ![j] = row], runner' = [runner EXCEPT ![j] = pc],
         deliveries' = [deliveries EXCEPT ![j] = n], restarts' = restarts,
         row.state = "COMPLETED" => n > 0,
         n <= row.attempts,
         row.attempts <= MaxAttempts + restarts,
         pc \in Works => n < row.attempts,
         row.state \in {"PENDING", "RETRYING"} => row.attempts < MaxAttempts + restarts
  PROVE  CountInv'
<1>1. job \in [JobId -> RowType] /\ runner \in [JobId -> Pcs] /\ deliveries \in [JobId -> Nat]
  BY DEF ChatInv, TypeOK, RowType, Pcs
<1>2. ASSUME NEW i \in JobId PROVE Counted(i)'
  <2>1. CASE i = j
    <3>1. job'[i] = row /\ runner'[i] = pc /\ deliveries'[i] = n
      BY <1>1, <2>1
    <3>2. QED
      BY <3>1 DEF Counted
  <2>2. CASE i # j
    <3>1. job'[i] = job[i] /\ runner'[i] = runner[i] /\ deliveries'[i] = deliveries[i]
      BY <1>1, <2>2
    <3>2. QED
      BY <3>1 DEF Counted, CountInv
  <2>3. QED
    BY <2>1, <2>2
<1>3. QED
  BY <1>2 DEF CountInv

LEMMA HandlerCounts ==
  ASSUME ChatInv, CountInv, NEW j \in JobId, NEW row \in RowType, NEW n \in Nat,
         row.attempts = job[j].attempts,
         row.state \in {"RUNNING", "COMPLETED", "CANCELLED"},
         row.state = "COMPLETED" => n > 0, n <= row.attempts,
         HandleFailure(j, row), deliveries' = [deliveries EXCEPT ![j] = n],
         restarts' = restarts
  PROVE  CountInv'
<1>1. PICK after \in {row, AfterFail(row)}, pc \in {"dead", "loop", "notice"} :
         job' = [job EXCEPT ![j] = after] /\ runner' = [runner EXCEPT ![j] = pc]
  BY DEF HandleFailure, Goto
<1>2. /\ Counted(j) /\ job[j].attempts \in Nat /\ restarts \in Nat
      /\ MaxAttempts \in Nat \ {0}
  BY CountFacts
<1>3. after.attempts = row.attempts /\ (after.state = "COMPLETED" => n > 0)
  BY <1>1 DEF AfterFail, RowType
<1>4. after.state \in {"PENDING", "RETRYING"} => row.attempts < MaxAttempts
  BY <1>1, <1>2 DEF AfterFail, RowType
<1>5. pc \notin Works
  BY DEF Works
<1>6. /\ row.attempts <= MaxAttempts + restarts
      /\ row.attempts < MaxAttempts => row.attempts < MaxAttempts + restarts
  BY <1>2 DEF Counted
<1>7. QED
  BY <1>1, <1>3, <1>4, <1>5, <1>6, OneCount

LEMMA EndCounts ==
  ASSUME ChatInv, CountInv, NEW j \in JobId, Raise(j) \/ Sent(j) \/ NotSent(j)
  PROVE  CountInv'
<1>1. runner[j] \in Works /\ restarts' = restarts
  BY DEF Raise, Sent, NotSent, At, Works, conversation, outbox
<1>2. /\ Counted(j) /\ job[j].attempts \in Nat /\ deliveries[j] \in Nat
      /\ restarts \in Nat /\ MaxAttempts \in Nat \ {0}
  BY CountFacts
<1>3. deliveries[j] < job[j].attempts /\ job[j].attempts <= MaxAttempts + restarts
  BY <1>1, <1>2 DEF Counted
<1>4. /\ job[j] \in RowType /\ job[j].state \in {"RUNNING", "CANCELLED"}
      /\ Completed(job[j]) \in RowType /\ Completed(job[j]).attempts = job[j].attempts
      /\ Completed(job[j]).state \in {"COMPLETED", "CANCELLED"}
  BY <1>1, RowFacts DEF Completed, RowType, JobStates, ChatInv, Orderly, RunnerFits
<1>5. PICK n \in {deliveries[j], deliveries[j] + 1} :
         /\ deliveries' = [deliveries EXCEPT ![j] = n]
         /\ Sent(j) => n = deliveries[j] + 1
  <2>1. deliveries = [deliveries EXCEPT ![j] = deliveries[j]]
    BY DEF ChatInv, TypeOK
  <2>2. deliveries' \in {deliveries, [deliveries EXCEPT ![j] = deliveries[j] + 1]}
        /\ (Sent(j) => deliveries' = [deliveries EXCEPT ![j] = deliveries[j] + 1])
    BY DEF Raise, Sent, NotSent, outbox
  <2>3. QED
    BY <2>1, <2>2
<1>6. n \in Nat /\ n <= job[j].attempts /\ (Sent(j) => n > 0)
  BY <1>2, <1>3, <1>5
<1>7. CASE HandleFailure(j, job[j])
  BY <1>1, <1>4, <1>5, <1>6, <1>7, HandlerCounts
<1>8. CASE Sent(j) /\ HandleFailure(j, Completed(job[j]))
  BY <1>1, <1>4, <1>5, <1>6, <1>8, HandlerCounts
<1>9. CASE Sent(j) /\ job' = [job EXCEPT ![j] = Completed(@)] /\ Goto(j, "none")
  <2>1. job' = [job EXCEPT ![j] = Completed(job[j])] /\ runner' = [runner EXCEPT ![j] = "none"]
    BY <1>9 DEF Goto
  <2>2. "none" \notin Works
    BY DEF Works
  <2>3. QED
    BY <1>1, <1>3, <1>4, <1>5, <1>6, <1>9, <2>1, <2>2, OneCount
<1>10. QED
  BY <1>7, <1>8, <1>9 DEF Raise, Sent, NotSent

LEMMA ClaimCounts ==
  ASSUME ChatInv, CountInv, NEW j \in JobId, Claim(j) PROVE CountInv'
<1>1. /\ Counted(j) /\ job[j].attempts \in Nat /\ deliveries[j] \in Nat
      /\ restarts \in Nat /\ MaxAttempts \in Nat \ {0}
  BY CountFacts
<1>2. PICK n \in Nat : n = job[j].attempts + 1
  BY <1>1
<1>3. PICK row : /\ job' = [job EXCEPT ![j] = row]
                 /\ row.state = "RUNNING" /\ row.attempts = n
  <2>1. job' = [job EXCEPT ![j] = [state |-> "RUNNING", attempts |-> n]]
    BY <1>2 DEF Claim
  <2>2. PICK row : row = [state |-> "RUNNING", attempts |-> n]
    OBVIOUS
  <2>3. row.state = "RUNNING" /\ row.attempts = n
    BY <2>2
  <2>4. QED
    BY <2>1, <2>2, <2>3
<1>4. PICK pc : runner' = [runner EXCEPT ![j] = pc]
  BY DEF Claim, FindAnswer, Deliver, Goto
<1>5. deliveries' = [deliveries EXCEPT ![j] = deliveries[j]] /\ restarts' = restarts
  BY DEF Claim, outbox, ChatInv, TypeOK
<1>6. n <= MaxAttempts + restarts /\ deliveries[j] < n
  <2>1. job[j].attempts < MaxAttempts + restarts /\ deliveries[j] <= job[j].attempts
    BY <1>1 DEF Claim, Counted
  <2>2. QED
    BY <1>1, <1>2, <2>1
<1>7. /\ row.state = "COMPLETED" => deliveries[j] > 0
      /\ deliveries[j] <= row.attempts /\ row.attempts <= MaxAttempts + restarts
      /\ pc \in Works => deliveries[j] < row.attempts
      /\ row.state \in {"PENDING", "RETRYING"} => row.attempts < MaxAttempts + restarts
  BY <1>1, <1>3, <1>6
<1>8. QED
  BY <1>3, <1>4, <1>5, <1>7, OneCount

(* A runner that goes on without having claimed anything.                  *)
LEMMA RestCounts ==
  ASSUME ChatInv, CountInv, NEW j \in JobId,
         \/ Acquire(j) \/ Return(j) \/ Die(j) \/ Notice(j)
         \/ Ingested(j) \/ Answered(j)
  PROVE  CountInv'
<1>1. UNCHANGED <<job, deliveries, restarts>>
  BY DEF Acquire, Return, Die, Notice, Ingested, Answered, outbox
<1>2. PICK pc : /\ runner' = [runner EXCEPT ![j] = pc]
                /\ pc \in Works => runner[j] \in Works
  BY DEF Acquire, Return, Die, Notice, Ingested, Answered, FindAnswer, Deliver, Goto, At,
     Works
<1>3. /\ Counted(j) /\ job' = [job EXCEPT ![j] = job[j]]
      /\ deliveries' = [deliveries EXCEPT ![j] = deliveries[j]]
  BY <1>1, RowFacts, CountFacts DEF ChatInv, TypeOK
<1>4. QED
  BY <1>1, <1>2, <1>3, OneCount DEF Counted

LEMMA CountStep == ASSUME ChatInv, CountInv, [Next]_vars PROVE CountInv'
<1>1. CASE UNCHANGED vars
  BY <1>1 DEF vars, CountInv, Counted
<1>2. ASSUME NEW p \in Posts, Question(p) PROVE CountInv'
  <2>1. UNCHANGED <<deliveries, restarts>>
    BY <1>2 DEF Question, outbox
  <2>2. ASSUME NEW i \in JobId
        PROVE  \/ job'[i] = job[i] /\ runner'[i] = runner[i]
               \/ /\ job[i] = NoJob /\ job'[i] = [state |-> "PENDING", attempts |-> 0]
                  /\ runner'[i] \in {"queued", "dead"}
    <3>1. job \in [JobId -> RowType] /\ runner \in [JobId -> Pcs]
      BY DEF ChatInv, TypeOK, RowType, Pcs
    <3>2. QED
      BY <1>2, <3>1 DEF Question, Goto
  <2>3. ASSUME NEW i \in JobId PROVE Counted(i)'
    <3>1. CASE job'[i] = job[i] /\ runner'[i] = runner[i]
      BY <2>1, <3>1 DEF CountInv, Counted
    <3>2. CASE /\ job[i] = NoJob /\ job'[i] = [state |-> "PENDING", attempts |-> 0]
               /\ runner'[i] \in {"queued", "dead"}
      <4>1. job[i].attempts = 0 /\ runner'[i] \notin Works
        BY <3>2 DEF NoJob, Works
      <4>2. Counted(i) /\ deliveries[i] \in Nat /\ restarts \in Nat /\ MaxAttempts \in Nat \ {0}
        BY CountFacts
      <4>3. job'[i].attempts = 0 /\ job'[i].state = "PENDING" /\ deliveries'[i] = 0
        BY <2>1, <3>2, <4>1, <4>2 DEF Counted
      <4>4. QED
        BY <2>1, <4>1, <4>2, <4>3 DEF Counted
    <3>3. QED
      BY <2>2, <3>1, <3>2
  <2>4. QED
    BY <2>3 DEF CountInv
<1>3. CASE Resolve
  <2>1. UNCHANGED <<deliveries, restarts, runner>> /\ job' = Cancelled
    BY <1>3 DEF Resolve, outbox
  <2>2. ASSUME NEW i \in JobId PROVE Counted(i)'
    <3>1. job[i] \in RowType
      BY RowFacts
    <3>2. job'[i] = job[i] \/ job'[i] = [job[i] EXCEPT !.state = "CANCELLED"]
      BY <2>1 DEF Cancelled
    <3>3. /\ job'[i].attempts = job[i].attempts
          /\ job'[i].state = job[i].state \/ job'[i].state = "CANCELLED"
      BY <3>1, <3>2 DEF RowType
    <3>4. QED
      BY <2>1, <3>3 DEF CountInv, Counted
  <2>3. QED
    BY <2>2 DEF CountInv
<1>4. CASE Restart
  <2>1. deliveries' = deliveries /\ restarts' = restarts + 1
    BY <1>4 DEF Restart, outbox
  <2>2. ASSUME NEW i \in JobId PROVE Counted(i)'
    <3>1. /\ job[i] \in RowType /\ Counted(i) /\ job[i].attempts \in Nat
          /\ deliveries[i] \in Nat /\ restarts \in Nat /\ MaxAttempts \in Nat \ {0}
      BY RowFacts, CountFacts
    <3>2. runner'[i] \notin Works
      BY <1>4 DEF Restart, Recovered, Works
    <3>3. job'[i].attempts = job[i].attempts /\ (job'[i].state = "COMPLETED" => job[i].state = "COMPLETED")
      BY <1>4, <3>1 DEF Restart, RowType
    <3>4. job[i].attempts < MaxAttempts + restarts' /\ job[i].attempts <= MaxAttempts + restarts'
      <4>1. job[i].attempts <= MaxAttempts + restarts
        BY <3>1 DEF Counted
      <4>2. QED
        BY <2>1, <3>1, <4>1
    <3>5. QED
      BY <2>1, <3>1, <3>2, <3>3, <3>4 DEF Counted
  <2>3. QED
    BY <2>2 DEF CountInv
<1>5. QED
  BY <1>1, <1>2, <1>3, <1>4, EndCounts, ClaimCounts, RestCounts DEF Next, Run

(* An answer is delivered at most once by an attempt and at least once     *)
(* before its job is completed, and the attempts have a limit, whatever    *)
(* fails and however often the gateway is restarted.                       *)
THEOREM AttemptsAreCounted == Spec => []DeliveriesMatchAttempts
<1>1. ASSUME ChatInv, CountInv, [Next]_vars PROVE CountInv'
  BY <1>1, CountStep
<1>2. CountInv => DeliveriesMatchAttempts
  BY DEF CountInv, Counted, DeliveriesMatchAttempts
<1>3. QED
  BY InitCounted, ChatInvariant, <1>1, <1>2, PTL DEF Spec
=============================================================================

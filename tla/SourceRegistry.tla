--------------------------- MODULE SourceRegistry ---------------------------
(***************************************************************************)
(* The versions of one source and the jobs that index them: the source     *)
(* methods of PostgresStore (app/postgres_store.py).  Every method is one  *)
(* transaction under READ COMMITTED, except run_job: it claims its job,    *)
(* builds the index outside any transaction, and activates the version in  *)
(* a second one, whose statements may see what others commit meanwhile.    *)
(* That one is split in two: BeginActivation takes the row locks and the   *)
(* snapshot of its UPDATEs, CommitActivation is its commit.                *)
(*                                                                         *)
(* A version is named by its commit; idempotency keys and the reviewer's   *)
(* form are left to the caller (a repeated call changes nothing).          *)
(* rag_source.state is never read, and rag_chunk.active is false only for  *)
(* versions that are WITHDRAWN, which retrieve excludes: neither is here.  *)
(***************************************************************************)
EXTENDS Integers, Sequences, FiniteSets

CONSTANTS
    Commits,  \* the commits that may be registered
    MaxJobs   \* bound: rows of rag_ingestion_job

ASSUME JobsAssumption == MaxJobs \in Nat

VARIABLES
    version,  \* rag_source_version.state by commit; "NONE": no row
    created,  \* the commits that have a row, oldest first
    indexed,  \* the commits with rows in rag_chunk
    job,      \* the rows of rag_ingestion_job, oldest first
    run,      \* by job: where its run_job is, and the versions its UPDATE saw
    overlap   \* history: versions activated while another activation was open

registryVars == <<version, created, indexed, job, run, overlap>>

JobIds == 1..MaxJobs
Jobs == 1..Len(job)
NotRunning == [pc |-> "none", seen |-> {}]
NewJob(type, c) == [type |-> type, commit |-> c, state |-> "PENDING", declared |-> FALSE]

Position(c) == CHOOSE i \in 1..Len(created) : created[i] = c
Newest(S) == CHOOSE c \in S : \A d \in S : Position(d) <= Position(c)
InState(s) == {c \in Commits : version[c] = s}
Active == InState("ACTIVE")

Open(j) == run[j].pc = "open"
Activating(j) == Open(j) /\ job[j].type = "INGESTION"
(* The versions whose rows an open activation has locked: its own and the  *)
(* ones it withdraws.                                                      *)
Locked == UNION {{job[j].commit} \cup run[j].seen : j \in {k \in Jobs : Open(k)}}

RegistryInit ==
    /\ version = [c \in Commits |-> "NONE"]
    /\ created = <<>>
    /\ indexed = {}
    /\ job = <<>>
    /\ run = [j \in JobIds |-> NotRunning]
    /\ overlap = {}

Register(c) ==
    /\ version[c] = "NONE"
    /\ version' = [version EXCEPT ![c] = "REGISTERED"]
    /\ created' = Append(created, c)
    /\ UNCHANGED <<indexed, job, run, overlap>>

(* record_scan: the inventory of the scan becomes the version's.           *)
Scan(c) ==
    /\ version[c] = "REGISTERED"
    /\ version' = [version EXCEPT ![c] = "QUARANTINED"]
    /\ UNCHANGED <<created, indexed, job, run, overlap>>

(* approve_version, by the reviewer, who accepts what the scan excluded or *)
(* does not approve.                                                       *)
Approve(c) ==
    /\ version[c] = "QUARANTINED"
    /\ version' = [version EXCEPT ![c] = "APPROVED"]
    /\ UNCHANGED <<created, indexed, job, run, overlap>>

(* create_ingestion: the newest APPROVED version, or else the newest       *)
(* ACTIVE one to be indexed again.                                         *)
Candidates == IF InState("APPROVED") # {} THEN InState("APPROVED") ELSE Active
JobFor_Ingestion(c) == "INGESTION"               \* fault: out of service meanwhile
JobFor(c) == IF version[c] = "ACTIVE" THEN "REINDEX" ELSE "INGESTION"

CreateIngestion ==
    /\ Len(job) < MaxJobs
    /\ Candidates # {}
    /\ LET c == Newest(Candidates) IN
       /\ c \notin Locked
       /\ job' = Append(job, NewJob(JobFor(c), c))
       /\ version' = IF JobFor(c) = "INGESTION" THEN [version EXCEPT ![c] = "INDEXING"]
                     ELSE version
    /\ UNCHANGED <<created, indexed, run, overlap>>

(* What an activation leaves of the versions: those it saw ACTIVE, and     *)
(* that still are, are withdrawn.                                          *)
Activated(c, seen) ==
    [d \in Commits |-> IF d = c THEN "ACTIVE"
                       ELSE IF d \in seen /\ version[d] = "ACTIVE" THEN "WITHDRAWN"
                       ELSE version[d]]
OverlapWith(c, others) == IF others = {} THEN overlap ELSE overlap \cup {c}

(* complete_job: an INGESTION job is declared done or failed from outside. *)
MayComplete(j) ==
    /\ job[j].type = "INGESTION"
    /\ job[j].state \in {"PENDING", "RUNNING"}
    /\ version[job[j].commit] = "INDEXING"
    /\ job[j].commit \notin Locked

DeclareIndexed(j) ==
    /\ MayComplete(j)
    /\ Active \cap Locked = {}
    /\ version' = Activated(job[j].commit, Active)
    /\ job' = [job EXCEPT ![j].state = "SUCCEEDED", ![j].declared = TRUE]
    /\ overlap' = OverlapWith(job[j].commit, {k \in Jobs : Activating(k)})
    /\ UNCHANGED <<created, indexed, run>>

DeclareFailed(j) ==
    /\ MayComplete(j)
    /\ version' = [version EXCEPT ![job[j].commit] = "APPROVED"]
    /\ job' = [job EXCEPT ![j].state = "FAILED"]
    /\ UNCHANGED <<created, indexed, run, overlap>>

(* withdraw_source: every version, whatever its state; it waits for open   *)
(* activations, whose rows it updates too.                                 *)
Withdraw ==
    /\ Len(job) < MaxJobs
    /\ created # <<>>
    /\ Locked = {}
    /\ version' = [c \in Commits |-> IF version[c] = "NONE" THEN "NONE" ELSE "WITHDRAWN"]
    /\ job' = Append(job, NewJob("DELETION", created[Len(created)]))
    /\ UNCHANGED <<created, indexed, run, overlap>>

(* run_job, first transaction.                                             *)
ClaimJob(j) ==
    /\ job[j].state = "PENDING"
    /\ job' = [job EXCEPT ![j].state = "RUNNING"]
    /\ run' = [run EXCEPT ![j].pc = IF job[j].type = "DELETION" THEN "deleting" ELSE "building"]
    /\ UNCHANGED <<version, created, indexed, overlap>>

(* run_job of a DELETION: the chunks of every version the source has now.  *)
DeleteIndex(j) ==
    /\ run[j].pc = "deleting"
    /\ indexed' = {}
    /\ job' = [job EXCEPT ![j].state = "SUCCEEDED"]
    /\ run' = [run EXCEPT ![j] = NotRunning]
    /\ UNCHANGED <<version, created, overlap>>

MayActivate_Unchecked(j) == TRUE                 \* fault
MayActivate(j) ==
    version[job[j].commit] = IF job[j].type = "REINDEX" THEN "ACTIVE" ELSE "INDEXING"
Superseded(j) == IF job[j].type = "REINDEX" THEN {} ELSE Active

BeginActivation(j) ==
    /\ run[j].pc = "building"
    /\ MayActivate(j)
    /\ job[j].commit \notin Locked
    /\ run' = [run EXCEPT ![j] = [pc |-> "open", seen |-> Superseded(j)]]
    /\ UNCHANGED <<version, created, indexed, job, overlap>>

CommitActivation(j) ==
    /\ Open(j)
    /\ \A k \in Jobs \ {j} : Open(k) => job[k].commit \notin run[j].seen
    /\ version' = Activated(job[j].commit, run[j].seen)
    /\ indexed' = indexed \cup {job[j].commit}
    /\ job' = [job EXCEPT ![j].state = "SUCCEEDED"]
    /\ run' = [run EXCEPT ![j] = NotRunning]
    /\ overlap' = IF job[j].type = "REINDEX" THEN overlap
                  ELSE OverlapWith(job[j].commit, {k \in Jobs \ {j} : Activating(k)})
    /\ UNCHANGED created

(* The build or the activation raises (a provider, a partial index, a      *)
(* version that is not in the state it has to be in, a deadlock): the      *)
(* transaction is rolled back and the handler reached.                     *)
RaiseFailure(j) ==
    /\ run[j].pc \in {"building", "open"}
    /\ run' = [run EXCEPT ![j] = [pc |-> "failing", seen |-> {}]]
    /\ UNCHANGED <<version, created, indexed, job, overlap>>

AfterFailedRun_Kept(j) == version                \* fault: left INDEXING
AfterFailedRun_Unchecked(j) ==                   \* fault: whatever its state
    IF job[j].type # "REINDEX" THEN [version EXCEPT ![job[j].commit] = "APPROVED"] ELSE version
AfterFailedRun(j) ==
    IF job[j].type # "REINDEX" /\ version[job[j].commit] = "INDEXING"
    THEN [version EXCEPT ![job[j].commit] = "APPROVED"]
    ELSE version

RecordRunFailure(j) ==
    /\ run[j].pc = "failing"
    /\ AfterFailedRun(j) = version \/ job[j].commit \notin Locked
    /\ version' = AfterFailedRun(j)
    /\ job' = [job EXCEPT ![j].state = "FAILED"]
    /\ run' = [run EXCEPT ![j] = NotRunning]
    /\ UNCHANGED <<created, indexed, overlap>>

(* The gateway stops, or the handler itself fails: what was not committed  *)
(* is gone and the job stays RUNNING.                                      *)
CutOff(j) ==
    /\ run[j].pc # "none"
    /\ run' = [run EXCEPT ![j] = NotRunning]
    /\ UNCHANGED <<version, created, indexed, job, overlap>>

RunJob(j) ==
    \/ ClaimJob(j)
    \/ DeleteIndex(j)
    \/ BeginActivation(j)
    \/ CommitActivation(j)
    \/ RaiseFailure(j)
    \/ RecordRunFailure(j)
    \/ CutOff(j)

RegistryNext ==
    \/ \E c \in Commits : Register(c) \/ Scan(c) \/ Approve(c)
    \/ CreateIngestion
    \/ Withdraw
    \/ \E j \in Jobs : DeclareIndexed(j) \/ DeclareFailed(j) \/ RunJob(j)

RegistrySpec == RegistryInit /\ [][RegistryNext]_registryVars

----------------------------------------------------------------------------
(* Properties.                                                             *)

VersionState == {"NONE", "REGISTERED", "QUARANTINED", "APPROVED", "INDEXING",
                 "ACTIVE", "WITHDRAWN"}
JobType == [type : {"INGESTION", "REINDEX", "DELETION"}, commit : Commits,
            state : {"PENDING", "RUNNING", "SUCCEEDED", "FAILED"}, declared : BOOLEAN]
RunType == [pc : {"none", "deleting", "building", "open", "failing"}, seen : SUBSET Commits]

(* Every variable has its type; the rows are the commits created.          *)
RegistryTypeOK ==
    /\ version \in [Commits -> VersionState]
    /\ created \in Seq(Commits)
    /\ \A c \in Commits : version[c] # "NONE" <=> \E i \in 1..Len(created) : created[i] = c
    /\ indexed \subseteq Commits
    /\ job \in Seq(JobType)
    /\ Len(job) <= MaxJobs
    /\ run \in [JobIds -> RunType]
    /\ overlap \subseteq Commits

(* A version that was withdrawn, by a person or by its successor, never    *)
(* comes back, although the index of it may still be in the making.        *)
WithdrawnIsFinal ==
    [][\A c \in Commits : version[c] = "WITHDRAWN" => version'[c] = "WITHDRAWN"]_version

(* Once the DELETION job of a withdrawal has succeeded, none of the        *)
(* versions there were at the withdrawal has chunks, ever again: no run    *)
(* that was building when the source was withdrawn may put them back.      *)
Covered(j) == {created[i] : i \in 1..Position(job[j].commit)}
Purged(j) == job[j].type = "DELETION" /\ job[j].state = "SUCCEEDED"
WithdrawalPurges ==
    \A j \in Jobs : Purged(j) => Covered(j) \cap (indexed \cup Active) = {}

(* What is served stays until the source is withdrawn or another version   *)
(* takes over in the same step, with its index (docs/runbooks/             *)
(* parser-embedding-retrieval.md, section 7).  The exceptions: a successor *)
(* that was declared done from outside has no index, and a deletion that   *)
(* is run late, after the source was registered and activated again, takes *)
(* the index of a version that came after the withdrawal.                  *)
Served == Active \cap indexed
TakesOver(c) ==
    /\ version[c] = "INDEXING" /\ version'[c] = "ACTIVE"
    /\ c \in indexed' \/ \E j \in Jobs : job[j].commit = c /\ job'[j].declared
ServedUntilReplaced ==
    [][Served' \cap Served # Served =>
          \/ \A c \in Commits : version'[c] \in {"NONE", "WITHDRAWN"}
          \/ \E j \in Jobs : Purged(j)' /\ ~Purged(j) /\ Served \cap Covered(j) = {}
          \/ \E c \in Commits : TakesOver(c)]_registryVars

(* A version that is being indexed can get on: it has a job that is not    *)
(* over yet, whichever of its jobs ran, failed or was declared done.       *)
IndexingHasJob ==
    \A c \in InState("INDEXING") : \E j \in Jobs :
        job[j].commit = c /\ job[j].type = "INGESTION" /\ job[j].state \in {"PENDING", "RUNNING"}
=============================================================================

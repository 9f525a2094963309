---------------------------- MODULE MemoryRegistry ----------------------------
(***************************************************************************)
(* MemoryStore (app/store.py), the store the unit tests and the canary run *)
(* against, next to the one that is deployed: every call is made of both,  *)
(* one at a time, and what MemoryStore holds of the source is compared     *)
(* with SourceRegistry.  MemoryStore keeps its lock while a job runs: what *)
(* it does of run_job happens when the other store's is over.              *)
(*                                                                         *)
(* The comparison ends (parted) with a call the two answer differently:    *)
(* these are the cases in which the tests say nothing about the service.   *)
(***************************************************************************)
EXTENDS SourceRegistry

VARIABLES
    memory,  \* MemoryStore: the versions' states, the jobs, the commits with chunks
    parted   \* history: a call was answered differently

twinVars == <<registryVars, memory, parted>>

MemoryInit == memory = [version |-> [c \in Commits |-> "NONE"], indexed |-> {}, job |-> <<>>]

TwinInit ==
    /\ RegistryInit
    /\ MemoryInit
    /\ parted = FALSE

Quiet == \A j \in JobIds : run[j] = NotRunning

RegisterIn(c) == [memory EXCEPT !.version[c] = "REGISTERED"]
ScanIn(c) == [memory EXCEPT !.version[c] = "QUARANTINED"]
ApproveIn(c) == [memory EXCEPT !.version[c] = "APPROVED"]

(* create_ingestion: of the latest version or of none.                     *)
Latest == created[Len(created)]
CreateIngestionIn ==
    [memory EXCEPT !.job = Append(@, NewJob(JobFor(Latest), Latest)),
                   !.version[Latest] = IF @ = "APPROVED" THEN "INDEXING" ELSE @]

(* withdraw_source: the latest version.                                    *)
WithdrawIn ==
    [memory EXCEPT !.version[Latest] = "WITHDRAWN",
                   !.job = Append(@, NewJob("DELETION", Latest))]

ActivateIn(c) ==
    [d \in Commits |-> IF d = c THEN "ACTIVE"
                       ELSE IF memory.version[d] = "ACTIVE" THEN "WITHDRAWN"
                       ELSE memory.version[d]]

(* complete_job.                                                           *)
DeclareIndexedIn(j) ==
    [memory EXCEPT !.version = ActivateIn(job[j].commit),
                   !.job[j].state = "SUCCEEDED", !.job[j].declared = TRUE]
DeclareFailedIn(j) ==
    [memory EXCEPT !.version[job[j].commit] = "APPROVED", !.job[j].state = "FAILED"]

(* run_job: it looks at no version's state.                                *)
DeleteIndexIn(j) == [memory EXCEPT !.indexed = {}, !.job[j].state = "SUCCEEDED"]
IndexIn(j) ==
    [memory EXCEPT !.indexed = @ \cup {job[j].commit},
                   !.version = IF job[j].type = "REINDEX"
                               THEN [@ EXCEPT ![job[j].commit] = "ACTIVE"]
                               ELSE ActivateIn(job[j].commit),
                   !.job[j].state = "SUCCEEDED"]
FailureIn_Kept(j) == [memory EXCEPT !.job[j].state = "FAILED"]  \* fault: left INDEXING
FailureIn(j) ==
    [memory EXCEPT !.version[job[j].commit] = IF job[j].type = "REINDEX" THEN @ ELSE "APPROVED",
                   !.job[j].state = "FAILED"]

(* The calls, of both stores.                                              *)
Same(m) == memory' = m /\ UNCHANGED parted
Differs == UNCHANGED memory /\ parted' = TRUE

TwinCall ==
    \/ \E c \in Commits :
          \/ Register(c) /\ Same(RegisterIn(c))
          \/ Scan(c) /\ Same(ScanIn(c))
          \/ Approve(c) /\ Same(ApproveIn(c))
    \/ CreateIngestion /\ IF Newest(Candidates) = Latest THEN Same(CreateIngestionIn)
                          ELSE Differs
    \/ Withdraw /\ IF \A c \in Commits \ {Latest} : version[c] \in {"NONE", "WITHDRAWN"}
                   THEN Same(WithdrawIn) ELSE Differs
    \/ \E j \in Jobs : \/ DeclareIndexed(j) /\ Same(DeclareIndexedIn(j))
                       \/ DeclareFailed(j) /\ Same(DeclareFailedIn(j))
                       \/ ClaimJob(j) /\ UNCHANGED <<memory, parted>>

(* A run is over.  One that failed for the state of its version succeeds   *)
(* in memory, or fails there as well and puts the version back.            *)
TwinRun(j) ==
    \/ DeleteIndex(j) /\ Same(DeleteIndexIn(j))
    \/ (BeginActivation(j) \/ RaiseFailure(j)) /\ UNCHANGED <<memory, parted>>
    \/ CommitActivation(j) /\ Same(IndexIn(j))
    \/ RecordRunFailure(j) /\ IF MayActivate(j) THEN Same(FailureIn(j)) ELSE Differs

TwinNext ==
    /\ ~parted
    /\ (Quiet /\ TwinCall) \/ \E j \in Jobs : TwinRun(j)

TwinSpec == TwinInit /\ [][TwinNext]_twinVars

----------------------------------------------------------------------------
(* Properties.                                                             *)

(* Every variable has its type.                                            *)
TwinTypeOK ==
    /\ RegistryTypeOK
    /\ memory \in [version : [Commits -> VersionState], indexed : SUBSET Commits,
                   job : Seq(JobType)]
    /\ parted \in BOOLEAN

(* The store of the tests does what the deployed one does, but for three   *)
(* calls: an ingestion when the version to be indexed is not the latest,   *)
(* the withdrawal of a source with more than one version in use, and a run *)
(* whose version was withdrawn, or its job declared failed, before it.     *)
MemoryAgrees ==
    Quiet /\ ~parted =>
        memory = [version |-> version, indexed |-> indexed, job |-> job]
=============================================================================

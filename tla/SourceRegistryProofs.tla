------------------------ MODULE SourceRegistryProofs ------------------------
(***************************************************************************)
(* Theorems about SourceRegistry, Retrieval and MemoryRegistry, for any    *)
(* commits, any number of jobs and any queries.                            *)
(***************************************************************************)
EXTENDS Retrieval, MemoryRegistry, WellFoundedInduction, FiniteSetTheorems, TLAPS

(* The rows are the commits created, each once; and who runs is a job.     *)
RowsOK == \A c \in Commits : version[c] # "NONE" <=> \E i \in 1..Len(created) : created[i] = c
JobsRun == \A j \in JobIds : run[j].pc # "none" => j \in Jobs

(* What a run is at befits its job.                                        *)
RunFits ==
    \A j \in Jobs :
        /\ run[j].pc = "deleting" => job[j].type = "DELETION"
        /\ run[j].pc \in {"building", "open", "failing"} => job[j].type \in {"INGESTION", "REINDEX"}

(* While an activation is open its version is as it was found, and no      *)
(* other activation is open on it: the row is locked.                      *)
OpenHoldsRow ==
    /\ \A j \in Jobs : Open(j) => MayActivate(j)
    /\ \A j, k \in Jobs : Open(j) /\ Open(k) /\ job[j].commit = job[k].commit => j = k

RegistryInv == RegistryTypeOK /\ JobsRun /\ RunFits /\ OpenHoldsRow /\ IndexingHasJob

----------------------------------------------------------------------------
(* There is a newest commit in every set of rows.                          *)
LEMMA NewestIsOne ==
  ASSUME created \in Seq(Commits), RowsOK,
         NEW S \in SUBSET Commits, S # {}, \A c \in S : version[c] # "NONE"
  PROVE  Newest(S) \in S
<1>1. ASSUME NEW c \in S PROVE Position(c) \in 1..Len(created)
  <2>1. \E i \in 1..Len(created) : created[i] = c
    BY DEF RowsOK
  <2>2. QED
    BY <2>1 DEF Position
<1> DEFINE Distances == {Len(created) - Position(c) : c \in S}
<1>2. Distances \in SUBSET Nat /\ Distances # {}
  BY <1>1
<1> HIDE DEF Distances
<1>3. PICK n \in Distances : \A m \in Distances : n <= m
  <2> DEFINE Less == OpToRel(<, Nat)
  <2>1. IsWellFoundedOn(Less, Nat)
    BY NatLessThanWellFounded
  <2>2. \A m, n \in Nat : m < n => <<m, n>> \in Less
    BY DEF OpToRel
  <2> HIDE DEF Less
  <2>3. PICK n \in Distances : \A m \in Distances : <<m, n>> \notin Less
    BY <1>2, <2>1, WFMin
  <2>4. ASSUME NEW m \in Distances PROVE n <= m
    <3>1. m \in Nat /\ n \in Nat
      BY <1>2, <2>3
    <3>2. ~(m < n)
      BY <2>2, <2>3, <3>1
    <3>3. QED
      BY <3>1, <3>2
  <2>5. QED
    BY <2>3, <2>4
<1>4. PICK c \in S : n = Len(created) - Position(c)
  BY <1>3 DEF Distances
<1>5. ASSUME NEW d \in S PROVE Position(d) <= Position(c)
  <2>1. n <= Len(created) - Position(d)
    BY <1>3 DEF Distances
  <2>2. QED
    BY <1>1, <1>4, <2>1
<1>6. QED
  BY <1>5 DEF Newest

LEMMA InitRegistry == RegistryInit => RegistryInv
<1>1. SUFFICES ASSUME RegistryInit PROVE RegistryInv
  OBVIOUS
<1>2. Len(job) = 0 /\ Jobs = {} /\ Len(created) = 0 /\ InState("INDEXING") = {}
  BY <1>1 DEF RegistryInit, Jobs, InState
<1>3. NotRunning \in RunType /\ NotRunning.pc = "none"
  BY DEF NotRunning, RunType
<1>4. RegistryTypeOK
  <2>1. created \in Seq(Commits) /\ job \in Seq(JobType) /\ Len(job) <= MaxJobs
    BY <1>1, JobsAssumption DEF RegistryInit
  <2>2. /\ version \in [Commits -> VersionState]
        /\ \A c \in Commits : version[c] = "NONE"
    BY <1>1 DEF RegistryInit, VersionState
  <2>3. run \in [JobIds -> RunType]
    BY <1>1, <1>3 DEF RegistryInit
  <2>4. QED
    BY <1>1, <1>2, <2>1, <2>2, <2>3 DEF RegistryInit, RegistryTypeOK
<1>5. JobsRun
  BY <1>1, <1>3 DEF RegistryInit, JobsRun
<1>6. QED
  BY <1>2, <1>4, <1>5 DEF RegistryInv, RunFits, OpenHoldsRow, IndexingHasJob

(* What is read of a job and of its run.                                   *)
LEMMA JobFacts ==
  ASSUME RegistryInv, NEW j \in Jobs
  PROVE  /\ j \in JobIds /\ j \in 1..Len(job) /\ Len(job) \in Nat
         /\ job[j] \in JobType /\ job[j].commit \in Commits
         /\ run[j] \in RunType
         /\ version[job[j].commit] \in VersionState
<1>1. /\ job \in Seq(JobType) /\ Len(job) <= MaxJobs /\ MaxJobs \in Nat
      /\ run \in [JobIds -> RunType] /\ version \in [Commits -> VersionState]
  BY JobsAssumption DEF RegistryInv, RegistryTypeOK
<1>2. j \in 1..Len(job) /\ Len(job) \in Nat /\ job[j] \in JobType
  BY <1>1 DEF Jobs
<1>3. j \in JobIds
  BY <1>1, <1>2 DEF JobIds
<1>4. job[j].commit \in Commits
  BY <1>2 DEF JobType
<1>5. QED
  BY <1>1, <1>2, <1>3, <1>4

LEMMA RegisterKeeps == ASSUME RegistryInv, NEW c \in Commits, Register(c) PROVE RegistryInv'
<1>1. /\ version' = [version EXCEPT ![c] = "REGISTERED"] /\ version[c] = "NONE"
      /\ created' = Append(created, c)
      /\ UNCHANGED <<indexed, job, run, overlap>>
  BY DEF Register
<1>2. RegistryTypeOK'
  <2>1. created' \in Seq(Commits) /\ version' \in [Commits -> VersionState]
    BY <1>1 DEF RegistryInv, RegistryTypeOK, VersionState
  <2>2. ASSUME NEW d \in Commits
        PROVE  version'[d] # "NONE" <=> \E i \in 1..Len(created') : created'[i] = d
    <3>1. Len(created') = Len(created) + 1 /\ created'[Len(created) + 1] = c /\ Len(created) \in Nat
          /\ \A i \in 1..Len(created) : created'[i] = created[i]
      BY <1>1 DEF RegistryInv, RegistryTypeOK
    <3>2. version[d] # "NONE" <=> \E i \in 1..Len(created) : created[i] = d
      BY DEF RegistryInv, RegistryTypeOK
    <3>3. version'[d] # "NONE" <=> d = c \/ version[d] # "NONE"
      BY <1>1 DEF RegistryInv, RegistryTypeOK
    <3>4. QED
      BY <3>1, <3>2, <3>3
  <2>3. QED
    BY <1>1, <2>1, <2>2 DEF RegistryInv, RegistryTypeOK
<1>3. QED
  BY <1>1, <1>2, JobFacts
     DEF RegistryInv, RegistryTypeOK, JobsRun, RunFits, OpenHoldsRow, MayActivate, IndexingHasJob, InState, Jobs, Open

(* Steps that change a version or its job and no row.                      *)
LEMMA ScanKeeps ==
  ASSUME RegistryInv, NEW c \in Commits, Scan(c) \/ Approve(c)
  PROVE  RegistryInv'
<1>1. /\ version[c] \in {"REGISTERED", "QUARANTINED"}
      /\ version' \in {[version EXCEPT ![c] = s] : s \in {"QUARANTINED", "APPROVED"}}
      /\ UNCHANGED <<created, indexed, job, run, overlap>>
  BY DEF Scan, Approve
<1>2. RegistryTypeOK'
  BY <1>1 DEF RegistryInv, RegistryTypeOK, VersionState
<1>3. QED
  BY SMTT(30), <1>1, <1>2, JobFacts
     DEF RegistryInv, RegistryTypeOK, JobsRun, RunFits, OpenHoldsRow, MayActivate, IndexingHasJob, InState, Jobs, Open

(* A new job, for the newest candidate or for all versions.                *)
LEMMA AppendKeepsJobs ==
  ASSUME RegistryInv, NEW new \in JobType, job' = Append(job, new), Len(job) < MaxJobs, run' = run
  PROVE  /\ job' \in Seq(JobType) /\ Len(job') <= MaxJobs
         /\ Jobs' = Jobs \cup {Len(job) + 1} /\ Len(job) + 1 \notin Jobs
         /\ Len(job) + 1 \in JobIds
         /\ job'[Len(job) + 1] = new /\ run[Len(job) + 1].pc = "none"
         /\ \A j \in Jobs : job'[j] = job[j]
<1>1. job \in Seq(JobType) /\ Len(job) \in Nat /\ MaxJobs \in Nat
  BY JobsAssumption DEF RegistryInv, RegistryTypeOK
<1>2. /\ job' \in Seq(JobType) /\ Len(job') = Len(job) + 1
      /\ job'[Len(job) + 1] = new /\ \A j \in 1..Len(job) : job'[j] = job[j]
  BY <1>1
<1>3. Len(job) + 1 \in JobIds /\ Len(job) + 1 \notin Jobs /\ Jobs' = Jobs \cup {Len(job) + 1}
  BY <1>1, <1>2 DEF JobIds, Jobs
<1>4. run[Len(job) + 1].pc = "none"
  BY <1>3 DEF RegistryInv, JobsRun
<1>5. QED
  BY <1>1, <1>2, <1>3, <1>4 DEF Jobs

LEMMA CreateIngestionKeeps == ASSUME RegistryInv, CreateIngestion PROVE RegistryInv'
<1> DEFINE c == Newest(Candidates)
           n == Len(job) + 1
<1>1. c \in Candidates /\ c \in Commits
  <2>1. Candidates \subseteq Commits /\ Candidates # {} /\ \A d \in Candidates : version[d] # "NONE"
    BY DEF Candidates, InState, Active, CreateIngestion
  <2>2. created \in Seq(Commits) /\ RowsOK
    BY DEF RegistryInv, RegistryTypeOK, RowsOK
  <2>3. QED
    BY <2>1, <2>2, NewestIsOne
<1>2. /\ c \notin Locked
      /\ job' = Append(job, NewJob(JobFor(c), c)) /\ Len(job) < MaxJobs
      /\ version' = IF JobFor(c) = "INGESTION" THEN [version EXCEPT ![c] = "INDEXING"] ELSE version
      /\ UNCHANGED <<created, indexed, run, overlap>>
  BY DEF CreateIngestion
<1>3. version[c] \in {"APPROVED", "ACTIVE"} /\ (JobFor(c) = "INGESTION" <=> version[c] # "ACTIVE")
  BY <1>1 DEF Candidates, InState, Active, JobFor
<1> HIDE DEF c
<1>4. NewJob(JobFor(c), c) \in JobType
  BY <1>1 DEF NewJob, JobFor, JobType
<1>5. /\ job' \in Seq(JobType) /\ Len(job') <= MaxJobs
      /\ Jobs' = Jobs \cup {n} /\ n \notin Jobs /\ n \in JobIds
      /\ job'[n] = NewJob(JobFor(c), c) /\ run[n].pc = "none"
      /\ \A j \in Jobs : job'[j] = job[j]
  BY <1>2, <1>4, AppendKeepsJobs
<1> HIDE DEF n
<1>6. /\ \A d \in Commits \ {c} : version'[d] = version[d]
      /\ version' \in [Commits -> VersionState]
      /\ version'[c] # "NONE"
      /\ version'[c] = "INDEXING" => JobFor(c) = "INGESTION"
  BY <1>1, <1>2, <1>3 DEF RegistryInv, RegistryTypeOK, VersionState
<1>7. RegistryTypeOK'
  <2>1. \A d \in Commits : version'[d] # "NONE" <=> \E i \in 1..Len(created') : created'[i] = d
    BY <1>1, <1>2, <1>3, <1>6 DEF RegistryInv, RegistryTypeOK
  <2>2. QED
    BY <1>2, <1>5, <1>6, <2>1 DEF RegistryInv, RegistryTypeOK
<1>8. JobsRun' /\ RunFits'
  BY <1>2, <1>5 DEF RegistryInv, JobsRun, RunFits
<1>9. OpenHoldsRow'
  <2>1. ASSUME NEW j \in Jobs', Open(j)' PROVE j \in Jobs /\ Open(j) /\ job'[j] = job[j] /\ job[j].commit # c
    <3>1. j \in Jobs /\ Open(j) /\ job'[j] = job[j]
      BY <1>2, <1>5, <2>1 DEF Open
    <3>2. job[j].commit \in Locked
      BY <3>1 DEF Locked
    <3>3. QED
      BY <1>2, <3>1, <3>2
  <2>2. \A j \in Jobs' : Open(j)' => MayActivate(j)'
    BY <1>6, <2>1, JobFacts DEF RegistryInv, OpenHoldsRow, MayActivate
  <2>3. QED
    BY <2>1, <2>2 DEF RegistryInv, OpenHoldsRow
<1>10. IndexingHasJob'
  <2>1. ASSUME NEW d \in Commits, version'[d] = "INDEXING"
        PROVE  \E j \in Jobs' : /\ job'[j].commit = d /\ job'[j].type = "INGESTION"
                                /\ job'[j].state \in {"PENDING", "RUNNING"}
    <3>1. CASE d = c
      BY <1>5, <1>6, <2>1, <3>1 DEF NewJob
    <3>2. CASE d # c
      BY <1>5, <1>6, <2>1, <3>2 DEF RegistryInv, IndexingHasJob, InState
    <3>3. QED
      BY <3>1, <3>2
  <2>2. QED
    BY <2>1 DEF IndexingHasJob, InState
<1>11. QED
  BY <1>7, <1>8, <1>9, <1>10 DEF RegistryInv

LEMMA WithdrawKeeps == ASSUME RegistryInv, Withdraw PROVE RegistryInv'
<1> DEFINE c == created[Len(created)]
           n == Len(job) + 1
<1>1. c \in Commits
  BY DEF Withdraw, RegistryInv, RegistryTypeOK
<1>2. /\ Locked = {}
      /\ job' = Append(job, NewJob("DELETION", c)) /\ Len(job) < MaxJobs
      /\ version' = [d \in Commits |-> IF version[d] = "NONE" THEN "NONE" ELSE "WITHDRAWN"]
      /\ UNCHANGED <<created, indexed, run, overlap>>
  BY DEF Withdraw
<1> HIDE DEF c
<1>3. NewJob("DELETION", c) \in JobType
  BY <1>1 DEF NewJob, JobType
<1>4. /\ job' \in Seq(JobType) /\ Len(job') <= MaxJobs
      /\ Jobs' = Jobs \cup {n} /\ n \notin Jobs /\ n \in JobIds
      /\ job'[n] = NewJob("DELETION", c) /\ run[n].pc = "none"
      /\ \A j \in Jobs : job'[j] = job[j]
  BY <1>2, <1>3, AppendKeepsJobs
<1> HIDE DEF n
<1>5. RegistryTypeOK'
  <2>1. version' \in [Commits -> VersionState] /\ \A d \in Commits : version'[d] # "NONE" <=> version[d] # "NONE"
    BY <1>2 DEF VersionState
  <2>2. QED
    BY <1>2, <1>4, <2>1 DEF RegistryInv, RegistryTypeOK
<1>6. JobsRun' /\ RunFits'
  BY <1>2, <1>4 DEF RegistryInv, JobsRun, RunFits
<1>7. \A j \in Jobs' : ~Open(j)'
  <2>1. \A j \in Jobs : Open(j) => job[j].commit \in Locked
    BY DEF Locked
  <2>2. QED
    BY <1>2, <1>4, <2>1 DEF Open
<1>8. \A d \in Commits : version'[d] # "INDEXING"
  BY <1>2
<1>9. QED
  BY <1>5, <1>6, <1>7, <1>8 DEF RegistryInv, OpenHoldsRow, IndexingHasJob, InState

----------------------------------------------------------------------------
(* Steps about a job that is there.                                        *)

States == {"PENDING", "RUNNING", "SUCCEEDED", "FAILED"}
LEMMA JobChanges ==
  ASSUME RegistryInv, NEW j \in Jobs, NEW s \in States,
         job' = [job EXCEPT ![j].state = s] \/ job' = [job EXCEPT ![j].state = s, ![j].declared = TRUE]
  PROVE  /\ Jobs' = Jobs /\ job' \in Seq(JobType) /\ Len(job') <= MaxJobs
         /\ \A k \in Jobs : job'[k].type = job[k].type /\ job'[k].commit = job[k].commit
         /\ \A k \in Jobs \ {j} : job'[k] = job[k]
<1>1. job \in Seq(JobType) /\ Len(job) \in Nat /\ Len(job) <= MaxJobs /\ j \in 1..Len(job) /\ job[j] \in JobType
  BY DEF RegistryInv, RegistryTypeOK, Jobs
<1>2. PICK new \in JobType : /\ job' = [job EXCEPT ![j] = new]
                             /\ new.type = job[j].type /\ new.commit = job[j].commit
  <2>1. /\ [job[j] EXCEPT !.state = s] \in JobType
        /\ [job[j] EXCEPT !.state = s, !.declared = TRUE] \in JobType
    BY <1>1 DEF JobType, States
  <2>2. \/ job' = [job EXCEPT ![j] = [job[j] EXCEPT !.state = s]]
        \/ job' = [job EXCEPT ![j] = [job[j] EXCEPT !.state = s, !.declared = TRUE]]
    BY <1>1
  <2>3. /\ [job[j] EXCEPT !.state = s].type = job[j].type
        /\ [job[j] EXCEPT !.state = s].commit = job[j].commit
        /\ [job[j] EXCEPT !.state = s, !.declared = TRUE].type = job[j].type
        /\ [job[j] EXCEPT !.state = s, !.declared = TRUE].commit = job[j].commit
    BY <1>1 DEF JobType
  <2>4. QED
    BY <2>1, <2>2, <2>3
<1>3. job' \in Seq(JobType) /\ Len(job') = Len(job)
  BY <1>1, <1>2
<1>4. \A k \in Jobs : job'[k] = IF k = j THEN new ELSE job[k]
  BY <1>1, <1>2 DEF Jobs
<1>5. QED
  BY <1>1, <1>2, <1>3, <1>4 DEF Jobs

LEMMA RunChanges ==
  ASSUME RegistryInv, NEW j \in Jobs, NEW rr \in RunType, run' = [run EXCEPT ![j] = rr], Jobs' = Jobs
  PROVE  /\ run' \in [JobIds -> RunType] /\ run'[j] = rr
         /\ \A k \in Jobs \ {j} : run'[k] = run[k]
         /\ JobsRun'
<1>1. run \in [JobIds -> RunType] /\ Jobs \subseteq JobIds
  BY JobFacts DEF RegistryInv, RegistryTypeOK
<1>2. QED
  BY <1>1 DEF RegistryInv, JobsRun

(* The rows that are locked are as they were: what is open stays right.    *)
LEMMA LockedStay ==
  ASSUME RegistryInv, Jobs' = Jobs,
         \A k \in Jobs : job'[k].type = job[k].type /\ job'[k].commit = job[k].commit,
         \A k \in Jobs : Open(k)' => Open(k) /\ version'[job[k].commit] = version[job[k].commit]
  PROVE  OpenHoldsRow'
<1>1. \A k \in Jobs : Open(k)' => MayActivate(k)'
  BY DEF MayActivate, RegistryInv, OpenHoldsRow
<1>2. QED
  BY <1>1 DEF RegistryInv, OpenHoldsRow

(* A commit that is still being indexed keeps its job.                     *)
LEMMA JobStays ==
  ASSUME RegistryInv, Jobs' = Jobs, NEW j \in Jobs,
         \A k \in Jobs : job'[k].type = job[k].type /\ job'[k].commit = job[k].commit,
         \A k \in Jobs \ {j} : job'[k] = job[k],
         \A d \in Commits : version'[d] = "INDEXING" => version[d] = "INDEXING",
         \/ job'[j].state \in {"PENDING", "RUNNING"}
         \/ job[j].type # "INGESTION"
         \/ version'[job[j].commit] # "INDEXING"
  PROVE  IndexingHasJob'
<1>1. ASSUME NEW d \in Commits, version'[d] = "INDEXING"
      PROVE  \E k \in Jobs' : /\ job'[k].commit = d /\ job'[k].type = "INGESTION"
                              /\ job'[k].state \in {"PENDING", "RUNNING"}
  <2>1. PICK k \in Jobs : /\ job[k].commit = d /\ job[k].type = "INGESTION"
                          /\ job[k].state \in {"PENDING", "RUNNING"}
    BY <1>1 DEF RegistryInv, IndexingHasJob, InState
  <2>2. CASE k = j
    BY <1>1, <2>1, <2>2
  <2>3. CASE k # j
    BY <2>1, <2>3
  <2>4. QED
    BY <2>2, <2>3
<1>2. QED
  BY <1>1 DEF IndexingHasJob, InState

(* An activation touches its version and those that were ACTIVE.           *)
LEMMA ActivatedIs ==
  ASSUME NEW c \in Commits, NEW seen, version' = Activated(c, seen),
         version \in [Commits -> VersionState], version[c] # "NONE"
  PROVE  /\ version' \in [Commits -> VersionState] /\ version'[c] = "ACTIVE"
         /\ \A d \in Commits : /\ version'[d] # "NONE" <=> version[d] # "NONE"
                               /\ version'[d] = "INDEXING" => version[d] = "INDEXING"
                               /\ d # c /\ d \notin seen => version'[d] = version[d]
                               /\ d # c /\ version[d] # "ACTIVE" => version'[d] = version[d]
  BY DEF Activated, VersionState

LEMMA DeclareKeeps ==
  ASSUME RegistryInv, NEW j \in Jobs, DeclareIndexed(j) \/ DeclareFailed(j)
  PROVE  RegistryInv'
<1>0. PICK c \in Commits : c = job[j].commit
  BY JobFacts
<1>1. /\ job[j].type = "INGESTION" /\ version[c] = "INDEXING" /\ c \notin Locked
      /\ UNCHANGED <<created, indexed, run>>
      /\ \E s \in States : \/ job' = [job EXCEPT ![j].state = s]
                           \/ job' = [job EXCEPT ![j].state = s, ![j].declared = TRUE]
      /\ overlap' \subseteq Commits
  BY <1>0 DEF DeclareIndexed, DeclareFailed, MayComplete, States, OverlapWith, RegistryInv, RegistryTypeOK
<1>2. \/ version' = Activated(c, Active) /\ Active \cap Locked = {}
      \/ version' = [version EXCEPT ![c] = "APPROVED"]
  BY <1>0 DEF DeclareIndexed, DeclareFailed
<1>3. version \in [Commits -> VersionState]
  BY DEF RegistryInv, RegistryTypeOK
<1>4. /\ Jobs' = Jobs /\ job' \in Seq(JobType) /\ Len(job') <= MaxJobs
      /\ \A k \in Jobs : job'[k].type = job[k].type /\ job'[k].commit = job[k].commit
      /\ \A k \in Jobs \ {j} : job'[k] = job[k]
  BY <1>1, JobChanges
<1>5. /\ version' \in [Commits -> VersionState] /\ version'[c] # "INDEXING"
      /\ \A d \in Commits : /\ version'[d] # "NONE" <=> version[d] # "NONE"
                            /\ version'[d] = "INDEXING" => version[d] = "INDEXING"
                            /\ d \in Locked => version'[d] = version[d]
  <2>1. CASE version' = Activated(c, Active) /\ Active \cap Locked = {}
    BY <1>1, <1>3, <2>1, ActivatedIs
  <2>2. CASE version' = [version EXCEPT ![c] = "APPROVED"]
    BY <1>1, <1>3, <2>2 DEF VersionState
  <2>3. QED
    BY <1>2, <2>1, <2>2
<1>6. RegistryTypeOK'
  BY <1>1, <1>4, <1>5 DEF RegistryInv, RegistryTypeOK
<1>7. JobsRun' /\ RunFits'
  BY <1>1, <1>4 DEF RegistryInv, JobsRun, RunFits
<1>8. OpenHoldsRow'
  <2>1. \A k \in Jobs : Open(k) => job[k].commit \in Locked
    BY DEF Locked
  <2>2. \A k \in Jobs : Open(k)' <=> Open(k)
    BY <1>1 DEF Open
  <2>3. QED
    BY <1>4, <1>5, <2>1, <2>2, JobFacts, LockedStay
<1>9. IndexingHasJob'
  BY <1>0, <1>4, <1>5, JobStays
<1>10. QED
  BY <1>6, <1>7, <1>8, <1>9 DEF RegistryInv

(* What a run does between its two transactions.                           *)
LEMMA RunKeeps ==
  ASSUME RegistryInv, NEW j \in Jobs, ClaimJob(j) \/ DeleteIndex(j) \/ RaiseFailure(j) \/ CutOff(j)
  PROVE  RegistryInv'
<1>1. PICK rr \in RunType :
          /\ run' = [run EXCEPT ![j] = rr] /\ rr.pc # "open"
          /\ rr.pc = "deleting" => job[j].type = "DELETION"
          /\ rr.pc \in {"building", "failing"} => job[j].type \in {"INGESTION", "REINDEX"}
  <2>1. job[j] \in JobType /\ run[j] \in RunType
    BY JobFacts
  <2>2. CASE ClaimJob(j)
    <3>1. run' = [run EXCEPT ![j] = [run[j] EXCEPT !.pc = IF job[j].type = "DELETION" THEN "deleting" ELSE "building"]]
      BY <2>2 DEF ClaimJob
    <3> DEFINE rr == [run[j] EXCEPT !.pc = IF job[j].type = "DELETION" THEN "deleting" ELSE "building"]
    <3>2. rr \in RunType /\ rr.pc = (IF job[j].type = "DELETION" THEN "deleting" ELSE "building")
      BY <2>1 DEF RunType
    <3>3. job[j].type \in {"INGESTION", "REINDEX", "DELETION"}
      BY <2>1 DEF JobType
    <3> HIDE DEF rr
    <3>4. run' = [run EXCEPT ![j] = rr]
      BY <3>1 DEF rr
    <3>5. QED
      BY <3>2, <3>3, <3>4
  <2>3. CASE RaiseFailure(j)
    <3>1. run' = [run EXCEPT ![j] = [pc |-> "failing", seen |-> {}]] /\ run[j].pc \in {"building", "open"}
      BY <2>3 DEF RaiseFailure
    <3>2. job[j].type \in {"INGESTION", "REINDEX"}
      BY <3>1 DEF RegistryInv, RunFits
    <3> DEFINE rr == [pc |-> "failing", seen |-> {}]
    <3>3. rr \in RunType /\ rr.pc = "failing" /\ run' = [run EXCEPT ![j] = rr]
      BY <3>1 DEF RunType
    <3> HIDE DEF rr
    <3>4. QED
      BY <3>2, <3>3
  <2>4. CASE DeleteIndex(j) \/ CutOff(j)
    <3>1. run' = [run EXCEPT ![j] = NotRunning]
      BY <2>4 DEF DeleteIndex, CutOff
    <3>2. NotRunning \in RunType /\ NotRunning.pc = "none"
      BY DEF NotRunning, RunType
    <3>3. QED
      BY <3>1, <3>2
  <2>5. QED
    BY <2>2, <2>3, <2>4
<1>2. /\ UNCHANGED <<version, created, overlap>> /\ indexed' \subseteq Commits
      /\ \/ job' = job
         \/ job' = [job EXCEPT ![j].state = "RUNNING"]
         \/ job' = [job EXCEPT ![j].state = "SUCCEEDED"] /\ job[j].type # "INGESTION"
  BY DEF ClaimJob, DeleteIndex, RaiseFailure, CutOff, RegistryInv, RegistryTypeOK, RunFits
<1>3. /\ Jobs' = Jobs /\ job' \in Seq(JobType) /\ Len(job') <= MaxJobs
      /\ \A k \in Jobs : job'[k].type = job[k].type /\ job'[k].commit = job[k].commit
      /\ \A k \in Jobs \ {j} : job'[k] = job[k]
  <2>1. CASE job' = job
    BY <2>1 DEF Jobs, RegistryInv, RegistryTypeOK
  <2>2. CASE job' # job
    BY <1>2, <2>2, JobChanges DEF States
  <2>3. QED
    BY <2>1, <2>2
<1>4. /\ run' \in [JobIds -> RunType] /\ run'[j] = rr
      /\ \A k \in Jobs \ {j} : run'[k] = run[k]
      /\ JobsRun'
  BY <1>1, <1>3, RunChanges
<1>5. RegistryTypeOK'
  BY <1>2, <1>3, <1>4 DEF RegistryInv, RegistryTypeOK
<1>6. RunFits'
  BY <1>1, <1>3, <1>4 DEF RegistryInv, RunFits
<1>7. OpenHoldsRow'
  <2>1. \A k \in Jobs : Open(k)' => Open(k)
    BY <1>1, <1>4 DEF Open
  <2>2. QED
    BY <1>2, <1>3, <2>1, LockedStay
<1>8. IndexingHasJob'
  <2>1. CASE job' = job
    BY <1>2, <1>3, <2>1 DEF RegistryInv, IndexingHasJob, InState
  <2>2. CASE job' = [job EXCEPT ![j].state = "RUNNING"]
    <3>1. job'[j].state = "RUNNING"
      BY <2>2, JobFacts DEF JobType, RegistryInv, RegistryTypeOK
    <3>2. QED
      BY <1>2, <1>3, <3>1, JobStays
  <2>3. CASE job[j].type # "INGESTION"
    BY <1>2, <1>3, <2>3, JobStays
  <2>4. QED
    BY <1>2, <2>1, <2>2, <2>3
<1>9. QED
  BY <1>4, <1>5, <1>6, <1>7, <1>8 DEF RegistryInv

LEMMA BeginKeeps == ASSUME RegistryInv, NEW j \in Jobs, BeginActivation(j) PROVE RegistryInv'
<1>1. PICK rr \in RunType : run' = [run EXCEPT ![j] = rr] /\ rr.pc = "open"
  <2>1. Superseded(j) \in SUBSET Commits
    BY DEF Superseded, Active, InState
  <2>2. [pc |-> "open", seen |-> Superseded(j)] \in RunType
    BY <2>1 DEF RunType
  <2>3. QED
    BY <2>2 DEF BeginActivation
<1>2. UNCHANGED <<version, created, indexed, job, overlap>> /\ Jobs' = Jobs
  BY DEF BeginActivation, Jobs
<1>3. /\ run' \in [JobIds -> RunType] /\ run'[j] = rr
      /\ \A k \in Jobs \ {j} : run'[k] = run[k]
      /\ JobsRun'
  BY <1>1, <1>2, RunChanges
<1>4. RegistryTypeOK'
  BY <1>2, <1>3 DEF RegistryInv, RegistryTypeOK
<1>5. RunFits'
  BY <1>1, <1>2, <1>3 DEF RegistryInv, RunFits, BeginActivation
<1>6. OpenHoldsRow'
  <2>1. MayActivate(j) /\ job[j].commit \notin Locked
    BY DEF BeginActivation
  <2>2. \A k \in Jobs \ {j} : Open(k)' => Open(k) /\ job[k].commit # job[j].commit
    BY <1>3, <2>1 DEF Open, Locked
  <2>3. \A k \in Jobs : Open(k)' => MayActivate(k)'
    BY <1>2, <2>1, <2>2 DEF MayActivate, RegistryInv, OpenHoldsRow
  <2>4. QED
    BY <1>2, <2>2, <2>3 DEF RegistryInv, OpenHoldsRow
<1>7. IndexingHasJob'
  BY <1>2 DEF RegistryInv, IndexingHasJob, InState
<1>8. QED
  BY <1>3, <1>4, <1>5, <1>6, <1>7 DEF RegistryInv

(* The two ends of a run.                                                  *)
LEMMA EndRunKeeps ==
  ASSUME RegistryInv, NEW j \in Jobs, CommitActivation(j) \/ RecordRunFailure(j)
  PROVE  RegistryInv'
<1>0. PICK c \in Commits : c = job[j].commit
  BY JobFacts
<1>1. /\ run' = [run EXCEPT ![j] = NotRunning] /\ created' = created
      /\ \E s \in States : job' = [job EXCEPT ![j].state = s]
      /\ indexed' \subseteq Commits /\ overlap' \subseteq Commits
      /\ job[j].type # "DELETION"
  BY <1>0 DEF CommitActivation, RecordRunFailure, States, OverlapWith, Open, RegistryInv, RegistryTypeOK, RunFits
<1>2. /\ Jobs' = Jobs /\ job' \in Seq(JobType) /\ Len(job') <= MaxJobs
      /\ \A k \in Jobs : job'[k].type = job[k].type /\ job'[k].commit = job[k].commit
      /\ \A k \in Jobs \ {j} : job'[k] = job[k]
  BY <1>1, JobChanges
<1>3. NotRunning \in RunType /\ NotRunning.pc = "none"
  BY DEF NotRunning, RunType
<1>4. /\ run' \in [JobIds -> RunType] /\ run'[j] = NotRunning
      /\ \A k \in Jobs \ {j} : run'[k] = run[k]
      /\ JobsRun'
  BY <1>1, <1>2, <1>3, RunChanges
<1>5. version \in [Commits -> VersionState]
  BY DEF RegistryInv, RegistryTypeOK
<1>6. /\ version' \in [Commits -> VersionState]
      /\ job[j].type = "INGESTION" => version'[c] # "INDEXING"
      /\ \A d \in Commits : /\ version'[d] # "NONE" <=> version[d] # "NONE"
                            /\ version'[d] = "INDEXING" => version[d] = "INDEXING"
      /\ \A k \in Jobs \ {j} : Open(k) => version'[job[k].commit] = version[job[k].commit]
  <2>1. CASE CommitActivation(j)
    <3>1. Open(j) /\ version' = Activated(c, run[j].seen)
      BY <1>0, <2>1 DEF CommitActivation
    <3>2. version[c] # "NONE"
      BY <1>0, <3>1 DEF RegistryInv, OpenHoldsRow, MayActivate
    <3>3. ASSUME NEW k \in Jobs \ {j}, Open(k) PROVE version'[job[k].commit] = version[job[k].commit]
      <4>1. job[k].commit \notin run[j].seen
        BY <2>1, <3>3 DEF CommitActivation
      <4>2. job[k].commit # c /\ job[k].commit \in Commits
        BY <1>0, <3>1, <3>3, JobFacts DEF RegistryInv, OpenHoldsRow
      <4>3. QED
        BY <1>5, <3>1, <3>2, <4>1, <4>2, ActivatedIs
    <3>4. QED
      BY <1>5, <3>1, <3>2, <3>3, ActivatedIs
  <2>2. CASE RecordRunFailure(j)
    <3>1. \/ version' = version
          \/ /\ version' = [version EXCEPT ![c] = "APPROVED"] /\ version[c] = "INDEXING" /\ c \notin Locked
      BY <1>0, <2>2 DEF RecordRunFailure, AfterFailedRun
    <3>2. version' = version => ~(job[j].type = "INGESTION" /\ version[c] = "INDEXING")
      <4>1. ASSUME job[j].type = "INGESTION", version[c] = "INDEXING" PROVE version' # version
        <5>1. version' = [version EXCEPT ![c] = "APPROVED"]
          BY <1>0, <2>2, <4>1 DEF RecordRunFailure, AfterFailedRun
        <5>2. QED
          BY <1>5, <4>1, <5>1
      <4>2. QED
        BY <4>1
    <3>3. \A k \in Jobs : Open(k) => job[k].commit \in Locked
      BY DEF Locked
    <3>4. CASE version' = version
      BY <1>5, <3>2, <3>4
    <3>5. CASE version' # version
      BY <1>5, <3>1, <3>3, <3>5, JobFacts DEF VersionState
    <3>6. QED
      BY <3>4, <3>5
  <2>3. QED
    BY <2>1, <2>2
<1>7. RegistryTypeOK'
  BY <1>1, <1>2, <1>4, <1>6 DEF RegistryInv, RegistryTypeOK
<1>8. RunFits'
  BY <1>2, <1>3, <1>4 DEF RegistryInv, RunFits
<1>9. OpenHoldsRow'
  <2>1. \A k \in Jobs : Open(k)' => k # j /\ Open(k)
    BY <1>3, <1>4 DEF Open
  <2>2. QED
    BY <1>2, <1>6, <2>1, LockedStay
<1>10. IndexingHasJob'
  BY <1>0, <1>2, <1>6, JobStays
<1>11. QED
  BY <1>4, <1>7, <1>8, <1>9, <1>10 DEF RegistryInv

LEMMA RegistryStep == ASSUME RegistryInv, [RegistryNext]_registryVars PROVE RegistryInv'
<1>1. CASE UNCHANGED registryVars
  <2>1. UNCHANGED <<version, created, indexed, job, run, overlap>> /\ Jobs' = Jobs
    BY <1>1 DEF registryVars, Jobs
  <2>2. QED
    BY <2>1 DEF RegistryInv, RegistryTypeOK, JobsRun, RunFits, OpenHoldsRow, MayActivate, Open,
                IndexingHasJob, InState
<1>2. QED
  BY <1>1, RegisterKeeps, ScanKeeps, CreateIngestionKeeps, WithdrawKeeps, DeclareKeeps, RunKeeps, BeginKeeps,
     EndRunKeeps DEF RegistryNext, RunJob

LEMMA RegistryInvariant == RegistrySpec => []RegistryInv
  BY InitRegistry, RegistryStep, PTL DEF RegistrySpec

(* Versions, jobs and their runs have their types.                         *)
THEOREM RegistryTypeCorrect == RegistrySpec => []RegistryTypeOK
<1>1. RegistryInv => RegistryTypeOK
  BY DEF RegistryInv
<1>2. QED
  BY RegistryInvariant, <1>1, PTL

(* A version that is being indexed has a job that is not over yet, for any *)
(* commits and any number of jobs.                                         *)
THEOREM IndexingGoesOn == RegistrySpec => []IndexingHasJob
<1>1. RegistryInv => IndexingHasJob
  BY DEF RegistryInv
<1>2. QED
  BY RegistryInvariant, <1>1, PTL

(* No step takes a withdrawn version back, although an activation of it    *)
(* was under way: the activation has its row, and no other version than    *)
(* the one it found ACTIVE or INDEXING becomes ACTIVE.                     *)
LEMMA WithdrawnStays ==
  ASSUME RegistryInv, RegistryNext, NEW c \in Commits, version[c] = "WITHDRAWN"
  PROVE  version'[c] = "WITHDRAWN"
<1>2. version \in [Commits -> VersionState]
  BY DEF RegistryInv, RegistryTypeOK
<1>3. ASSUME NEW d \in Commits, Register(d) \/ Scan(d) \/ Approve(d) PROVE version'[c] = "WITHDRAWN"
  BY <1>2, <1>3 DEF Register, Scan, Approve
<1>4. CASE CreateIngestion
  <2>1. Newest(Candidates) \in Candidates
    <3>1. Candidates \subseteq Commits /\ Candidates # {} /\ \A d \in Candidates : version[d] # "NONE"
      BY <1>4 DEF Candidates, InState, Active, CreateIngestion
    <3>2. created \in Seq(Commits) /\ RowsOK
      BY DEF RegistryInv, RegistryTypeOK, RowsOK
    <3>3. QED
      BY <3>1, <3>2, NewestIsOne
  <2>2. version[Newest(Candidates)] \in {"APPROVED", "ACTIVE"}
    BY <2>1 DEF Candidates, InState, Active
  <2>3. version' = version \/ version' = [version EXCEPT ![Newest(Candidates)] = "INDEXING"]
    BY <1>4 DEF CreateIngestion
  <2>4. QED
    BY <1>2, <2>2, <2>3
<1>5. CASE Withdraw
  BY <1>5 DEF Withdraw
<1>6. ASSUME NEW j \in Jobs, DeclareIndexed(j) \/ DeclareFailed(j) PROVE version'[c] = "WITHDRAWN"
  BY <1>2, <1>6 DEF DeclareIndexed, DeclareFailed, MayComplete, Activated
<1>7. ASSUME NEW j \in Jobs, RunJob(j) PROVE version'[c] = "WITHDRAWN"
  <2>1. CASE CommitActivation(j)
    <3>1. version[job[j].commit] \in {"ACTIVE", "INDEXING"}
      BY <2>1 DEF CommitActivation, RegistryInv, OpenHoldsRow, MayActivate
    <3>2. QED
      BY <2>1, <3>1 DEF CommitActivation, Activated
  <2>2. CASE RecordRunFailure(j)
    BY <1>2, <2>2 DEF RecordRunFailure, AfterFailedRun
  <2>3. QED
    BY <1>7, <2>1, <2>2
       DEF RunJob, ClaimJob, DeleteIndex, BeginActivation, RaiseFailure, CutOff
<1>8. QED
  BY <1>3, <1>4, <1>5, <1>6, <1>7 DEF RegistryNext

(* A version that was withdrawn never comes back.                          *)
THEOREM WithdrawalIsFinal == RegistrySpec => WithdrawnIsFinal
<1>1. ASSUME RegistryInv, [RegistryNext]_registryVars
      PROVE  [\A c \in Commits : version[c] = "WITHDRAWN" => version'[c] = "WITHDRAWN"]_version
  BY <1>1, WithdrawnStays DEF registryVars
<1>2. QED
  BY RegistryInvariant, <1>1, PTL DEF RegistrySpec, WithdrawnIsFinal

----------------------------------------------------------------------------
(* The purge.  What a DELETION job covers are the versions there were when *)
(* it was made: they are withdrawn for good, and so never indexed again.   *)
NamedOnce == \A i, k \in 1..Len(created) : created[i] = created[k] => i = k
CoversUpTo(j, n) ==
    /\ created[n] = job[j].commit
    /\ \A i \in 1..n : /\ version[created[i]] = "WITHDRAWN"
                       /\ Purged(j) => created[i] \notin indexed
DeletionsCover ==
    \A j \in Jobs : job[j].type = "DELETION" => \E n \in 1..Len(created) : CoversUpTo(j, n)

LEMMA PurgeStep ==
  ASSUME RegistryInv, NamedOnce, DeletionsCover, RegistryNext
  PROVE  NamedOnce' /\ DeletionsCover'
<1>1. created \in Seq(Commits) /\ Len(created) \in Nat
  BY DEF RegistryInv, RegistryTypeOK
<1>2. /\ NamedOnce'
      /\ 1..Len(created) \subseteq 1..Len(created')
      /\ \A i \in 1..Len(created) : created'[i] = created[i]
  <2>1. CASE \E c \in Commits : Register(c)
    <3>1. PICK c \in Commits : Register(c)
      BY <2>1
    <3>2. \A i \in 1..Len(created) : created[i] # c
      BY <3>1 DEF Register, RegistryInv, RegistryTypeOK
    <3>3. created' = Append(created, c)
      BY <3>1 DEF Register
    <3>4. Len(created') = Len(created) + 1 /\ created'[Len(created) + 1] = c
          /\ \A i \in 1..Len(created) : created'[i] = created[i]
      BY <1>1, <3>3
    <3>5. \A i \in 1..Len(created') : i \in 1..Len(created) \/ i = Len(created) + 1
      BY <1>1, <3>4
    <3>6. QED
      BY <1>1, <3>2, <3>4, <3>5 DEF NamedOnce
  <2>2. CASE ~\E c \in Commits : Register(c)
    <3>1. created' = created
      BY <2>2 DEF RegistryNext, Scan, Approve, CreateIngestion, Withdraw, DeclareIndexed,
         DeclareFailed, RunJob, ClaimJob, DeleteIndex, BeginActivation, CommitActivation,
         RaiseFailure, RecordRunFailure, CutOff
    <3>2. QED
      BY <3>1 DEF NamedOnce
  <2>3. QED
    BY <2>1, <2>2
<1>3. ASSUME NEW j \in Jobs
      PROVE  /\ job'[j].type = job[j].type /\ job'[j].commit = job[j].commit
             /\ Purged(j)' => Purged(j) \/ indexed' = {}
  <2>1. CASE UNCHANGED job
    BY <2>1 DEF Purged
  <2>2. CASE CreateIngestion \/ Withdraw
    <3>1. PICK new : job' = Append(job, new)
      BY <2>2 DEF CreateIngestion, Withdraw
    <3>2. job'[j] = job[j]
      BY <3>1, JobFacts DEF Jobs, RegistryInv, RegistryTypeOK
    <3>3. QED
      BY <3>2 DEF Purged
  <2>3. ASSUME NEW k \in Jobs, DeclareIndexed(k) \/ DeclareFailed(k) \/ RunJob(k), job' # job
        PROVE  /\ job'[j].type = job[j].type /\ job'[j].commit = job[j].commit
               /\ Purged(j)' => Purged(j) \/ indexed' = {}
    <3>1. \E s \in States : \/ job' = [job EXCEPT ![k].state = s]
                            \/ job' = [job EXCEPT ![k].state = s, ![k].declared = TRUE]
      BY <2>3 DEF States, DeclareIndexed, DeclareFailed, RunJob, ClaimJob, DeleteIndex,
         BeginActivation, CommitActivation, RaiseFailure, RecordRunFailure, CutOff
    <3>2. /\ job'[j].type = job[j].type /\ job'[j].commit = job[j].commit
          /\ j # k => job'[j] = job[j]
      BY <3>1, JobChanges
    <3>3. CASE j # k
      BY <3>2, <3>3 DEF Purged
    <3>4. CASE j = k /\ job[j].type = "DELETION"
      <4>1. ~MayComplete(j) /\ ~CommitActivation(j) /\ ~RecordRunFailure(j)
        BY <3>4 DEF MayComplete, CommitActivation, RecordRunFailure, Open, RegistryInv, RunFits
      <4>2. ClaimJob(j) \/ DeleteIndex(j)
        BY <2>3, <3>4, <4>1 DEF DeclareIndexed, DeclareFailed, RunJob, BeginActivation,
           RaiseFailure, CutOff
      <4>3. CASE ClaimJob(j)
        <5>1. job'[j].state = "RUNNING"
          BY <4>3, JobFacts DEF ClaimJob, RegistryInv, RegistryTypeOK, JobType
        <5>2. QED
          BY <3>2, <5>1 DEF Purged
      <4>4. CASE DeleteIndex(j)
        BY <3>2, <4>4 DEF DeleteIndex
      <4>5. QED
        BY <4>2, <4>3, <4>4
    <3>5. CASE job[j].type # "DELETION"
      BY <3>2, <3>5 DEF Purged
    <3>6. QED
      BY <3>3, <3>4, <3>5
  <2>4. QED
    BY <2>1, <2>2, <2>3 DEF RegistryNext, Register, Scan, Approve
<1>4. \A c \in indexed' : c \in indexed \/ (c \in Commits /\ version[c] # "WITHDRAWN")
  <2>1. ASSUME NEW j \in Jobs, CommitActivation(j)
        PROVE  indexed' = indexed \cup {job[j].commit} /\ version[job[j].commit] # "WITHDRAWN"
    BY <2>1 DEF CommitActivation, RegistryInv, OpenHoldsRow, MayActivate
  <2>2. (~\E j \in Jobs : CommitActivation(j)) => indexed' \in {indexed, {}}
    BY DEF RegistryNext, Register, Scan, Approve, CreateIngestion, Withdraw, DeclareIndexed,
       DeclareFailed, RunJob, ClaimJob, DeleteIndex, BeginActivation, RaiseFailure,
       RecordRunFailure, CutOff
  <2>3. QED
    BY <2>1, <2>2, JobFacts
<1>5. ASSUME NEW j \in Jobs', j \notin Jobs, job'[j].type = "DELETION"
      PROVE  /\ Withdraw /\ Len(created) \in 1..Len(created)
             /\ job'[j].commit = created[Len(created)] /\ job'[j].state = "PENDING"
  <2>1. job \in Seq(JobType) /\ Len(job) \in Nat
    BY DEF RegistryInv, RegistryTypeOK
  <2>2. CreateIngestion \/ Withdraw
    <3>1. ASSUME NEW k \in Jobs, DeclareIndexed(k) \/ DeclareFailed(k) \/ RunJob(k)
          PROVE  Jobs' = Jobs
      <4>1. \/ job' = job
            \/ \E s \in States : \/ job' = [job EXCEPT ![k].state = s]
                                 \/ job' = [job EXCEPT ![k].state = s, ![k].declared = TRUE]
        BY <3>1 DEF States, DeclareIndexed, DeclareFailed, RunJob, ClaimJob, DeleteIndex,
           BeginActivation, CommitActivation, RaiseFailure, RecordRunFailure, CutOff
      <4>2. job' = job => Jobs' = Jobs
        BY DEF Jobs
      <4>3. QED
        BY <4>1, <4>2, JobChanges
    <3>2. ASSUME job' = job PROVE Jobs' = Jobs
      BY <3>2 DEF Jobs
    <3>3. QED
      BY <1>5, <3>1, <3>2 DEF RegistryNext, Register, Scan, Approve
  <2>3. CASE CreateIngestion
    <3>1. PICK type \in {"INGESTION", "REINDEX"} : \E c : job' = Append(job, NewJob(type, c))
      BY <2>3 DEF CreateIngestion, JobFor
    <3>2. job'[j].type = type
      BY <1>5, <2>1, <3>1 DEF Jobs, NewJob
    <3>3. QED
      BY <1>5, <3>2
  <2>4. CASE Withdraw
    <3>1. job' = Append(job, NewJob("DELETION", created[Len(created)]))
      BY <2>4 DEF Withdraw
    <3>2. job'[j] = NewJob("DELETION", created[Len(created)])
      BY <1>5, <2>1, <3>1 DEF Jobs
    <3>3. job'[j].commit = created[Len(created)] /\ job'[j].state = "PENDING"
      BY <3>2 DEF NewJob
    <3>4. Len(created) \in 1..Len(created)
      BY <1>1, <2>4 DEF Withdraw
    <3>5. QED
      BY <2>4, <3>3, <3>4
  <2>5. QED
    BY <2>2, <2>3, <2>4
<1>6. ASSUME NEW j \in Jobs', job'[j].type = "DELETION"
      PROVE  \E n \in 1..Len(created') : CoversUpTo(j, n)'
  <2>1. CASE j \in Jobs
    <3>1. PICK n \in 1..Len(created) : CoversUpTo(j, n)
      BY <1>3, <1>6, <2>1 DEF DeletionsCover
    <3>2. n \in 1..Len(created') /\ created'[n] = job'[j].commit
      BY <1>2, <1>3, <2>1, <3>1 DEF CoversUpTo
    <3>3. ASSUME NEW i \in 1..n
          PROVE  /\ version'[created'[i]] = "WITHDRAWN"
                 /\ Purged(j)' => created'[i] \notin indexed'
      <4>1. /\ created'[i] = created[i] /\ created[i] \in Commits
            /\ version[created[i]] = "WITHDRAWN"
        <5>1. i \in 1..Len(created)
          BY <1>1
        <5>2. QED
          BY <1>1, <1>2, <3>1, <5>1 DEF CoversUpTo
      <4>2. version'[created[i]] = "WITHDRAWN"
        BY <4>1, WithdrawnStays
      <4>3. Purged(j) => created[i] \notin indexed
        BY <3>1 DEF CoversUpTo
      <4>4. QED
        BY <1>3, <1>4, <2>1, <4>1, <4>2, <4>3
    <3>4. QED
      BY <3>2, <3>3 DEF CoversUpTo
  <2>2. CASE j \notin Jobs
    <3>1. /\ Withdraw /\ Len(created) \in 1..Len(created)
          /\ job'[j].commit = created[Len(created)] /\ ~Purged(j)'
      BY <1>5, <1>6, <2>2 DEF Purged
    <3>2. created' = created
      BY <3>1 DEF Withdraw
    <3>3. \A i \in 1..Len(created) : version'[created[i]] = "WITHDRAWN"
      <4>1. \A i \in 1..Len(created) : created[i] \in Commits /\ version[created[i]] # "NONE"
        BY <1>1 DEF RegistryInv, RegistryTypeOK
      <4>2. QED
        BY <3>1, <4>1 DEF Withdraw
    <3>4. QED
      BY <3>1, <3>2, <3>3 DEF CoversUpTo
  <2>3. QED
    BY <2>1, <2>2
<1>7. QED
  BY <1>2, <1>6 DEF DeletionsCover

(* What a withdrawal purged stays purged, and is not served again, for any *)
(* commits, any number of jobs and any overlapping runs.                   *)
THEOREM PurgedForGood == RegistrySpec => []WithdrawalPurges
<1>1. RegistryInit => NamedOnce /\ DeletionsCover
  <2>1. RegistryInit => Len(created) = 0 /\ Len(job) = 0
    BY DEF RegistryInit
  <2>2. QED
    BY <2>1 DEF NamedOnce, DeletionsCover, Jobs
<1>2. ASSUME RegistryInv, NamedOnce, DeletionsCover, [RegistryNext]_registryVars
      PROVE  NamedOnce' /\ DeletionsCover'
  <2>1. CASE UNCHANGED registryVars
    BY <1>2, <2>1 DEF registryVars, NamedOnce, DeletionsCover, CoversUpTo, Jobs, Purged
  <2>2. QED
    BY <1>2, <2>1, PurgeStep
<1>3. ASSUME RegistryInv, NamedOnce, DeletionsCover PROVE WithdrawalPurges
  <2>1. SUFFICES ASSUME NEW j \in Jobs, Purged(j) PROVE Covered(j) \cap (indexed \cup Active) = {}
    BY DEF WithdrawalPurges
  <2>2. PICK n \in 1..Len(created) : CoversUpTo(j, n)
    BY <1>3, <2>1 DEF DeletionsCover, Purged
  <2>3. Position(job[j].commit) = n
    BY <1>3, <2>2 DEF Position, CoversUpTo, NamedOnce
  <2>4. \A c \in Covered(j) : c \notin indexed /\ version[c] = "WITHDRAWN"
    BY <2>1, <2>2, <2>3 DEF Covered, CoversUpTo
  <2>5. QED
    BY <2>4 DEF Active, InState
<1>4. QED
  BY RegistryInvariant, <1>1, <1>2, <1>3, PTL DEF RegistrySpec

----------------------------------------------------------------------------
(* Who is ACTIVE.  Two versions are only when one of them was activated    *)
(* while another activation was open; an open activation has seen all the  *)
(* others.                                                                 *)
OneActive == \A c, d \in Active \ overlap : c = d
OthersSeen == \A j \in Jobs : Activating(j) => Active \subseteq run[j].seen \cup overlap
ReindexSeesNothing == \A j \in Jobs : Open(j) /\ job[j].type = "REINDEX" => run[j].seen = {}

ActiveInv == RegistryInv /\ OneActive /\ OthersSeen /\ ReindexSeesNothing
OverlapGrows == overlap \subseteq overlap'

(* A step that activates nothing and opens no activation.                  *)
LEMMA NothingActivated ==
  ASSUME ActiveInv, Active' \subseteq Active, OverlapGrows,
         \A j \in Jobs' : Open(j)' => /\ j \in Jobs /\ Open(j) /\ run'[j] = run[j]
                                      /\ job'[j].type = job[j].type
  PROVE  OneActive' /\ OthersSeen' /\ ReindexSeesNothing'
<1>1. OneActive'
  BY DEF ActiveInv, OneActive, OverlapGrows
<1>2. OthersSeen' /\ ReindexSeesNothing'
  BY DEF ActiveInv, OthersSeen, ReindexSeesNothing, OverlapGrows, Activating
<1>3. QED
  BY <1>1, <1>2

(* The steps that are not about an activation.                             *)
LEMMA RowsAndJobsStep ==
  ASSUME ActiveInv,
         \/ \E c \in Commits : Register(c) \/ Scan(c) \/ Approve(c)
         \/ CreateIngestion \/ Withdraw
  PROVE  OneActive' /\ OthersSeen' /\ ReindexSeesNothing' /\ OverlapGrows
<1>1. version \in [Commits -> VersionState] /\ OverlapGrows /\ run' = run
  BY DEF ActiveInv, RegistryInv, RegistryTypeOK, OverlapGrows, Register, Scan, Approve,
     CreateIngestion, Withdraw
<1>2. Active' \subseteq Active
  BY <1>1 DEF Active, InState, Register, Scan, Approve, CreateIngestion, Withdraw
<1>3. \A j \in Jobs' : Open(j)' => j \in Jobs /\ job'[j] = job[j]
  <2>1. CASE job' = job
    BY <2>1 DEF Jobs
  <2>2. CASE CreateIngestion \/ Withdraw
    <3>1. PICK new : job' = Append(job, new)
      BY <2>2 DEF CreateIngestion, Withdraw
    <3>2. job \in Seq(JobType) /\ Len(job) \in Nat
      BY DEF ActiveInv, RegistryInv, RegistryTypeOK
    <3>3. PICK n \in Nat : n = Len(job) + 1
      BY <3>2
    <3>4. /\ Jobs' = Jobs \cup {n} /\ n \notin Jobs
          /\ \A j \in Jobs : job'[j] = job[j]
      BY <3>1, <3>2, <3>3 DEF Jobs
    <3>5. n \in JobIds
      BY <2>2, <3>2, <3>3, JobsAssumption DEF JobIds, CreateIngestion, Withdraw
    <3>6. run'[n].pc = "none"
      BY <1>1, <3>4, <3>5 DEF ActiveInv, RegistryInv, JobsRun
    <3>7. QED
      BY <3>4, <3>6 DEF Open
  <2>3. QED
    BY <2>1, <2>2 DEF Register, Scan, Approve
<1>4. \A j \in Jobs : Open(j)' => Open(j)
  BY <1>1 DEF Open
<1>5. QED
  BY <1>1, <1>2, <1>3, <1>4, NothingActivated

LEMMA JobTypesStay ==
  ASSUME RegistryInv, NEW j \in Jobs, DeclareIndexed(j) \/ DeclareFailed(j) \/ RunJob(j)
  PROVE  Jobs' = Jobs /\ \A k \in Jobs : /\ job'[k].type = job[k].type
                                         /\ job'[k].commit = job[k].commit
                                         /\ k # j => job'[k] = job[k]
<1>1. CASE job' = job
  BY <1>1 DEF Jobs
<1>2. CASE \E s \in States : \/ job' = [job EXCEPT ![j].state = s]
                             \/ job' = [job EXCEPT ![j].state = s, ![j].declared = TRUE]
  BY <1>2, JobChanges
<1>3. QED
  BY <1>1, <1>2 DEF States, DeclareIndexed, DeclareFailed, RunJob, ClaimJob, DeleteIndex,
     BeginActivation, CommitActivation, RaiseFailure, RecordRunFailure, CutOff

(* A run that goes on, fails or ends without activating anything.          *)
LEMMA OtherRunStep ==
  ASSUME ActiveInv, NEW j \in Jobs,
         \/ DeclareFailed(j) \/ ClaimJob(j) \/ DeleteIndex(j) \/ RaiseFailure(j)
         \/ RecordRunFailure(j) \/ CutOff(j)
  PROVE  OneActive' /\ OthersSeen' /\ ReindexSeesNothing' /\ OverlapGrows
<1>1. version \in [Commits -> VersionState] /\ run \in [JobIds -> RunType] /\ j \in JobIds
  BY JobFacts DEF ActiveInv, RegistryInv, RegistryTypeOK
<1>2. OverlapGrows
  BY DEF OverlapGrows, DeclareFailed, ClaimJob, DeleteIndex, RaiseFailure, RecordRunFailure,
     CutOff
<1>3. Active' \subseteq Active
  BY <1>1 DEF Active, InState, DeclareFailed, ClaimJob, DeleteIndex, RaiseFailure,
     RecordRunFailure, AfterFailedRun, CutOff
<1>4. Jobs' = Jobs /\ \A k \in Jobs : job'[k].type = job[k].type
  BY JobTypesStay DEF ActiveInv, RunJob
<1>5. ASSUME NEW k \in Jobs, Open(k)' PROVE run'[k] = run[k]
  <2>1. \/ run' = run
        \/ \E rr : run' = [run EXCEPT ![j] = rr] /\ rr.pc # "open"
    <3>1. PICK rr : rr = [run[j] EXCEPT !.pc = IF job[j].type = "DELETION" THEN "deleting"
                                              ELSE "building"]
      OBVIOUS
    <3>2. rr.pc # "open"
      BY <1>1, <3>1 DEF RunType
    <3>3. ClaimJob(j) => run' = [run EXCEPT ![j] = rr]
      BY <3>1 DEF ClaimJob
    <3>4. NotRunning.pc # "open" /\ [pc |-> "failing", seen |-> {}].pc # "open"
      BY DEF NotRunning
    <3>5. QED
      BY <3>2, <3>3, <3>4 DEF DeclareFailed, DeleteIndex, RaiseFailure, RecordRunFailure, CutOff
  <2>2. k \in JobIds
    BY JobFacts DEF ActiveInv
  <2>3. QED
    BY <1>1, <1>5, <2>1, <2>2 DEF Open
<1>6. \A k \in Jobs : Open(k)' => Open(k)
  BY <1>5 DEF Open
<1>7. QED
  BY <1>2, <1>3, <1>4, <1>5, <1>6, NothingActivated

LEMMA BeginStep ==
  ASSUME ActiveInv, NEW j \in Jobs, BeginActivation(j)
  PROVE  OneActive' /\ OthersSeen' /\ ReindexSeesNothing' /\ OverlapGrows
<1>1. UNCHANGED <<version, created, indexed, job, overlap>> /\ Jobs' = Jobs
      /\ Active' = Active
  BY DEF BeginActivation, Jobs, Active, InState
<1>2. run \in [JobIds -> RunType] /\ Jobs \subseteq JobIds
  BY JobFacts DEF ActiveInv, RegistryInv, RegistryTypeOK
<1>3. /\ run'[j].seen = Superseded(j) /\ \A k \in Jobs \ {j} : run'[k] = run[k]
  BY <1>2 DEF BeginActivation
<1>4. OneActive' /\ OverlapGrows
  BY <1>1 DEF ActiveInv, OneActive, OverlapGrows
<1>5. OthersSeen'
  BY <1>1, <1>3 DEF ActiveInv, OthersSeen, Activating, Open, Superseded
<1>6. ReindexSeesNothing'
  BY <1>1, <1>3 DEF ActiveInv, ReindexSeesNothing, Open, Superseded
<1>7. QED
  BY <1>4, <1>5, <1>6

(* A version takes over.  Whoever is activating another one then has not   *)
(* seen it, and it is in overlap.                                          *)
LEMMA TakeOverStep ==
  ASSUME ActiveInv, NEW c \in Commits, NEW others,
         Active' \subseteq {c} \cup Active, overlap' = OverlapWith(c, others),
         others = {} => Active' \subseteq {c} \cup overlap,
         \A k \in Jobs' : Open(k)' => /\ k \in Jobs /\ Open(k) /\ run'[k] = run[k]
                                      /\ job'[k].type = job[k].type
                                      /\ Activating(k) => k \in others
  PROVE  OneActive' /\ OthersSeen' /\ ReindexSeesNothing' /\ OverlapGrows
<1>1. OverlapGrows /\ (others # {} => c \in overlap')
  BY DEF OverlapGrows, OverlapWith
<1>2. OneActive'
  <2>1. CASE others = {}
    BY <1>1, <2>1 DEF OneActive, OverlapGrows
  <2>2. CASE others # {}
    BY <1>1, <2>2 DEF ActiveInv, OneActive, OverlapGrows
  <2>3. QED
    BY <2>1, <2>2
<1>3. OthersSeen' /\ ReindexSeesNothing'
  BY <1>1 DEF ActiveInv, OthersSeen, ReindexSeesNothing, OverlapGrows, Activating
<1>4. QED
  BY <1>1, <1>2, <1>3

LEMMA DeclareStep ==
  ASSUME ActiveInv, NEW j \in Jobs, DeclareIndexed(j)
  PROVE  OneActive' /\ OthersSeen' /\ ReindexSeesNothing' /\ OverlapGrows
<1>1. PICK c \in Commits : c = job[j].commit
  BY JobFacts DEF ActiveInv
<1>2. Active' \subseteq {c}
  BY <1>1 DEF DeclareIndexed, Activated, Active, InState
<1>3. run' = run /\ overlap' = OverlapWith(c, {k \in Jobs : Activating(k)})
  BY <1>1 DEF DeclareIndexed
<1>4. Jobs' = Jobs /\ \A k \in Jobs : job'[k].type = job[k].type
  BY JobTypesStay DEF ActiveInv
<1>5. \A k \in Jobs : Open(k)' => Open(k) /\ run'[k] = run[k]
  BY <1>3 DEF Open
<1>6. QED
  BY <1>2, <1>3, <1>4, <1>5, TakeOverStep

LEMMA CommitStep ==
  ASSUME ActiveInv, NEW j \in Jobs, CommitActivation(j)
  PROVE  OneActive' /\ OthersSeen' /\ ReindexSeesNothing' /\ OverlapGrows
<1>1. PICK c \in Commits : c = job[j].commit
  BY JobFacts DEF ActiveInv
<1>2. /\ version' = Activated(c, run[j].seen) /\ run' = [run EXCEPT ![j] = NotRunning]
      /\ Open(j) /\ version \in [Commits -> VersionState]
  BY <1>1 DEF CommitActivation, ActiveInv, RegistryInv, RegistryTypeOK
<1>3. Jobs' = Jobs /\ \A k \in Jobs : job'[k].type = job[k].type
  BY JobTypesStay DEF ActiveInv, RunJob
<1>4. ASSUME NEW k \in Jobs, Open(k)' PROVE k # j /\ Open(k) /\ run'[k] = run[k]
  <2>1. run \in [JobIds -> RunType] /\ k \in JobIds
    BY JobFacts DEF ActiveInv, RegistryInv, RegistryTypeOK
  <2>2. QED
    BY <1>2, <1>4, <2>1 DEF Open, NotRunning
<1>5. CASE job[j].type = "REINDEX"
  <2>1. version[c] = "ACTIVE" /\ run[j].seen = {}
    BY <1>1, <1>2, <1>5 DEF ActiveInv, RegistryInv, OpenHoldsRow, MayActivate,
       ReindexSeesNothing
  <2>2. Active' \subseteq Active
    BY <1>2, <2>1 DEF Activated, Active, InState
  <2>3. OverlapGrows
    BY <1>5 DEF CommitActivation, OverlapGrows
  <2>4. QED
    BY <1>3, <1>4, <2>2, <2>3, NothingActivated
<1>6. CASE job[j].type # "REINDEX"
  <2>1. Activating(j)
    BY <1>2, <1>6, JobFacts DEF ActiveInv, RegistryInv, RunFits, Open, Activating
  <2>2. Active \subseteq run[j].seen \cup overlap
    BY <2>1 DEF ActiveInv, OthersSeen
  <2>3. Active' \subseteq {c} \cup Active /\ Active' \subseteq {c} \cup overlap
    BY <1>2, <2>2 DEF Activated, Active, InState
  <2>4. PICK others : others = {k \in Jobs \ {j} : Activating(k)}
    OBVIOUS
  <2>5. overlap' = OverlapWith(c, others)
    BY <1>1, <1>6, <2>4 DEF CommitActivation
  <2>6. \A k \in Jobs : Open(k)' => (Activating(k) => k \in others)
    BY <1>4, <2>4
  <2>7. QED
    BY <1>3, <1>4, <2>3, <2>5, <2>6, TakeOverStep
<1>7. QED
  BY <1>5, <1>6

LEMMA InitActive == RegistryInit => ActiveInv
<1>1. RegistryInit => Active = {} /\ Jobs = {}
  BY DEF RegistryInit, Active, InState, Jobs
<1>2. QED
  BY <1>1, InitRegistry DEF ActiveInv, OneActive, OthersSeen, ReindexSeesNothing

LEMMA ActiveStep ==
  ASSUME ActiveInv, [RegistryNext]_registryVars PROVE ActiveInv' /\ OverlapGrows
<1>1. RegistryInv'
  BY RegistryStep DEF ActiveInv
<1>2. CASE UNCHANGED registryVars
  <2>1. /\ UNCHANGED <<version, created, indexed, job, run, overlap>>
        /\ Jobs' = Jobs /\ Active' = Active
    BY <1>2 DEF registryVars, Jobs, Active, InState
  <2>2. QED
    BY <1>1, <2>1 DEF ActiveInv, OneActive, OthersSeen, ReindexSeesNothing, OverlapGrows,
       Activating, Open
<1>3. CASE RegistryNext
  <2>1. OneActive' /\ OthersSeen' /\ ReindexSeesNothing' /\ OverlapGrows
    BY <1>3, RowsAndJobsStep, OtherRunStep, BeginStep, DeclareStep, CommitStep
       DEF RegistryNext, RunJob
  <2>2. QED
    BY <1>1, <2>1 DEF ActiveInv
<1>4. QED
  BY <1>2, <1>3

----------------------------------------------------------------------------
(* Retrieval.  What a query may search, and what it found, are versions    *)
(* that were ACTIVE together, so one at most is not in overlap.            *)
OneOf(S) == \A c, d \in S \ overlap : c = d
QueryInv ==
    /\ ActiveInv
    /\ OneOf(compatible) /\ OneOf(query.scope) /\ query.found \subseteq query.scope
    /\ query \in [pc : {"idle", "search", "found"}, scope : SUBSET Commits,
                  searched : 0..Channels, found : SUBSET Commits]
    /\ compatible \subseteq Commits
    /\ query.pc = "search" => query.searched < Channels

LEMMA QueryInit == RetrievalInit => QueryInv
<1> SUFFICES ASSUME RetrievalInit PROVE QueryInv
  OBVIOUS
<1>1. ActiveInv /\ compatible = {} /\ query = NoQuery
  BY InitActive DEF RetrievalInit
<1>2. query = [pc |-> "idle", scope |-> {}, searched |-> 0, found |-> {}]
  BY <1>1 DEF NoQuery
<1>3. QED
  BY <1>1, <1>2, ChannelsAssumption DEF QueryInv, OneOf

LEMMA AskStep == ASSUME QueryInv, Ask PROVE QueryInv'
<1>1. PICK scope \in {Active, compatible} :
         query' = [NoQuery EXCEPT !.pc = IF scope = {} THEN "found" ELSE "search",
                                  !.scope = scope]
  BY DEF Ask
<1>2. UNCHANGED <<registryVars, compatible>> /\ scope \in SUBSET Commits
  BY DEF Ask, QueryInv, Active, InState
<1>3. OneOf(scope)
  BY DEF QueryInv, ActiveInv, OneActive, OneOf
<1>4. PICK pc \in {"search", "found"} : pc = IF scope = {} THEN "found" ELSE "search"
  OBVIOUS
<1>5. query' = [pc |-> pc, scope |-> scope, searched |-> 0, found |-> {}]
  BY <1>1, <1>4 DEF NoQuery
<1>6. ActiveInv' /\ overlap' = overlap
  BY <1>2, ActiveStep DEF QueryInv, registryVars
<1>7. QED
  BY <1>2, <1>3, <1>5, <1>6, ChannelsAssumption DEF QueryInv, OneOf

LEMMA SearchStep == ASSUME QueryInv, Search PROVE QueryInv'
<1>1. PICK hits \in SUBSET Searchable :
         query' = [query EXCEPT !.found = @ \cup hits, !.searched = @ + 1,
                                !.pc = IF query.searched + 1 = Channels THEN "found"
                                       ELSE "search"]
  BY DEF Search
<1>2. UNCHANGED <<registryVars, compatible>> /\ query.pc = "search"
  BY DEF Search
<1>3. hits \subseteq query.scope
  BY DEF Searchable
<1>4. PICK pc \in {"search", "found"} :
         pc = IF query.searched + 1 = Channels THEN "found" ELSE "search"
  OBVIOUS
<1>5. query' = [pc |-> pc, scope |-> query.scope, searched |-> query.searched + 1,
                found |-> query.found \cup hits]
  BY <1>1, <1>4 DEF QueryInv
<1>6. query.searched + 1 \in 0..Channels /\ (pc = "search" => query.searched + 1 < Channels)
  BY <1>2, <1>4, ChannelsAssumption DEF QueryInv
<1>7. ActiveInv' /\ overlap' = overlap
  BY <1>2, ActiveStep DEF QueryInv, registryVars
<1>8. QED
  BY <1>2, <1>3, <1>5, <1>6, <1>7 DEF QueryInv, OneOf

LEMMA QueryStep == ASSUME QueryInv, [RetrievalNext]_retrievalVars PROVE QueryInv'
<1>1. CASE RegistryNext /\ UNCHANGED <<compatible, query>>
  BY <1>1, ActiveStep DEF QueryInv, OneOf, OverlapGrows
<1>2. ASSUME NEW members \in SUBSET Commits, CreateCompatibilitySet(members) PROVE QueryInv'
  <2>1. UNCHANGED <<registryVars, query>> /\ compatible' = members /\ members \subseteq Active
    BY <1>2 DEF CreateCompatibilitySet
  <2>2. ActiveInv' /\ overlap' = overlap
    BY <2>1, ActiveStep DEF QueryInv, registryVars
  <2>3. OneOf(members)
    BY <2>1 DEF QueryInv, ActiveInv, OneActive, OneOf
  <2>4. QED
    BY <2>1, <2>2, <2>3 DEF QueryInv, OneOf
<1>3. CASE EndQuery
  <2>1. UNCHANGED <<registryVars, compatible>> /\ query' = NoQuery
    BY <1>3 DEF EndQuery
  <2>2. ActiveInv' /\ overlap' = overlap
    BY <2>1, ActiveStep DEF QueryInv, registryVars
  <2>3. query' = [pc |-> "idle", scope |-> {}, searched |-> 0, found |-> {}]
    BY <2>1 DEF NoQuery
  <2>4. QED
    BY <2>1, <2>2, <2>3, ChannelsAssumption DEF QueryInv, OneOf
<1>4. CASE UNCHANGED retrievalVars
  <2>1. UNCHANGED <<registryVars, compatible, query>>
    BY <1>4 DEF retrievalVars
  <2>2. ActiveInv' /\ overlap' = overlap
    BY <2>1, ActiveStep DEF QueryInv, registryVars
  <2>3. QED
    BY <2>1, <2>2 DEF QueryInv, OneOf
<1>5. QED
  BY <1>1, <1>2, <1>3, <1>4, AskStep, SearchStep DEF RetrievalNext, QueryNext

(* The types of a query are right, for any number of searches.             *)
THEOREM RetrievalTypeCorrect == RetrievalSpec => []RetrievalTypeOK
<1>1. QueryInv => RetrievalTypeOK
  BY DEF QueryInv, ActiveInv, RegistryInv, RetrievalTypeOK
<1>2. QED
  BY QueryInit, QueryStep, <1>1, PTL DEF RetrievalSpec

(* The evidence of an answer is of one version, but for those that were    *)
(* activated together, however many commits, jobs and searches there are.  *)
THEOREM OneVersionFound == RetrievalSpec => []EvidenceIsOfOneVersion
<1>1. ASSUME QueryInv PROVE EvidenceIsOfOneVersion
  <2>1. PICK S : S = query.found \ overlap
    OBVIOUS
  <2>2. \A c, d \in S : c = d
    BY <1>1, <2>1 DEF QueryInv, OneOf
  <2>3. CASE S = {}
    BY <2>1, <2>3, FS_EmptySet DEF EvidenceIsOfOneVersion
  <2>4. CASE S # {}
    <3>1. PICK c \in S : TRUE
      BY <2>4
    <3>2. S = {c} /\ Cardinality({c}) = 1
      BY <2>2, <3>1, FS_Singleton
    <3>3. QED
      BY <2>1, <3>2 DEF EvidenceIsOfOneVersion
  <2>5. QED
    BY <2>3, <2>4
<1>2. QED
  BY QueryInit, QueryStep, <1>1, PTL DEF RetrievalSpec

----------------------------------------------------------------------------
(* What is served.  A step that takes something out of service is a        *)
(* withdrawal, a deletion of what was withdrawn before, or a take-over.    *)
DeletionRuns == \A j \in Jobs : run[j].pc = "deleting" => job[j].state = "RUNNING"

LEMMA DeletionRunsStep ==
  ASSUME RegistryInv, DeletionRuns, RegistryNext PROVE DeletionRuns'
<1>1. run \in [JobIds -> RunType] /\ job \in Seq(JobType) /\ Len(job) \in Nat
  BY DEF RegistryInv, RegistryTypeOK
<1>2. CASE UNCHANGED <<job, run>>
  BY <1>2 DEF DeletionRuns, Jobs
<1>3. CASE CreateIngestion \/ Withdraw
  <2>1. PICK new : job' = Append(job, new)
    BY <1>3 DEF CreateIngestion, Withdraw
  <2>2. PICK n \in Nat : n = Len(job) + 1
    BY <1>1
  <2>3. Jobs' = Jobs \cup {n} /\ n \notin Jobs /\ \A j \in Jobs : job'[j] = job[j]
    BY <1>1, <2>1, <2>2 DEF Jobs
  <2>4. n \in JobIds /\ run' = run
    BY <1>1, <1>3, <2>2, JobsAssumption DEF JobIds, CreateIngestion, Withdraw
  <2>5. run'[n].pc = "none"
    BY <2>3, <2>4 DEF RegistryInv, JobsRun
  <2>6. QED
    BY <2>3, <2>4, <2>5 DEF DeletionRuns
<1>4. ASSUME NEW j \in Jobs, DeclareIndexed(j) \/ DeclareFailed(j) \/ RunJob(j)
      PROVE  DeletionRuns'
  <2>1. /\ Jobs' = Jobs /\ j \in JobIds /\ job[j] \in JobType /\ Jobs \subseteq JobIds
        /\ \A k \in Jobs \ {j} : job'[k] = job[k]
    BY <1>4, JobTypesStay, JobFacts
  <2>2. \A k \in Jobs \ {j} : run'[k] = run[k]
    BY <1>1, <1>4, <2>1 DEF DeclareIndexed, DeclareFailed, RunJob, ClaimJob, DeleteIndex,
       BeginActivation, CommitActivation, RaiseFailure, RecordRunFailure, CutOff
  <2>3. run'[j].pc = "deleting" => job'[j].state = "RUNNING"
    <3>1. CASE ClaimJob(j)
      BY <1>1, <2>1, <3>1 DEF ClaimJob, Jobs
    <3>2. CASE DeclareIndexed(j) \/ DeclareFailed(j)
      BY <3>2, <2>1 DEF DeclareIndexed, DeclareFailed, MayComplete, RegistryInv, RunFits
    <3>3. CASE ~ClaimJob(j) /\ RunJob(j)
      <4>1. run'[j].pc # "deleting"
        BY <1>1, <2>1, <3>3 DEF RunJob, DeleteIndex, BeginActivation, CommitActivation,
           RaiseFailure, RecordRunFailure, CutOff, NotRunning
      <4>2. QED
        BY <4>1
    <3>4. QED
      BY <1>4, <3>1, <3>2, <3>3
  <2>4. QED
    BY <2>1, <2>2, <2>3 DEF DeletionRuns
<1>5. QED
  BY <1>2, <1>3, <1>4 DEF RegistryNext, Register, Scan, Approve

LEMMA ServedStep ==
  ASSUME RegistryInv, NamedOnce, DeletionsCover, ReindexSeesNothing, DeletionRuns,
         RegistryNext, NEW d \in Served, d \notin Served'
  PROVE  \/ \A c \in Commits : version'[c] \in {"NONE", "WITHDRAWN"}
         \/ \E j \in Jobs : Purged(j)' /\ ~Purged(j) /\ Served \cap Covered(j) = {}
         \/ \E c \in Commits : TakesOver(c)
<1>1. /\ version \in [Commits -> VersionState] /\ d \in Commits /\ version[d] = "ACTIVE"
      /\ d \in indexed
  BY DEF RegistryInv, RegistryTypeOK, Served, Active, InState
<1>2. ~(version'[d] = "ACTIVE" /\ d \in indexed')
  BY <1>1 DEF Served, Active, InState
<1>3. ASSUME NEW c \in Commits, Register(c) \/ Scan(c) \/ Approve(c) PROVE FALSE
  BY <1>1, <1>2, <1>3 DEF Register, Scan, Approve
<1>4. CASE CreateIngestion
  <2>1. version' = version \/ version[Newest(Candidates)] # "ACTIVE"
    BY <1>4 DEF CreateIngestion, JobFor
  <2>2. version' = version \/ version' = [version EXCEPT ![Newest(Candidates)] = "INDEXING"]
    BY <1>4 DEF CreateIngestion
  <2>3. QED
    BY <1>1, <1>2, <1>4, <2>1, <2>2 DEF CreateIngestion
<1>5. CASE Withdraw
  BY <1>5 DEF Withdraw
<1>6. ASSUME NEW j \in Jobs, DeclareIndexed(j) PROVE \E c \in Commits : TakesOver(c)
  <2>1. PICK c \in Commits : c = job[j].commit
    BY JobFacts
  <2>2. version[c] = "INDEXING" /\ version'[c] = "ACTIVE"
    BY <1>6, <2>1 DEF DeclareIndexed, MayComplete, Activated
  <2>3. job'[j].declared
    BY <1>6, JobFacts DEF DeclareIndexed, JobType, Jobs, RegistryInv, RegistryTypeOK
  <2>4. QED
    BY <2>1, <2>2, <2>3 DEF TakesOver
<1>7. ASSUME NEW j \in Jobs,
             DeclareFailed(j) \/ ClaimJob(j) \/ BeginActivation(j) \/ RaiseFailure(j)
             \/ RecordRunFailure(j) \/ CutOff(j)
      PROVE  FALSE
  BY <1>1, <1>2, <1>7 DEF DeclareFailed, MayComplete, ClaimJob, BeginActivation,
     RaiseFailure, RecordRunFailure, AfterFailedRun, CutOff
<1>8. ASSUME NEW j \in Jobs, DeleteIndex(j)
      PROVE  Purged(j)' /\ ~Purged(j) /\ Served \cap Covered(j) = {}
  <2>1. job[j].type = "DELETION" /\ job[j].state = "RUNNING"
    BY <1>8 DEF DeleteIndex, RegistryInv, RunFits, DeletionRuns
  <2>2. job'[j].type = "DELETION" /\ job'[j].state = "SUCCEEDED"
    BY <1>8, <2>1, JobFacts DEF DeleteIndex, JobType, Jobs, RegistryInv, RegistryTypeOK
  <2>3. PICK n \in 1..Len(created) : CoversUpTo(j, n)
    BY <2>1 DEF DeletionsCover
  <2>4. Position(job[j].commit) = n
    BY <2>3 DEF Position, CoversUpTo, NamedOnce
  <2>5. \A c \in Covered(j) : version[c] = "WITHDRAWN"
    BY <2>3, <2>4 DEF Covered, CoversUpTo
  <2>6. QED
    BY <2>1, <2>2, <2>5 DEF Purged, Served, Active, InState
<1>9. ASSUME NEW j \in Jobs, CommitActivation(j) PROVE \E c \in Commits : TakesOver(c)
  <2>1. PICK c \in Commits : c = job[j].commit
    BY JobFacts
  <2>2. /\ version' = Activated(c, run[j].seen) /\ indexed' = indexed \cup {c}
        /\ version[c] = IF job[j].type = "REINDEX" THEN "ACTIVE" ELSE "INDEXING"
    BY <1>9, <2>1 DEF CommitActivation, RegistryInv, OpenHoldsRow, MayActivate
  <2>3. job[j].type # "REINDEX"
    <3>1. ASSUME job[j].type = "REINDEX" PROVE FALSE
      <4>1. run[j].seen = {}
        BY <1>9, <3>1 DEF CommitActivation, ReindexSeesNothing
      <4>2. version'[d] = "ACTIVE"
        BY <1>1, <2>2, <4>1 DEF Activated
      <4>3. QED
        BY <1>1, <1>2, <2>2, <4>2
    <3>2. QED
      BY <3>1
  <2>4. version'[c] = "ACTIVE" /\ c \in indexed'
    BY <2>2 DEF Activated
  <2>5. QED
    BY <2>2, <2>3, <2>4 DEF TakesOver
<1>10. QED
  BY <1>3, <1>4, <1>5, <1>6, <1>7, <1>8, <1>9 DEF RegistryNext, RunJob

(* What is served stays until the source is withdrawn or a successor takes *)
(* over in the same step, for any commits, jobs and overlapping runs.      *)
THEOREM StaysInService == RegistrySpec => ServedUntilReplaced
<1> DEFINE Inv == ActiveInv /\ NamedOnce /\ DeletionsCover /\ DeletionRuns
<1>1. RegistryInit => Inv
  <2>1. RegistryInit => Len(created) = 0 /\ Jobs = {}
    BY DEF RegistryInit, Jobs
  <2>2. QED
    BY <2>1, InitActive DEF NamedOnce, DeletionsCover, DeletionRuns
<1>2. ASSUME Inv, [RegistryNext]_registryVars PROVE Inv'
  <2>1. CASE UNCHANGED registryVars
    <3>1. NamedOnce' /\ DeletionsCover' /\ DeletionRuns'
      BY <1>2, <2>1 DEF registryVars, NamedOnce, DeletionsCover, CoversUpTo, Jobs, Purged,
         DeletionRuns
    <3>2. QED
      BY <1>2, <3>1, ActiveStep
  <2>2. CASE RegistryNext
    BY <1>2, <2>2, ActiveStep, PurgeStep, DeletionRunsStep DEF ActiveInv
  <2>3. QED
    BY <1>2, <2>1, <2>2
<1>3. ASSUME Inv, [RegistryNext]_registryVars
      PROVE  [Served' \cap Served # Served =>
                \/ \A c \in Commits : version'[c] \in {"NONE", "WITHDRAWN"}
                \/ \E j \in Jobs : Purged(j)' /\ ~Purged(j) /\ Served \cap Covered(j) = {}
                \/ \E c \in Commits : TakesOver(c)]_registryVars
  BY <1>3, ServedStep DEF ActiveInv
<1>4. QED
  BY <1>1, <1>2, <1>3, PTL DEF RegistrySpec, ServedUntilReplaced

----------------------------------------------------------------------------
(* MemoryRegistry.  One job at a time is run; MemoryStore, which does the  *)
(* whole run when it is over, still has that job PENDING, and everything   *)
(* else as the other store has it.                                         *)
Mirror(jobs) == [version |-> version, indexed |-> indexed, job |-> jobs]
Waiting(j) == [job EXCEPT ![j].state = "PENDING"]
Resting == \A j \in JobIds : run[j].pc = "none" => run[j] = NotRunning
OneRun == \A j, k \in JobIds : run[j] # NotRunning /\ run[k] # NotRunning => j = k
Together == Quiet => memory = Mirror(job)
Behind ==
    \A j \in Jobs : run[j] # NotRunning =>
        job[j].state = "RUNNING" /\ memory = Mirror(Waiting(j))
SeesAll == \A j \in Jobs : Open(j) => run[j].seen = Superseded(j)

TwinInv ==
    /\ RegistryInv /\ Resting
    /\ ~parted => OneRun /\ Together /\ Behind /\ SeesAll

LEMMA InitTwin == TwinInit => TwinInv
<1> SUFFICES ASSUME TwinInit PROVE TwinInv
  OBVIOUS
<1>1. RegistryInv /\ Jobs = {} /\ \A j \in JobIds : run[j] = NotRunning
  BY InitRegistry DEF TwinInit, RegistryInit, Jobs
<1>2. memory = Mirror(job)
  BY DEF TwinInit, RegistryInit, MemoryInit, Mirror
<1>3. QED
  BY <1>1, <1>2 DEF TwinInv, Resting, OneRun, Together, Behind, SeesAll

(* Every step is one of the registry's.                                    *)
LEMMA TwinIsRegistry == TwinNext => RegistryNext
BY DEF TwinNext, TwinCall, TwinRun, RegistryNext, RunJob

(* A call that runs nothing and that both stores answered alike.           *)
LEMMA CallKeeps ==
  ASSUME TwinInv, RegistryInv', Quiet, run' = run, parted' \/ memory' = Mirror(job)'
  PROVE  TwinInv'
<1>1. Quiet' /\ Resting' /\ OneRun'
  BY DEF Quiet, Resting, OneRun, TwinInv
<1>2. Jobs' \subseteq JobIds
  BY JobsAssumption DEF RegistryInv, RegistryTypeOK, Jobs, JobIds
<1>3. \A j \in Jobs' : run'[j] = NotRunning
  BY <1>1, <1>2 DEF Quiet
<1>4. Behind'
  BY <1>3 DEF Behind
<1>5. SeesAll'
  BY <1>3 DEF SeesAll, Open, NotRunning
<1>6. QED
  BY <1>1, <1>4, <1>5 DEF TwinInv, Together

LEMMA RowCallStep ==
  ASSUME TwinInv, RegistryInv', Quiet, ~parted, NEW c \in Commits,
         \/ Register(c) /\ Same(RegisterIn(c))
         \/ Scan(c) /\ Same(ScanIn(c))
         \/ Approve(c) /\ Same(ApproveIn(c))
  PROVE  TwinInv'
<1>1. memory = Mirror(job)
  BY DEF TwinInv, Together
<1>2. PICK s : /\ version' = [version EXCEPT ![c] = s]
               /\ memory' = [memory EXCEPT !.version[c] = s]
               /\ UNCHANGED <<indexed, job, run>>
  BY DEF Register, Scan, Approve, Same, RegisterIn, ScanIn, ApproveIn
<1>3. memory' = Mirror(job)'
  BY <1>1, <1>2 DEF Mirror
<1>4. QED
  BY <1>2, <1>3, CallKeeps

LEMMA IngestionCallStep ==
  ASSUME TwinInv, RegistryInv', Quiet, ~parted, CreateIngestion,
         Newest(Candidates) = Latest, Same(CreateIngestionIn)
  PROVE  TwinInv'
<1>1. memory = Mirror(job)
  BY DEF TwinInv, Together
<1>2. PICK c : c = Latest
  OBVIOUS
<1>3. c \in Candidates
  <2>1. /\ Candidates \in SUBSET Commits /\ Candidates # {}
        /\ \A d \in Candidates : version[d] # "NONE"
    BY DEF Candidates, InState, Active, CreateIngestion
  <2>2. created \in Seq(Commits) /\ RowsOK
    BY DEF TwinInv, RegistryInv, RegistryTypeOK, RowsOK
  <2>3. QED
    BY <1>2, <2>1, <2>2, NewestIsOne
<1>4. version[c] \in {"APPROVED", "ACTIVE"}
  BY <1>3 DEF Candidates, InState, Active
<1>5. /\ job' = Append(job, NewJob(JobFor(c), c))
      /\ version' = IF JobFor(c) = "INGESTION" THEN [version EXCEPT ![c] = "INDEXING"]
                    ELSE version
      /\ UNCHANGED <<indexed, run>>
  BY <1>2 DEF CreateIngestion
<1>6. memory' = [memory EXCEPT !.job = Append(@, NewJob(JobFor(c), c)),
                               !.version[c] = IF @ = "APPROVED" THEN "INDEXING" ELSE @]
  BY <1>2 DEF Same, CreateIngestionIn
<1>7. version' = [version EXCEPT ![c] = IF @ = "APPROVED" THEN "INDEXING" ELSE @]
  <2>1. version \in [Commits -> VersionState]
    BY DEF TwinInv, RegistryInv, RegistryTypeOK
  <2>2. QED
    BY <1>4, <1>5, <2>1 DEF JobFor
<1>8. memory' = Mirror(job)'
  BY <1>1, <1>5, <1>6, <1>7 DEF Mirror
<1>9. QED
  BY <1>5, <1>8, CallKeeps

LEMMA WithdrawalCallStep ==
  ASSUME TwinInv, RegistryInv', Quiet, ~parted, Withdraw,
         \A c \in Commits \ {Latest} : version[c] \in {"NONE", "WITHDRAWN"},
         Same(WithdrawIn)
  PROVE  TwinInv'
<1>1. memory = Mirror(job) /\ version \in [Commits -> VersionState]
  BY DEF TwinInv, Together, RegistryInv, RegistryTypeOK
<1>2. PICK c : c = Latest
  OBVIOUS
<1>3. c \in Commits /\ version[c] # "NONE"
  BY <1>2 DEF Latest, Withdraw, TwinInv, RegistryInv, RegistryTypeOK
<1>4. /\ job' = Append(job, NewJob("DELETION", c))
      /\ version' = [d \in Commits |-> IF version[d] = "NONE" THEN "NONE" ELSE "WITHDRAWN"]
      /\ UNCHANGED <<indexed, run>>
  BY <1>2 DEF Withdraw, Latest
<1>5. version' = [version EXCEPT ![c] = "WITHDRAWN"]
  BY <1>1, <1>2, <1>3, <1>4
<1>6. memory' = [memory EXCEPT !.version[c] = "WITHDRAWN",
                               !.job = Append(@, NewJob("DELETION", c))]
  BY <1>2 DEF Same, WithdrawIn
<1>7. memory' = Mirror(job)'
  BY <1>1, <1>4, <1>5, <1>6 DEF Mirror
<1>8. QED
  BY <1>4, <1>7, CallKeeps

LEMMA DeclareCallStep ==
  ASSUME TwinInv, RegistryInv', Quiet, ~parted, NEW j \in Jobs,
         \/ DeclareIndexed(j) /\ Same(DeclareIndexedIn(j))
         \/ DeclareFailed(j) /\ Same(DeclareFailedIn(j))
  PROVE  TwinInv'
<1>1. memory = Mirror(job) /\ version \in [Commits -> VersionState]
  BY DEF TwinInv, Together, RegistryInv, RegistryTypeOK
<1>2. PICK c \in Commits : c = job[j].commit
  BY JobFacts DEF TwinInv
<1>3. CASE DeclareIndexed(j) /\ Same(DeclareIndexedIn(j))
  <2>1. ActivateIn(c) = Activated(c, Active)
    BY <1>1, <1>2 DEF ActivateIn, Activated, Active, InState, Mirror
  <2>2. /\ version' = ActivateIn(c)
        /\ job' = [job EXCEPT ![j].state = "SUCCEEDED", ![j].declared = TRUE]
        /\ UNCHANGED <<indexed, run>>
    BY <1>2, <1>3, <2>1 DEF DeclareIndexed
  <2>3. memory' = [memory EXCEPT !.version = ActivateIn(c),
                                 !.job[j].state = "SUCCEEDED", !.job[j].declared = TRUE]
    BY <1>2, <1>3 DEF Same, DeclareIndexedIn
  <2>4. memory' = Mirror(job)'
    BY <1>1, <2>2, <2>3 DEF Mirror
  <2>5. QED
    BY <2>2, <2>4, CallKeeps
<1>4. CASE DeclareFailed(j) /\ Same(DeclareFailedIn(j))
  <2>1. /\ version' = [version EXCEPT ![c] = "APPROVED"]
        /\ job' = [job EXCEPT ![j].state = "FAILED"]
        /\ UNCHANGED <<indexed, run>>
    BY <1>2, <1>4 DEF DeclareFailed
  <2>2. memory' = [memory EXCEPT !.version[c] = "APPROVED", !.job[j].state = "FAILED"]
    BY <1>2, <1>4 DEF Same, DeclareFailedIn
  <2>3. memory' = Mirror(job)'
    BY <1>1, <2>1, <2>2 DEF Mirror
  <2>4. QED
    BY <2>1, <2>3, CallKeeps
<1>5. QED
  BY <1>3, <1>4

(* The job that is claimed is the only one that runs.                      *)
LEMMA ClaimCallStep ==
  ASSUME TwinInv, RegistryInv', Quiet, ~parted, NEW j \in Jobs, ClaimJob(j),
         UNCHANGED <<memory, parted>>
  PROVE  TwinInv'
<1>1. /\ memory = Mirror(job) /\ job \in Seq(JobType) /\ run \in [JobIds -> RunType]
      /\ j \in 1..Len(job) /\ job[j] \in JobType /\ j \in JobIds
  BY JobFacts DEF TwinInv, Together, RegistryInv, RegistryTypeOK
<1>2. PICK pc \in {"deleting", "building"} :
         pc = IF job[j].type = "DELETION" THEN "deleting" ELSE "building"
  OBVIOUS
<1>3. run[j] = [pc |-> "none", seen |-> {}]
  BY <1>1 DEF Quiet, NotRunning
<1>4. run' = [run EXCEPT ![j] = [pc |-> pc, seen |-> {}]]
  <2>1. run' = [run EXCEPT ![j] = [run[j] EXCEPT !.pc = pc]]
    BY <1>2 DEF ClaimJob
  <2>2. [run[j] EXCEPT !.pc = pc] = [pc |-> pc, seen |-> {}]
    BY <1>3
  <2>3. QED
    BY <2>1, <2>2
<1>5. /\ run'[j] = [pc |-> pc, seen |-> {}]
      /\ \A k \in JobIds \ {j} : run'[k] = NotRunning
  BY <1>1, <1>4 DEF Quiet
<1>6. job' = [job EXCEPT ![j].state = "RUNNING"] /\ UNCHANGED <<version, indexed>>
      /\ job[j].state = "PENDING"
  BY DEF ClaimJob
<1>7. job'[j].state = "RUNNING" /\ Jobs' = Jobs /\ Jobs \subseteq JobIds
  BY <1>1, <1>6, JobFacts DEF Jobs, JobType, TwinInv
<1>8. [job' EXCEPT ![j].state = "PENDING"] = job
  <2>1. PICK row : row = job[j]
    OBVIOUS
  <2>2. [row EXCEPT !.state = "PENDING"] = row
    BY <1>1, <1>6, <2>1 DEF JobType
  <2>3. [[row EXCEPT !.state = "RUNNING"] EXCEPT !.state = "PENDING"] = row
    BY <1>1, <2>1, <2>2 DEF JobType
  <2>4. job'[j] = [row EXCEPT !.state = "RUNNING"]
    BY <1>1, <1>6, <2>1
  <2>5. [job' EXCEPT ![j].state = "PENDING"] = [job' EXCEPT ![j] = row]
    BY <2>3, <2>4
  <2>6. QED
    BY <1>1, <1>6, <2>1, <2>5
<1>9. memory' = Mirror([job EXCEPT ![j].state = "PENDING"])'
  BY <1>1, <1>6, <1>8 DEF Mirror
<1>10. ~Quiet'
  BY <1>1, <1>2, <1>5 DEF Quiet, NotRunning
<1>11. Resting' /\ OneRun'
  BY <1>2, <1>5 DEF Resting, OneRun
<1>12. Behind'
  BY <1>5, <1>7, <1>9 DEF Behind, Waiting
<1>13. SeesAll'
  BY <1>2, <1>5, <1>7 DEF SeesAll, Open, NotRunning
<1>14. QED
  BY <1>10, <1>11, <1>12, <1>13 DEF TwinInv, Together

(* The job that runs is the only one; what it is over with, MemoryStore    *)
(* does then.                                                              *)
LEMMA RunningFacts ==
  ASSUME TwinInv, ~parted, NEW j \in Jobs, run[j].pc # "none"
  PROVE  /\ memory = Mirror(Waiting(j)) /\ job[j].state = "RUNNING"
         /\ \A k \in JobIds \ {j} : run[k] = NotRunning
         /\ version \in [Commits -> VersionState] /\ job[j].commit \in Commits
         /\ job \in Seq(JobType) /\ j \in 1..Len(job) /\ job[j] \in JobType
         /\ run \in [JobIds -> RunType] /\ j \in JobIds /\ Jobs \subseteq JobIds
<1>1. run[j] # NotRunning /\ j \in JobIds /\ Jobs \subseteq JobIds
  BY JobFacts DEF TwinInv, NotRunning
<1>2. QED
  BY <1>1, JobFacts DEF TwinInv, Behind, OneRun, RegistryInv, RegistryTypeOK

LEMMA RunEnds ==
  ASSUME TwinInv, RegistryInv', ~parted, NEW j \in Jobs, run[j].pc # "none",
         run' = [run EXCEPT ![j] = NotRunning], parted' \/ memory' = Mirror(job)'
  PROVE  TwinInv'
<1>1. \A k \in JobIds : run'[k] = NotRunning
  BY RunningFacts
<1>2. Jobs' \subseteq JobIds
  BY JobsAssumption DEF RegistryInv, RegistryTypeOK, Jobs, JobIds
<1>3. Resting' /\ OneRun' /\ Behind'
  BY <1>1, <1>2 DEF Resting, OneRun, Behind
<1>4. SeesAll'
  BY <1>1, <1>2 DEF SeesAll, Open, NotRunning
<1>5. QED
  BY <1>3, <1>4 DEF TwinInv, Together

(* The job is as it ends, whether it was PENDING or RUNNING.               *)
LEMMA StateIsSet ==
  ASSUME job \in Seq(JobType), NEW j \in 1..Len(job), NEW s
  PROVE  [Waiting(j) EXCEPT ![j].state = s] = [job EXCEPT ![j].state = s]
<1>1. PICK row : row = job[j]
  OBVIOUS
<1>2. job[j] \in JobType
  OBVIOUS
<1>3. [[row EXCEPT !.state = "PENDING"] EXCEPT !.state = s] = [row EXCEPT !.state = s]
  BY <1>1, <1>2 DEF JobType
<1>4. Waiting(j) = [job EXCEPT ![j] = [row EXCEPT !.state = "PENDING"]]
  BY <1>1 DEF Waiting
<1>5. Waiting(j)[j] = [row EXCEPT !.state = "PENDING"]
  BY <1>4
<1>6. [Waiting(j) EXCEPT ![j].state = s]
        = [Waiting(j) EXCEPT ![j] = [row EXCEPT !.state = s]]
  BY <1>3, <1>5
<1>7. QED
  BY <1>1, <1>4, <1>6

LEMMA DeletionRunStep ==
  ASSUME TwinInv, RegistryInv', ~parted, NEW j \in Jobs,
         DeleteIndex(j), Same(DeleteIndexIn(j))
  PROVE  TwinInv'
<1>1. /\ run[j].pc = "deleting" /\ indexed' = {} /\ version' = version
      /\ job' = [job EXCEPT ![j].state = "SUCCEEDED"]
      /\ run' = [run EXCEPT ![j] = NotRunning]
  BY DEF DeleteIndex
<1>2. memory = Mirror(Waiting(j)) /\ job \in Seq(JobType) /\ j \in 1..Len(job)
  BY <1>1, RunningFacts
<1>3. memory' = [memory EXCEPT !.indexed = {}, !.job[j].state = "SUCCEEDED"]
  BY DEF Same, DeleteIndexIn
<1>4. [Waiting(j) EXCEPT ![j].state = "SUCCEEDED"] = job'
  BY <1>1, <1>2, StateIsSet
<1>5. memory' = Mirror(job)'
  BY <1>1, <1>2, <1>3, <1>4 DEF Mirror
<1>6. QED
  BY <1>1, <1>5, RunEnds

LEMMA IndexRunStep ==
  ASSUME TwinInv, RegistryInv', ~parted, NEW j \in Jobs,
         CommitActivation(j), Same(IndexIn(j))
  PROVE  TwinInv'
<1>1. PICK c : c = job[j].commit
  OBVIOUS
<1>2. /\ run[j].pc = "open" /\ indexed' = indexed \cup {c}
      /\ version' = Activated(c, run[j].seen)
      /\ job' = [job EXCEPT ![j].state = "SUCCEEDED"]
      /\ run' = [run EXCEPT ![j] = NotRunning]
  BY <1>1 DEF CommitActivation, Open
<1>3. /\ memory = Mirror(Waiting(j)) /\ job \in Seq(JobType) /\ j \in 1..Len(job)
      /\ version \in [Commits -> VersionState] /\ c \in Commits
  BY <1>1, <1>2, RunningFacts
<1>4. PICK v : v = IF job[j].type = "REINDEX" THEN [memory.version EXCEPT ![c] = "ACTIVE"]
                   ELSE ActivateIn(c)
  OBVIOUS
<1>5. memory' = [memory EXCEPT !.indexed = @ \cup {c}, !.version = v,
                               !.job[j].state = "SUCCEEDED"]
  BY <1>1, <1>4 DEF Same, IndexIn
<1>6. memory.version = version
  BY <1>3 DEF Mirror
<1>7. run[j].seen = Superseded(j)
  BY DEF TwinInv, SeesAll, CommitActivation
<1>8. version' = v
  <2>1. CASE job[j].type = "REINDEX"
    BY <1>2, <1>3, <1>4, <1>6, <1>7, <2>1 DEF Superseded, Activated
  <2>2. CASE job[j].type # "REINDEX"
    BY <1>2, <1>3, <1>4, <1>6, <1>7, <2>2 DEF Superseded, Activated, ActivateIn, Active, InState
  <2>3. QED
    BY <2>1, <2>2
<1>9. [Waiting(j) EXCEPT ![j].state = "SUCCEEDED"] = job'
  BY <1>2, <1>3, StateIsSet
<1>10. memory' = Mirror(job)'
  BY <1>2, <1>3, <1>5, <1>8, <1>9 DEF Mirror
<1>11. QED
  BY <1>2, <1>10, RunEnds

LEMMA FailureRunStep ==
  ASSUME TwinInv, RegistryInv', ~parted, NEW j \in Jobs, RecordRunFailure(j),
         IF MayActivate(j) THEN Same(FailureIn(j)) ELSE Differs
  PROVE  TwinInv'
<1>1. PICK c : c = job[j].commit
  OBVIOUS
<1>2. /\ run[j].pc = "failing" /\ version' = AfterFailedRun(j) /\ indexed' = indexed
      /\ job' = [job EXCEPT ![j].state = "FAILED"]
      /\ run' = [run EXCEPT ![j] = NotRunning]
  BY DEF RecordRunFailure
<1>3. /\ memory = Mirror(Waiting(j)) /\ job \in Seq(JobType) /\ j \in 1..Len(job)
      /\ version \in [Commits -> VersionState] /\ c \in Commits
  BY <1>1, <1>2, RunningFacts
<1>4. CASE ~MayActivate(j)
  BY <1>2, <1>4, RunEnds DEF Differs
<1>5. CASE MayActivate(j)
  <2>1. PICK s : s = IF job[j].type = "REINDEX" THEN memory.version[c] ELSE "APPROVED"
    OBVIOUS
  <2>2. memory' = [memory EXCEPT !.version[c] = s, !.job[j].state = "FAILED"]
    BY <1>1, <1>5, <2>1 DEF Same, FailureIn
  <2>3. memory.version = version
    BY <1>3 DEF Mirror
  <2>4. version' = [version EXCEPT ![c] = s]
    BY <1>1, <1>2, <1>3, <1>5, <2>1, <2>3 DEF AfterFailedRun, MayActivate
  <2>5. [Waiting(j) EXCEPT ![j].state = "FAILED"] = job'
    BY <1>2, <1>3, StateIsSet
  <2>6. memory' = Mirror(job)'
    BY <1>2, <1>3, <2>2, <2>4, <2>5 DEF Mirror
  <2>7. QED
    BY <1>2, <2>6, RunEnds
<1>6. QED
  BY <1>4, <1>5

LEMMA RunGoesOnStep ==
  ASSUME TwinInv, RegistryInv', ~parted, NEW j \in Jobs,
         BeginActivation(j) \/ RaiseFailure(j), UNCHANGED <<memory, parted>>
  PROVE  TwinInv'
<1>1. PICK new \in {[pc |-> "open", seen |-> Superseded(j)],
                    [pc |-> "failing", seen |-> {}]} :
         /\ run' = [run EXCEPT ![j] = new]
         /\ UNCHANGED <<version, indexed, job>> /\ run[j].pc # "none"
  BY DEF BeginActivation, RaiseFailure
<1>2. /\ memory = Mirror(Waiting(j)) /\ job[j].state = "RUNNING"
      /\ run \in [JobIds -> RunType] /\ j \in JobIds /\ Jobs \subseteq JobIds
      /\ \A k \in JobIds \ {j} : run[k] = NotRunning
  BY <1>1, RunningFacts
<1>3. run'[j] = new /\ \A k \in JobIds \ {j} : run'[k] = NotRunning
  BY <1>1, <1>2
<1>4. Jobs' = Jobs /\ new.pc # "none" /\ new # NotRunning
  BY <1>1 DEF Jobs, NotRunning
<1>5. Resting' /\ OneRun' /\ ~Quiet'
  BY <1>2, <1>3, <1>4 DEF Resting, OneRun, Quiet
<1>6. Mirror(Waiting(j))' = memory'
  BY <1>1, <1>2 DEF Mirror, Waiting
<1>7. Behind'
  BY <1>1, <1>2, <1>3, <1>4, <1>6 DEF Behind
<1>8. SeesAll'
  <2>1. ASSUME NEW k \in Jobs, Open(k)' PROVE k = j /\ new.pc = "open"
    BY <1>2, <1>3, <2>1 DEF Open, NotRunning
  <2>2. new.pc = "open" => new.seen = Superseded(j)
    BY <1>1
  <2>3. Superseded(j)' = Superseded(j)
    BY <1>1 DEF Superseded, Active, InState
  <2>4. QED
    BY <1>3, <1>4, <2>1, <2>2, <2>3 DEF SeesAll
<1>9. QED
  BY <1>5, <1>7, <1>8 DEF TwinInv, Together

LEMMA TwinStep == ASSUME TwinInv, [TwinNext]_twinVars PROVE TwinInv'
<1>1. CASE UNCHANGED twinVars
  <2>1. UNCHANGED <<version, created, indexed, job, run, overlap, memory, parted>>
        /\ UNCHANGED registryVars
    BY <1>1 DEF twinVars, registryVars
  <2>2. RegistryInv'
    BY <2>1, RegistryStep DEF TwinInv
  <2>3. QED
    BY <2>1, <2>2 DEF TwinInv, Resting, OneRun, Together, Behind, SeesAll, Quiet, Jobs, Open,
       Mirror, Waiting, Superseded, Active, InState
<1>2. CASE TwinNext
  <2>1. ~parted /\ RegistryInv'
    BY <1>2, TwinIsRegistry, RegistryStep DEF TwinInv, TwinNext
  <2>2. CASE Quiet /\ TwinCall
    <3>1. CASE CreateIngestion /\ Differs
      BY <2>1, <2>2, <3>1, CallKeeps DEF CreateIngestion, Differs
    <3>2. CASE Withdraw /\ Differs
      BY <2>1, <2>2, <3>2, CallKeeps DEF Withdraw, Differs
    <3>3. QED
      BY <2>1, <2>2, <3>1, <3>2, RowCallStep, IngestionCallStep, WithdrawalCallStep,
         DeclareCallStep, ClaimCallStep DEF TwinCall
  <2>3. CASE \E j \in Jobs : TwinRun(j)
    BY <2>1, <2>3, DeletionRunStep, IndexRunStep, FailureRunStep, RunGoesOnStep DEF TwinRun
  <2>4. QED
    BY <1>2, <2>2, <2>3 DEF TwinNext
<1>3. QED
  BY <1>1, <1>2

LEMMA TwinAgrees == TwinInv => MemoryAgrees
BY DEF TwinInv, Together, MemoryAgrees, Mirror

LEMMA TwinInvariant == TwinSpec => []TwinInv
BY InitTwin, TwinStep, PTL DEF TwinSpec

(* The store of the tests answers as the deployed one does, until a call   *)
(* the two are known to answer differently, for any commits and jobs.      *)
THEOREM TestsTellTheTruth == TwinSpec => []MemoryAgrees
BY TwinInvariant, TwinAgrees, PTL

MemoryType == [version : [Commits -> VersionState], indexed : SUBSET Commits, job : Seq(JobType)]
MemoryTypeOK == memory \in MemoryType /\ parted \in BOOLEAN
Mirrored == ~parted => memory \in MemoryType

(* While the two stores agree, what MemoryStore holds has the type of what *)
(* the other one holds.                                                    *)
LEMMA MirrorTyped == TwinInv => Mirrored
<1> SUFFICES ASSUME TwinInv, ~parted PROVE memory \in MemoryType
  BY DEF Mirrored
<1>1. /\ version \in [Commits -> VersionState] /\ indexed \subseteq Commits
      /\ job \in Seq(JobType)
  BY DEF TwinInv, RegistryInv, RegistryTypeOK
<1>2. CASE Quiet
  BY <1>1, <1>2 DEF TwinInv, Together, Mirror, MemoryType
<1>3. CASE ~Quiet
  <2>1. PICK j \in JobIds : run[j] # NotRunning
    BY <1>3 DEF Quiet
  <2>2. j \in Jobs
    BY <2>1 DEF TwinInv, Resting, RegistryInv, JobsRun
  <2>3. memory = Mirror(Waiting(j)) /\ job[j] \in JobType /\ j \in 1..Len(job)
    BY <2>1, <2>2, JobFacts DEF TwinInv, Behind
  <2>4. [job[j] EXCEPT !.state = "PENDING"] \in JobType
    BY <2>3 DEF JobType
  <2>5. Waiting(j) \in Seq(JobType)
    BY <1>1, <2>3, <2>4 DEF Waiting
  <2>6. QED
    BY <1>1, <2>3, <2>5 DEF Mirror, MemoryType
<1>4. QED
  BY <1>2, <1>3

(* A call that is answered differently leaves MemoryStore as it is here.   *)
LEMMA MemoryTypeStep ==
  ASSUME MemoryTypeOK, Mirrored', [TwinNext]_twinVars PROVE MemoryTypeOK'
<1>1. CASE UNCHANGED twinVars
  BY <1>1 DEF MemoryTypeOK, twinVars, MemoryType
<1>2. CASE TwinNext
  <2>1. ~parted /\ (parted' = parted \/ (parted' = TRUE /\ memory' = memory))
    <3>1. TwinCall => parted' = parted \/ (parted' = TRUE /\ memory' = memory)
      BY DEF TwinCall, Same, Differs
    <3>2. ASSUME NEW j \in Jobs, TwinRun(j)
          PROVE  parted' = parted \/ (parted' = TRUE /\ memory' = memory)
      BY <3>2 DEF TwinRun, Same, Differs
    <3>3. QED
      BY <1>2, <3>1, <3>2 DEF TwinNext
  <2>2. CASE parted' = parted
    BY <2>1, <2>2 DEF MemoryTypeOK, Mirrored
  <2>3. CASE parted' = TRUE /\ memory' = memory
    BY <2>3 DEF MemoryTypeOK, MemoryType
  <2>4. QED
    BY <2>1, <2>2, <2>3
<1>3. QED
  BY <1>1, <1>2

(* Every variable of the two stores has its type, that of the tests even   *)
(* after the two have parted.                                              *)
THEOREM TwinTypeCorrect == TwinSpec => []TwinTypeOK
<1>1. TwinInv /\ MemoryTypeOK => TwinTypeOK
  BY DEF TwinInv, RegistryInv, MemoryTypeOK, MemoryType, TwinTypeOK
<1>2. TwinInit /\ Mirrored => MemoryTypeOK
  BY DEF TwinInit, Mirrored, MemoryTypeOK
<1>3. QED
  BY <1>1, <1>2, TwinInvariant, MirrorTyped, MemoryTypeStep, PTL DEF TwinSpec
=============================================================================

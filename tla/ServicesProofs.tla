--------------------------- MODULE ServicesProofs ---------------------------
(***************************************************************************)
(* Theorems about the services together, as MCServices composes them: one  *)
(* of them moves, whichever it is.  A step of the composition is a step of *)
(* every part or leaves it alone, so what is proved of a part holds here.  *)
(* Each holds for all values of the constants; that none disturbs another  *)
(* is what a single run of TLC relies on, and is proved first.             *)
(***************************************************************************)
EXTENDS MCServices, OperationsProofs, SourceRegistryProofs, AnsweringProofs

----------------------------------------------------------------------------
(* Steps.                                                                  *)

LEMMA SomePartMoves == ASSUME Next PROVE part \in Parts /\ Moves(part)
BY DEF Next, Moves, Parts

LEMMA PartsStep ==
  ASSUME Next
  PROVE  /\ part = "registry" => RegistryNext
         /\ part = "retrieval" => RetrievalNext
         /\ part = "twin" => TwinNext
         /\ part = "deliveries" => DeliveryNext
         /\ part = "chat" => ChatNext
         /\ part = "artifacts" => ArtifactNext
         /\ part = "monitor" => MonitorNext
         /\ part = "releases" => ReleaseNext
         /\ part = "failures" => FailureNext
         /\ part = "review" => ReviewNext
         /\ part = "breaker" => BreakerNext
         /\ part = "answers" => AnsweringNext
         /\ part = "backups" => BackupNext
         /\ part = "drafts" => DraftNext
BY DEF Next, Moves

LEMMA NobodyMoves ==
  ASSUME UNCHANGED allVars
  PROVE  /\ UNCHANGED retrievalVars /\ UNCHANGED <<memory, parted>> /\ UNCHANGED gatewayVars
         /\ UNCHANGED artifactVars /\ UNCHANGED monitorVars /\ UNCHANGED releaseVars
         /\ UNCHANGED failureVars /\ UNCHANGED reviewVars /\ UNCHANGED breakerVars
         /\ UNCHANGED answeringVars /\ UNCHANGED draftVars /\ UNCHANGED backupVars
         /\ UNCHANGED part
BY DEF allVars

LEMMA TheOthersRest ==
  ASSUME Next
  PROVE  /\ part \notin {"registry", "retrieval", "twin"} => UNCHANGED registryVars
         /\ part # "retrieval" => UNCHANGED <<compatible, query>>
         /\ part # "twin" => UNCHANGED <<memory, parted>>
         /\ part \notin {"deliveries", "chat"} => UNCHANGED gatewayVars
         /\ part # "artifacts" => UNCHANGED artifactVars
         /\ part # "monitor" => UNCHANGED monitorVars
         /\ part # "releases" => UNCHANGED releaseVars
         /\ part # "failures" => UNCHANGED failureVars
         /\ part # "review" => UNCHANGED reviewVars
         /\ part # "breaker" => UNCHANGED breakerVars
         /\ part # "answers" => UNCHANGED answeringVars
         /\ part # "backups" => UNCHANGED backupVars
         /\ part # "drafts" => UNCHANGED draftVars
         /\ UNCHANGED part
BY SomePartMoves DEF Moves

(* The steps of those that are only of one part.                           *)
LEMMA StepsOfOne ==
  ASSUME [Next]_allVars
  PROVE  /\ [ArtifactNext]_artifactVars /\ [MonitorNext]_monitorVars
         /\ [ReleaseNext]_releaseVars /\ [FailureNext]_failureVars
         /\ [ReviewNext]_reviewVars /\ [BreakerNext]_breakerVars
         /\ [AnsweringNext]_answeringVars /\ [BackupNext]_backupVars
         /\ [DraftNext]_draftVars
BY PartsStep, TheOthersRest, NobodyMoves

LEMMA GatewaySteps == ASSUME [Next]_allVars PROVE [GatewayNext]_gatewayVars
BY PartsStep, TheOthersRest, NobodyMoves DEF GatewayNext

(* The registry moves in three parts, and so do the queries over it.       *)
LEMMA RetrievalSteps == ASSUME [Next]_allVars PROVE [RetrievalNext]_retrievalVars
<1>1. ASSUME RegistryNext, UNCHANGED <<compatible, query>> PROVE RetrievalNext
  BY <1>1 DEF RetrievalNext
<1>2. ASSUME UNCHANGED registryVars, UNCHANGED <<compatible, query>> PROVE UNCHANGED retrievalVars
  BY <1>2 DEF retrievalVars
<1>3. QED
  BY <1>1, <1>2, PartsStep, TheOthersRest, NobodyMoves, TwinIsRegistry

LEMMA RegistrySteps == ASSUME [Next]_allVars PROVE [RegistryNext]_registryVars
<1>1. UNCHANGED retrievalVars => UNCHANGED registryVars
  BY DEF retrievalVars
<1>2. QueryNext => UNCHANGED registryVars
  BY DEF QueryNext, CreateCompatibilitySet, Ask, Search, EndQuery
<1>3. QED
  BY <1>1, <1>2, RetrievalSteps DEF RetrievalNext

----------------------------------------------------------------------------
(* Every service behaves as it does by itself.                             *)

LEMMA PartsInit ==
  ASSUME Init
  PROVE  /\ RetrievalInit /\ RegistryInit /\ GatewayInit /\ ArtifactInit /\ MonitorInit
         /\ ReleaseInit /\ FailureInit /\ ReviewInit /\ BreakerInit /\ AnsweringInit
         /\ BackupInit /\ DraftInit /\ MemoryInit /\ parted = (part # "twin")
BY DEF Init, RetrievalInit

(* The composition implements the specification of each of its parts: in   *)
(* none of their states do the others do anything a part by itself would   *)
(* not.  (Of those with fairness, the invariants are carried over below.)  *)
THEOREM PartsImplemented ==
  Spec => /\ RegistrySpec /\ RetrievalSpec /\ GatewaySpec /\ MonitorSpec /\ ReleaseSpec
          /\ FailureSpec /\ AnsweringSpec /\ BackupSpec /\ DraftSpec
<1>1. Init => /\ RegistryInit /\ RetrievalInit /\ GatewayInit /\ MonitorInit /\ ReleaseInit
              /\ FailureInit /\ AnsweringInit /\ BackupInit /\ DraftInit
  BY PartsInit
<1>2. [Next]_allVars => /\ [RegistryNext]_registryVars /\ [RetrievalNext]_retrievalVars
                        /\ [GatewayNext]_gatewayVars /\ [MonitorNext]_monitorVars
                        /\ [ReleaseNext]_releaseVars /\ [FailureNext]_failureVars
                        /\ [AnsweringNext]_answeringVars /\ [BackupNext]_backupVars
                        /\ [DraftNext]_draftVars
  BY StepsOfOne, GatewaySteps, RetrievalSteps, RegistrySteps
<1>3. QED
  BY <1>1, <1>2, PTL DEF Spec, RegistrySpec, RetrievalSpec, GatewaySpec, MonitorSpec, ReleaseSpec,
     FailureSpec, AnsweringSpec, BackupSpec, DraftSpec

FairInv == ArtifactInv /\ ReviewInv /\ BreakerInv /\ BreakerTypeOK

LEMMA FairParts == Spec => []FairInv
<1>1. Init => FairInv
  BY PartsInit, InitArtifact, InitReview, InitBreaker, InitBreakerTypes DEF FairInv
<1>2. FairInv /\ [Next]_allVars => FairInv'
  BY StepsOfOne, ArtifactStep, ReviewStep, BreakerStep, BreakerTypeStep DEF FairInv
<1>3. QED
  BY <1>1, <1>2, PTL DEF Spec

(* The two stores are compared in one part, and the comparison is over in  *)
(* the others before it began.                                             *)
Compared ==
    /\ part = "twin" => TwinInv
    /\ part # "twin" => parted = TRUE

LEMMA ComparedInvariant == Spec => []Compared
<1>1. Init => Compared
  <2> SUFFICES ASSUME Init PROVE Compared
    OBVIOUS
  <2>1. CASE part = "twin"
    <3>1. TwinInit
      BY <2>1, PartsInit DEF TwinInit
    <3>2. QED
      BY <2>1, <3>1, InitTwin DEF Compared
  <2>2. CASE part # "twin"
    BY <2>2, PartsInit DEF Compared
  <2>3. QED
    BY <2>1, <2>2
<1>2. Compared /\ [Next]_allVars => Compared'
  <2> SUFFICES ASSUME Compared, [Next]_allVars PROVE Compared'
    OBVIOUS
  <2>1. UNCHANGED part
    BY TheOthersRest, NobodyMoves
  <2>2. CASE part = "twin"
    <3>1. [TwinNext]_twinVars
      <4>1. UNCHANGED allVars => UNCHANGED twinVars
        BY NobodyMoves DEF twinVars, retrievalVars
      <4>2. QED
        BY <2>2, <4>1, PartsStep
    <3>2. QED
      BY <2>1, <2>2, <3>1, TwinStep DEF Compared
  <2>3. CASE part # "twin"
    <3>1. UNCHANGED parted
      BY <2>3, TheOthersRest, NobodyMoves
    <3>2. QED
      BY <2>1, <2>3, <3>1 DEF Compared
  <2>4. QED
    BY <2>2, <2>3
<1>3. QED
  BY <1>1, <1>2, PTL DEF Spec

LEMMA MemoryTypes == Spec => []MemoryTypeOK
<1>1. Compared => Mirrored
  BY MirrorTyped DEF Compared, Mirrored
<1>2. Init => MemoryTypeOK
  <2> SUFFICES ASSUME Init PROVE MemoryTypeOK
    OBVIOUS
  <2>1. memory \in MemoryType
    <3>1. [c \in Commits |-> "NONE"] \in [Commits -> VersionState] /\ <<>> \in Seq(JobType)
      BY DEF VersionState
    <3>2. memory = [version |-> [c \in Commits |-> "NONE"], indexed |-> {}, job |-> <<>>]
      BY PartsInit DEF MemoryInit
    <3>3. QED
      BY <3>1, <3>2 DEF MemoryType
  <2>2. QED
    BY <2>1, PartsInit DEF MemoryTypeOK
<1>3. ASSUME MemoryTypeOK, Mirrored', [Next]_allVars PROVE MemoryTypeOK'
  <2>1. CASE UNCHANGED <<memory, parted>>
    BY <1>3, <2>1 DEF MemoryTypeOK, MemoryType
  <2>2. CASE TwinNext
    BY <1>3, <2>2, MemoryTypeStep
  <2>3. QED
    BY <1>3, <2>1, <2>2, PartsStep, TheOthersRest, NobodyMoves
<1>4. QED
  BY <1>1, <1>2, <1>3, ComparedInvariant, PTL DEF Spec

----------------------------------------------------------------------------
(* Every variable of every service has its type, whichever of them moves.  *)
THEOREM ServicesTypeCorrect == Spec => []TypeOK
<1>1. Spec => [](RetrievalTypeOK /\ GatewayTypeOK /\ MonitorTypeOK /\ ReleaseTypeOK)
  BY PartsImplemented, RetrievalTypeCorrect, GatewayTypeCorrect, MonitorTypeCorrect,
     ReleaseTypeCorrect, PTL
<1>2. Spec => [](FailureTypeOK /\ AnsweringTypeOK /\ BackupTypeOK /\ DraftTypeOK)
  BY PartsImplemented, FailureTypeCorrect, AnsweringTypeCorrect, BackupTypeCorrect,
     DraftTypeCorrect, PTL
<1>3. FairInv => ArtifactTypeOK /\ ReviewTypeOK /\ BreakerTypeOK
  BY ReviewIsTyped DEF FairInv, ArtifactInv
<1>4. RetrievalTypeOK /\ MemoryTypeOK => TwinTypeOK
  BY DEF RetrievalTypeOK, MemoryTypeOK, MemoryType, TwinTypeOK
<1>5. RetrievalTypeOK /\ TwinTypeOK /\ GatewayTypeOK /\ ArtifactTypeOK /\ MonitorTypeOK
        /\ ReleaseTypeOK /\ FailureTypeOK /\ ReviewTypeOK /\ BreakerTypeOK /\ AnsweringTypeOK
        /\ BackupTypeOK /\ DraftTypeOK
        => TypeOK
  BY DEF TypeOK
<1>6. QED
  BY <1>1, <1>2, <1>3, <1>4, <1>5, FairParts, MemoryTypes, PTL

(* Every promise of a service that is a safety property holds of them      *)
(* together: what the run on a small instance shows of the invariants and  *)
(* of the steps, for any values of the constants.                          *)
Promises ==
    /\ WithdrawalPurges /\ IndexingHasJob /\ EvidenceIsOfOneVersion /\ MemoryAgrees
    /\ ForwardedOnce /\ OneMessageAtATime /\ ChatKnows /\ RollbackTarget /\ PublishedIsJudged
    /\ OneProbe /\ AnswersAreGrounded /\ EverySourceIsReviewed /\ QuestionsCanBeAsked

(* Side by side, every service keeps its promises, and no step of any of   *)
(* them breaks what a step must keep: a withdrawn version stays withdrawn, *)
(* what is served stays until it is replaced, the alerts of an outage are  *)
(* those of the register's promise, a restore point remains, and an        *)
(* observer is silent only for a reason.                                   *)
THEOREM ServicesKeepPromises ==
  Spec => /\ []Promises
          /\ WithdrawnIsFinal /\ ServedUntilReplaced /\ KeepsPromise
          /\ RestorePointRemains /\ SilenceIsHonest
<1>1. Spec => [](/\ WithdrawalPurges /\ IndexingHasJob /\ EvidenceIsOfOneVersion
                 /\ ForwardedOnce /\ OneMessageAtATime /\ ChatKnows /\ RollbackTarget)
  BY PartsImplemented, PurgedForGood, IndexingGoesOn, OneVersionFound, DeliveriesForwardedOnce,
     MessagesGoAlone, ChatIsTold, WayBackIsInOrder, PTL
<1>2. Spec => [](AnswersAreGrounded /\ EverySourceIsReviewed /\ QuestionsCanBeAsked)
  BY PartsImplemented, AnswersStandOnEvidence, EverySourceSeen, QuestionsAsked, PTL
<1>3. FairInv => PublishedIsJudged /\ OneProbe
  BY ProbesAreOne, ReviewIsJudged DEF FairInv
<1>4. Compared => MemoryAgrees
  BY TwinAgrees DEF Compared, MemoryAgrees
<1>5. WithdrawalPurges /\ IndexingHasJob /\ EvidenceIsOfOneVersion /\ MemoryAgrees
        /\ ForwardedOnce /\ OneMessageAtATime /\ ChatKnows /\ RollbackTarget /\ PublishedIsJudged
        /\ OneProbe /\ AnswersAreGrounded /\ EverySourceIsReviewed /\ QuestionsCanBeAsked
        => Promises
  BY DEF Promises
<1>6. Spec => []Promises
  BY <1>1, <1>2, <1>3, <1>4, <1>5, FairParts, ComparedInvariant, PTL
<1>7. Spec => /\ WithdrawnIsFinal /\ ServedUntilReplaced /\ KeepsPromise
              /\ RestorePointRemains /\ SilenceIsHonest
  BY PartsImplemented, WithdrawalIsFinal, StaysInService, PromiseKept, AlwaysRestorable,
     SilenceMeansRestorable, PTL
<1>8. QED
  BY <1>6, <1>7, PTL
=============================================================================

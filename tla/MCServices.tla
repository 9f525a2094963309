----------------------------- MODULE MCServices -----------------------------
(***************************************************************************)
(* The services around the assistant for TLC.  They share no state, but    *)
(* for the registry and the queries over it: what the event gateway passes *)
(* on to the registry is a discovery, which may come at any time           *)
(* (Register), and the others meet only the operator.  So one run checks   *)
(* them side by side: part says which of them moves.                       *)
(***************************************************************************)
EXTENDS Retrieval, MemoryRegistry, EventGateway, ArtifactStore,
        CommunityMonitor, ReleaseDeployment, OperationFailure, CommunityReview,
        ProviderBreaker, Answering, CommunityDraft, StateBackup

VARIABLE part

Parts == {"registry", "retrieval", "twin", "deliveries", "chat", "artifacts",
          "monitor", "releases", "failures", "review", "breaker", "answers", "drafts", "backups"}

(* Bound: ingestion jobs while queries are asked.                          *)
MaxJobsQueried == 2

allVars == <<retrievalVars, memory, parted, gatewayVars, artifactVars,
             monitorVars, releaseVars, failureVars, reviewVars, breakerVars,
             answeringVars, draftVars, backupVars, part>>

Init ==
    /\ part \in Parts
    /\ RetrievalInit
    /\ MemoryInit
    /\ parted = (part # "twin")  \* the two stores are compared in their part only
    /\ GatewayInit
    /\ part # "deliveries" => kind = [e \in Events |-> "IGNORED"]
    /\ ArtifactInit
    /\ MonitorInit
    /\ ReleaseInit
    /\ FailureInit
    /\ ReviewInit
    /\ BreakerInit
    /\ AnsweringInit
    /\ BackupInit
    /\ DraftInit
    /\ part # "drafts" => title = 5

(* Part p moves, and nothing else does.                                    *)
Moves(p) ==
    /\ part = p /\ UNCHANGED part
    /\ p \notin {"registry", "retrieval", "twin"} => UNCHANGED registryVars
    /\ p # "retrieval" => UNCHANGED <<compatible, query>>
    /\ p # "twin" => UNCHANGED <<memory, parted>>
    /\ p \notin {"deliveries", "chat"} => UNCHANGED gatewayVars
    /\ p # "artifacts" => UNCHANGED artifactVars
    /\ p # "monitor" => UNCHANGED monitorVars
    /\ p # "releases" => UNCHANGED releaseVars
    /\ p # "failures" => UNCHANGED failureVars
    /\ p # "review" => UNCHANGED reviewVars
    /\ p # "breaker" => UNCHANGED breakerVars
    /\ p # "answers" => UNCHANGED answeringVars
    /\ p # "backups" => UNCHANGED backupVars
    /\ p # "drafts" => UNCHANGED draftVars

Next ==
    \/ Moves("registry") /\ RegistryNext
    \/ Moves("retrieval") /\ RetrievalNext /\ Len(job') <= MaxJobsQueried
    \/ Moves("twin") /\ TwinNext
    \/ Moves("deliveries") /\ DeliveryNext
    \/ Moves("chat") /\ ChatNext
    \/ Moves("artifacts") /\ ArtifactNext
    \/ Moves("monitor") /\ MonitorNext
    \/ Moves("releases") /\ ReleaseNext
    \/ Moves("failures") /\ FailureNext
    \/ Moves("review") /\ ReviewNext
    \/ Moves("breaker") /\ BreakerNext
    \/ Moves("answers") /\ AnsweringNext
    \/ Moves("backups") /\ BackupNext
    \/ Moves("drafts") /\ DraftNext

(* ArtifactFairness, ReviewFairness and BreakerFairness, of the part that  *)
(* moves.                                                                  *)
Fairness ==
    /\ WF_artifactVars(part = "artifacts" /\ Maintain)
    /\ WF_artifactVars(part = "artifacts" /\ Unlink("gateway"))
    /\ WF_reviewVars(part = "review" /\ Reconcile)
    /\ \A c \in Calls : WF_reviewVars(part = "review" /\ CallStep(c))
    /\ WF_breakerVars(part = "breaker" /\ Waited)
    /\ \A a \in Askers : WF_breakerVars(part = "breaker" /\ \E ok \in BOOLEAN : Return(a, ok))
    /\ WF_breakerVars(part = "breaker" /\ \E a \in Askers : Probe(a))

Spec == Init /\ [][Next]_allVars /\ Fairness

(* Every variable of every part has its type.                              *)
TypeOK ==
    /\ RetrievalTypeOK
    /\ TwinTypeOK
    /\ GatewayTypeOK
    /\ ArtifactTypeOK
    /\ MonitorTypeOK
    /\ ReleaseTypeOK
    /\ FailureTypeOK
    /\ ReviewTypeOK
    /\ BreakerTypeOK
    /\ AnsweringTypeOK
    /\ BackupTypeOK
    /\ DraftTypeOK
=============================================================================

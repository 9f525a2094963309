--------------------------- MODULE AnsweringProofs ---------------------------
(***************************************************************************)
(* Theorems about how a question is answered and what becomes of the       *)
(* answer: the provider's breaker (ProviderBreaker), for any number of     *)
(* threads and of results that are remembered; the way of a question to    *)
(* its answer (Answering), for any artifacts; and the review of a case's   *)
(* answer (CommunityReview), for any number of drafts, posts and calls     *)
(* that are broken off.                                                    *)
(***************************************************************************)
EXTENDS ProviderBreaker, Answering, CommunityReview,
        CommunityDraftProofs  \* for the lemmas about folds

----------------------------------------------------------------------------
(* ProviderBreaker.  Whoever is away while the breaker is open is a probe, *)
(* or left before it opened.                                               *)
AwayIsKnown == open => Away \subseteq overdue \cup Probes

(* Nobody late: the breaker is half open for the one probe that is away.   *)
ProbeIsAwaited ==
    ~late => /\ \A a, b \in Probes : a = b
             /\ Probes # {} => open /\ halfOpen

Flags == /\ open \in BOOLEAN /\ halfOpen \in BOOLEAN /\ late \in BOOLEAN
         /\ asker \in [Askers -> {"idle", "call", "probe"}]
BreakerInv == Flags /\ AwayIsKnown /\ ProbeIsAwaited

LEMMA InitBreaker == BreakerInit => BreakerInv
  BY DEF BreakerInit, BreakerInv, Flags, AwayIsKnown, ProbeIsAwaited, Away, Probes

LEMMA CallThroughKeeps == ASSUME BreakerInv, NEW a \in Askers, CallThrough(a) PROVE BreakerInv'
<1>1. Flags' /\ ~open'
  BY DEF BreakerInv, Flags, CallThrough
<1>2. Probes' = Probes
  BY DEF BreakerInv, Flags, CallThrough, Probes
<1>3. QED
  BY <1>1, <1>2 DEF BreakerInv, AwayIsKnown, ProbeIsAwaited, CallThrough

LEMMA ProbeKeeps == ASSUME BreakerInv, NEW a \in Askers, Probe(a) PROVE BreakerInv'
<1>1. Flags' /\ open' /\ halfOpen'
  BY DEF BreakerInv, Flags, Probe, Claimed
<1>2. Probes' = Probes \cup {a} /\ Away' = Away \cup {a}
  BY DEF BreakerInv, Flags, Probe, Probes, Away
<1>3. ~late => Probes = {}
  BY DEF BreakerInv, ProbeIsAwaited, Probe
<1>4. QED
  BY <1>1, <1>2, <1>3 DEF BreakerInv, AwayIsKnown, ProbeIsAwaited, Probe

(* A result: of the probe, or of a call that is late when there is one.    *)
LEMMA ReturnKeeps ==
  ASSUME BreakerInv, NEW a \in Askers, NEW ok \in BOOLEAN, Return(a, ok)
  PROVE  BreakerInv'
<1>1. /\ Away' = Away \ {a} /\ Probes' = Probes \ {a} /\ a \in Away
      /\ asker' \in [Askers -> {"idle", "call", "probe"}]
  BY DEF BreakerInv, Flags, Return, Away, Probes
<1>2. \/ /\ open' = FALSE /\ halfOpen' = FALSE
      \/ /\ open' = TRUE /\ halfOpen' = FALSE /\ overdue' = Away \ {a}
      \/ /\ ~(open /\ halfOpen) /\ UNCHANGED <<open, halfOpen>> /\ overdue' = overdue \ {a}
  BY DEF Return, ProbeReturns, CallReturns, Opens, Stays
<1>3. Flags'
  BY <1>1, <1>2 DEF BreakerInv, Flags, Return
<1>4. AwayIsKnown'
  BY <1>1, <1>2 DEF BreakerInv, AwayIsKnown
<1>5. ASSUME ~late', Away # {a}
      PROVE  Probes' = {} \/ (Probes' = Probes /\ UNCHANGED <<open, halfOpen>>)
  <2>1. ~late /\ ~(open /\ a \in overdue)
    BY <1>5 DEF Return
  <2>2. open => a \in Probes
    BY <1>1, <2>1 DEF BreakerInv, AwayIsKnown
  <2>3. CASE a \in Probes
    BY <1>1, <2>1, <2>3 DEF BreakerInv, ProbeIsAwaited
  <2>4. CASE ~open
    BY <1>1, <2>1, <2>4 DEF BreakerInv, ProbeIsAwaited
  <2>5. QED
    BY <2>2, <2>3, <2>4
<1>6. Away = {a} => Probes' = {}
  <2>1. Probes \subseteq Away
    BY DEF Away, Probes
  <2>2. Probes' = Probes \ {a}
    BY <1>1
  <2>3. QED
    BY <2>1, <2>2
<1>7. ProbeIsAwaited'
  <2>1. CASE Away = {a}
    BY <2>1, <1>6 DEF ProbeIsAwaited
  <2>2. CASE Away # {a}
    <3>1. SUFFICES ASSUME ~late'
                   PROVE  (/\ \A b, c \in Probes : b = c
                           /\ Probes # {} => open /\ halfOpen)'
      BY DEF ProbeIsAwaited
    <3>2. ~late
      BY <2>2, <3>1 DEF Return
    <3>3. QED
      BY <1>5, <2>2, <3>1, <3>2 DEF BreakerInv, ProbeIsAwaited
  <2>3. QED
    BY <2>1, <2>2
<1>8. QED
  BY <1>3, <1>4, <1>7 DEF BreakerInv

LEMMA WaitKeeps ==
  ASSUME BreakerInv, Waited \/ UNCHANGED breakerVars
  PROVE  BreakerInv'
<1>1. UNCHANGED <<open, halfOpen, asker, overdue, late>>
  BY DEF Waited, breakerVars
<1>2. Away' = Away /\ Probes' = Probes
  BY <1>1 DEF Away, Probes
<1>3. QED
  BY <1>1, <1>2 DEF BreakerInv, Flags, AwayIsKnown, ProbeIsAwaited

LEMMA BreakerStep == ASSUME BreakerInv, [BreakerNext]_breakerVars PROVE BreakerInv'
BY CallThroughKeeps, ProbeKeeps, ReturnKeeps, WaitKeeps DEF BreakerNext

LEMMA BreakerInvariant == BreakerSpec => []BreakerInv
BY InitBreaker, BreakerStep, PTL DEF BreakerSpec

LEMMA ProbesAreOne == BreakerInv => OneProbe
<1>1. SUFFICES ASSUME BreakerInv, ~late PROVE Cardinality(Probes) <= 1
  BY DEF OneProbe
<1>2. \A a, b \in Probes : a = b
  BY <1>1 DEF BreakerInv, ProbeIsAwaited
<1>3. CASE Probes = {}
  BY <1>3, FS_EmptySet
<1>4. CASE Probes # {}
  <2>1. PICK p \in Probes : TRUE
    BY <1>4
  <2>2. Probes = {p}
    BY <1>2, <2>1
  <2>3. Cardinality({p}) = 1
    BY FS_Singleton
  <2>4. QED
    BY <2>2, <2>3
<1>5. QED
  BY <1>3, <1>4

(* A provider that failed is asked by one call at a time, however many     *)
(* threads have questions and however many results are remembered, unless  *)
(* a call of before the failure came back meanwhile.                       *)
THEOREM ProbesGoAlone == BreakerSpec => []OneProbe
BY BreakerInvariant, ProbesAreOne, PTL

LEMMA InitBreakerTypes == BreakerInit => BreakerTypeOK
<1> SUFFICES ASSUME BreakerInit PROVE BreakerTypeOK
  OBVIOUS
<1>1. window \in Seq(BOOLEAN) /\ Len(window) = 0 /\ MaxWindow \in Nat
  BY BreakerAssumption DEF BreakerInit
<1>2. Len(window) <= MaxWindow
  BY <1>1
<1>3. asker \in [Askers -> {"idle", "call", "probe"}]
  BY DEF BreakerInit
<1>4. overdue = {} /\ open \in BOOLEAN /\ waited \in BOOLEAN /\ halfOpen \in BOOLEAN /\ late \in BOOLEAN
  BY DEF BreakerInit
<1>5. QED
  BY <1>1, <1>2, <1>3, <1>4 DEF BreakerTypeOK

(* The results of the window, without those that are too old and with one  *)
(* more, are no more than are remembered.                                  *)
LEMMA WindowMoves ==
  ASSUME window \in Seq(BOOLEAN), NEW ok \in BOOLEAN, NEW expired \in 0..Len(window),
         Len(window) - expired < MaxWindow,
         window' = Append(SubSeq(window, expired + 1, Len(window)), ok)
  PROVE  window' \in Seq(BOOLEAN) /\ Len(window') <= MaxWindow
<1>1. /\ SubSeq(window, expired + 1, Len(window)) \in Seq(BOOLEAN)
      /\ Len(SubSeq(window, expired + 1, Len(window))) = Len(window) - expired
  OBVIOUS
<1>2. window' \in Seq(BOOLEAN) /\ Len(window') = Len(window) - expired + 1
  BY <1>1
<1>3. QED
  BY <1>2, BreakerAssumption

LEMMA ReturnTypes ==
  ASSUME BreakerTypeOK, NEW a \in Askers, NEW ok \in BOOLEAN, Return(a, ok)
  PROVE  BreakerTypeOK'
<1>1. Away' = Away \ {a} /\ asker' \in [Askers -> {"idle", "call", "probe"}]
  BY DEF BreakerTypeOK, Return, Away
<1>2. window' \in Seq(BOOLEAN) /\ Len(window') <= MaxWindow
  <2>1. CASE window' = <<>>
    <3>1. <<>> \in Seq(BOOLEAN) /\ Len(<<>>) = 0
      OBVIOUS
    <3>2. QED
      BY <2>1, <3>1, BreakerAssumption
  <2>2. CASE window' = window
    BY <2>2 DEF BreakerTypeOK
  <2>3. CASE CallReturns(a, ok)
    BY <2>3, WindowMoves DEF CallReturns, BreakerTypeOK
  <2>4. QED
    BY <2>1, <2>2, <2>3 DEF Return, ProbeReturns
<1>3. open' \in BOOLEAN /\ waited' \in BOOLEAN /\ halfOpen' \in BOOLEAN /\ overdue' \subseteq Away'
  BY <1>1 DEF BreakerTypeOK, Return, ProbeReturns, CallReturns, Opens, Stays
<1>4. late' \in BOOLEAN
  BY DEF Return
<1>5. QED
  BY <1>1, <1>2, <1>3, <1>4 DEF BreakerTypeOK

LEMMA BreakerTypeStep == ASSUME BreakerTypeOK, [BreakerNext]_breakerVars PROVE BreakerTypeOK'
<1>1. ASSUME NEW a \in Askers, CallThrough(a) \/ Probe(a) PROVE BreakerTypeOK'
  <2>1. Away' = Away \cup {a} /\ asker' \in [Askers -> {"idle", "call", "probe"}]
    BY <1>1 DEF BreakerTypeOK, CallThrough, Probe, Away
  <2>2. halfOpen' \in BOOLEAN /\ UNCHANGED <<open, waited, window, overdue, late>>
    BY <1>1 DEF BreakerTypeOK, CallThrough, Probe, Claimed
  <2>3. QED
    BY <2>1, <2>2 DEF BreakerTypeOK
<1>2. CASE Waited
  BY <1>2 DEF Waited, BreakerTypeOK, Away
<1>3. CASE UNCHANGED breakerVars
  BY <1>3 DEF breakerVars, BreakerTypeOK, Away
<1>4. QED
  BY <1>1, <1>2, <1>3, ReturnTypes DEF BreakerNext

(* Every variable of the breaker has its type: the window is never longer  *)
(* than what is remembered, and whoever is overdue is away.                *)
THEOREM BreakerTypeCorrect == BreakerSpec => []BreakerTypeOK
  BY InitBreakerTypes, BreakerTypeStep, PTL DEF BreakerSpec

----------------------------------------------------------------------------
(* Answering.  A question waits for one answer; what is handed to the      *)
(* provider passed the checks before it, and no question about a guest     *)
(* system gets that far without the documentation it needs.                *)
QuestionFit ==
    /\ asked \in {NoQuestion} \cup GroundedQueryRequest \cup ComprehensiveQueryRequest
    /\ context \subseteq [source : Sources, test : BOOLEAN]
AnsweredOnce ==
    /\ answer.state # "NONE" => stage = "idle"
    /\ asked = NoQuestion => answer.state = "NONE" /\ web = "unneeded"
    /\ stage \in {"search", "review"} => web = "unneeded"
    /\ stage # "idle" => asked # NoQuestion
    /\ stage = "review" => asked.kind = "comprehensive"
HandedOver ==
    stage = "generate" =>
       /\ asked.kind = "grounded" => MayGenerate(asked, context)
       /\ asked.kind = "comprehensive" /\ asked.guest => web # "failed"

AnsweringInv == QuestionFit /\ AnsweredOnce /\ HandedOver /\ AnswersAreGrounded

LEMMA NameableSources == Nameable \subseteq Sources
<1>1. \A i \in 1..9 : Versioned[i] \in Sources
  BY DEF Sources, Range, Versioned
<1>2. Versioned[1] = "SHARED_DOCS" /\ Versioned[2] = "CLOUD_DIPLO" /\ Versioned[8] = "CLOUD_EUROPA"
  BY DEF Versioned
<1>3. QED
  BY <1>1, <1>2 DEF Nameable, Cloud

LEMMA SourcesFinite == IsFiniteSet(Sources)
<1>1. Versioned \in [1..9 -> Sources]
  <2>1. DOMAIN Versioned = 1..9
    BY DEF Versioned
  <2>2. \A i \in 1..9 : Versioned[i] \in Sources
    BY <2>1 DEF Sources, Range
  <2>3. Versioned = [i \in 1..9 |-> Versioned[i]]
    BY DEF Versioned
  <2>4. QED
    BY <2>2, <2>3
<1>2. Versioned \in Surjection(1..9, Sources)
  <2>1. DOMAIN Versioned = 1..9
    BY <1>1
  <2>2. \A s \in Sources : \E i \in 1..9 : Versioned[i] = s
    BY <2>1 DEF Sources, Range
  <2>3. QED
    BY <1>1, <2>2 DEF Surjection
<1>3. IsFiniteSet(1..9)
  <2>1. 1 \in Int /\ 9 \in Int
    OBVIOUS
  <2>2. QED
    BY <2>1, FS_Interval
<1>4. QED
  BY <1>2, <1>3, FS_Surjection

(* Of less evidence, no more repositories.                                 *)
LEMMA FewerRepositories ==
  ASSUME NEW E, E \subseteq [source : Sources, test : BOOLEAN], NEW F, F \subseteq E
  PROVE  Cardinality(Repositories(F)) > 1 => Cardinality(Repositories(E)) > 1
<1>1. IsFiniteSet(Sources \cup {"CLOUD"})
  BY SourcesFinite, FS_AddElement
<1>2. Repositories(E) \subseteq Sources \cup {"CLOUD"} /\ Repositories(F) \subseteq Repositories(E)
  BY DEF Repositories, Repository
<1>3. IsFiniteSet(Repositories(E))
  BY <1>1, <1>2, FS_Subset
<1>4. /\ Cardinality(Repositories(F)) <= Cardinality(Repositories(E))
      /\ IsFiniteSet(Repositories(F))
  BY <1>2, <1>3, FS_Subset
<1>5. Cardinality(Repositories(F)) \in Nat /\ Cardinality(Repositories(E)) \in Nat
  BY <1>3, <1>4, FS_CardinalityType
<1>6. QED
  BY <1>4, <1>5

LEMMA KindsDiffer ==
  /\ NoQuestion.kind = "none"
  /\ \A q \in GroundedQueryRequest : q.kind = "grounded" /\ q.members \in ApprovedSets
  /\ \A q \in ComprehensiveQueryRequest : q.kind = "comprehensive"
  BY DEF NoQuestion, GroundedQueryRequest, ComprehensiveQueryRequest

LEMMA InitAnswering == AnsweringInit => AnsweringInv
<1> SUFFICES ASSUME AnsweringInit PROVE AnsweringInv
  OBVIOUS
<1>1. /\ asked = NoQuestion /\ stage = "idle" /\ context = {} /\ web = "unneeded"
      /\ answer.state = "NONE"
  BY DEF AnsweringInit
<1>2. QED
  BY <1>1 DEF AnsweringInv, QuestionFit, AnsweredOnce, HandedOver, AnswersAreGrounded

(* No answer is given, or one that is none.                                *)
LEMMA NoAnswerKeeps ==
  ASSUME QuestionFit', AnsweredOnce', HandedOver', answer'.state # "ANSWERED"
  PROVE  AnsweringInv'
  BY DEF AnsweringInv, AnswersAreGrounded

LEMMA AskKeeps ==
  ASSUME AnsweringInv,
         \/ \E q \in GroundedQueryRequest : AskGrounded(q)
         \/ \E q \in ComprehensiveQueryRequest : AskComprehensive(q)
  PROVE  AnsweringInv'
<1>1. /\ QuestionFit' /\ asked = NoQuestion /\ asked' # NoQuestion
      /\ UNCHANGED <<web, context>>
      /\ stage' \in {"idle", "search", "review"}
      /\ stage' = "review" => asked'.kind = "comprehensive"
      /\ answer' = answer \/ (answer' = [state |-> "NEEDS_INFORMATION"] /\ stage' = "idle")
  BY KindsDiffer DEF AskGrounded, AskComprehensive, AnsweringInv, QuestionFit, Answered
<1>2. answer.state = "NONE" /\ web = "unneeded" /\ (answer' = answer \/ stage' = "idle")
  BY <1>1 DEF AnsweringInv, AnsweredOnce
<1>3. AnsweredOnce' /\ HandedOver' /\ answer'.state # "ANSWERED"
  BY <1>1, <1>2 DEF AnsweredOnce, HandedOver
<1>4. QED
  BY <1>1, <1>3, NoAnswerKeeps

LEMMA EndQuestionKeeps == ASSUME AnsweringInv, EndQuestion PROVE AnsweringInv'
<1>1. stage = "idle" /\ stage' = "idle"
  BY DEF EndQuestion, AnsweringInv, AnsweredOnce
<1>2. QED
  BY <1>1, NoAnswerKeeps DEF EndQuestion, QuestionFit, AnsweredOnce, HandedOver

LEMMA SearchGroundedKeeps ==
  ASSUME AnsweringInv, NEW found \in SUBSET Evidence(Nameable), SearchGrounded(found)
  PROVE  AnsweringInv'
<1>1. /\ UNCHANGED <<asked, web>> /\ asked.kind = "grounded" /\ stage = "search"
      /\ asked # NoQuestion
  BY KindsDiffer DEF SearchGrounded
<1>2. found \subseteq [source : Sources, test : BOOLEAN]
  BY NameableSources DEF Evidence
<1>3. CASE MayGenerate(asked, found) /\ GoOnWith(found)
  <2>1. answer' = answer /\ stage' = "generate" /\ context' = found
    BY <1>3 DEF GoOnWith
  <2>2. answer.state = "NONE"
    BY <1>1 DEF AnsweringInv, AnsweredOnce
  <2>3. QuestionFit' /\ AnsweredOnce'
    BY <1>1, <1>2, <2>1, <2>2 DEF AnsweringInv, QuestionFit, AnsweredOnce
  <2>4. HandedOver'
    BY <1>1, <1>3, <2>1 DEF HandedOver
  <2>5. QED
    BY <2>1, <2>2, <2>3, <2>4, NoAnswerKeeps
<1>4. CASE Answered("ABSTAINED")
  <2>1. QuestionFit' /\ AnsweredOnce' /\ HandedOver' /\ answer'.state # "ANSWERED"
    BY <1>1, <1>4 DEF Answered, AnsweringInv, QuestionFit, AnsweredOnce, HandedOver
  <2>2. QED
    BY <2>1, NoAnswerKeeps
<1>5. QED
  BY <1>3, <1>4 DEF SearchGrounded

(* Evidence of a comprehensive question is handed over, or is not.         *)
LEMMA HandOverKeeps ==
  ASSUME AnsweringInv, NEW found \in SUBSET [source : Sources, test : BOOLEAN],
         HandOver(found) \/ \E state \in {"FAILED", "ERROR"} : Answered(state),
         stage # "idle", asked' = asked, asked.kind = "comprehensive",
         asked.guest => web' # "failed" \/ stage' = "idle"
  PROVE  AnsweringInv'
<1>1. answer.state = "NONE" /\ asked # NoQuestion
  BY KindsDiffer DEF AnsweringInv, AnsweredOnce
<1>2. \/ context' = found /\ stage' = "generate" /\ answer' = answer
      \/ stage' = "idle" /\ UNCHANGED context
         /\ \E state \in {"FAILED", "ERROR", "ABSTAINED", "NOT_FOUND"} : answer' = [state |-> state]
  BY DEF HandOver, GoOnWith, Answered
<1>3. QuestionFit' /\ AnsweredOnce' /\ answer'.state # "ANSWERED"
  BY <1>1, <1>2 DEF AnsweringInv, QuestionFit, AnsweredOnce
<1>4. HandedOver'
  BY <1>2 DEF HandedOver
<1>5. QED
  BY <1>3, <1>4, NoAnswerKeeps

LEMMA SearchComprehensiveKeeps ==
  ASSUME AnsweringInv, NEW found \in SUBSET Nameable, SearchComprehensive(found)
  PROVE  AnsweringInv'
<1>1. [source : found, test : {FALSE}] \in SUBSET [source : Sources, test : BOOLEAN]
  BY NameableSources
<1>2. web' = "unneeded"
  BY DEF SearchComprehensive, AnsweringInv, AnsweredOnce
<1>3. QED
  BY <1>1, <1>2, HandOverKeeps DEF SearchComprehensive

(* However the sources are weighed, the documentation is there or is not   *)
(* needed, or the question has failed.                                     *)
LEMMA ReviewAnswerKeeps == ASSUME AnsweringInv, Review PROVE AnsweringInv'
<1>1. PICK offered \in Offers, topic \in Topics, curated \in 1..4 :
         LET found == [source : Selected(offered, topic, curated), test : {FALSE}] IN
         \/ web' = "unneeded" /\ HandOver(found)
         \/ web' = "found" /\ offered["CURATED"] > 0 /\ HandOver(found)
         \/ web' = "failed" /\ (Answered("FAILED") \/ (~MustSearchWeb /\ HandOver(found)))
  BY DEF Review
<1>2. PICK found : found = [source : Selected(offered, topic, curated), test : {FALSE}]
  OBVIOUS
<1>3. found \in SUBSET [source : Sources, test : BOOLEAN]
  BY <1>2 DEF Selected
<1>4. stage # "idle" /\ asked' = asked /\ asked.kind = "comprehensive"
  BY DEF Review, AnsweringInv, AnsweredOnce
<1>5. HandOver(found) \/ Answered("FAILED")
  BY <1>1, <1>2
<1>6. asked.guest => web' # "failed" \/ stage' = "idle"
  BY <1>1, <1>2 DEF MustSearchWeb, Answered
<1>7. QED
  BY <1>3, <1>4, <1>5, <1>6, HandOverKeeps

LEMMA GenerateFailsKeeps ==
  ASSUME AnsweringInv, NEW state \in {"FAILED", "ERROR"}, GenerateFails(state)
  PROVE  AnsweringInv'
<1>1. /\ UNCHANGED <<asked, web, context>> /\ stage = "generate" /\ stage' = "idle"
      /\ answer' = [state |-> state]
  BY DEF GenerateFails, Answered
<1>2. QuestionFit' /\ AnsweredOnce' /\ HandedOver' /\ answer'.state # "ANSWERED"
  BY <1>1 DEF AnsweringInv, QuestionFit, AnsweredOnce, HandedOver
<1>3. QED
  BY <1>2, NoAnswerKeeps

(* What a grounded answer cites was given, and passes what decide_         *)
(* generation asked of all that was given.                                 *)
LEMMA GenerateGroundedKeeps ==
  ASSUME AnsweringInv, NEW says \in {"ANSWERED", "ABSTAINED"},
         NEW cited \in SUBSET (context \cup {Unknown}), GenerateGrounded(says, cited)
  PROVE  AnsweringInv'
<1>1. /\ UNCHANGED <<asked, web, context>> /\ stage = "generate" /\ stage' = "idle"
      /\ asked.kind = "grounded" /\ answer'.state = Verdict(says, cited)
  BY DEF GenerateGrounded
<1>2. QuestionFit' /\ AnsweredOnce' /\ HandedOver'
  BY <1>1 DEF AnsweringInv, QuestionFit, AnsweredOnce, HandedOver
<1>3. CASE Verdict(says, cited) # "ANSWERED"
  BY <1>1, <1>2, <1>3, NoAnswerKeeps
<1>4. CASE Verdict(says, cited) = "ANSWERED"
  <2>1. /\ says = "ANSWERED" /\ cited # {} /\ Unknown \notin cited
        /\ ~BranchConflict(cited) /\ ~TestOnly(cited)
    BY <1>4 DEF Verdict
  <2>2. answer' = [state |-> "ANSWERED", cited |-> cited]
    BY <1>4, <2>1 DEF GenerateGrounded
  <2>3. cited \subseteq context
    BY <2>1
  <2>4. Cardinality(Repositories(cited)) > 1 => asked.members # {}
    <3>1. MayGenerate(asked, context) /\ context \subseteq [source : Sources, test : BOOLEAN]
      BY <1>1 DEF AnsweringInv, HandedOver, QuestionFit
    <3>2. Cardinality(Repositories(context)) > 1 => asked.members # {}
      BY <3>1 DEF MayGenerate
    <3>3. QED
      BY <2>3, <3>1, <3>2, FewerRepositories
  <2>5. AnswersAreGrounded'
    <3>1. answer'.cited = cited /\ asked' = asked /\ context' = context
      BY <1>1, <2>2
    <3>2. ~TestOnly(answer'.cited) /\ ~BranchConflict(answer'.cited)
      BY <2>1, <3>1
    <3>3. Cardinality(Repositories(answer'.cited)) > 1 => asked'.members # {}
      BY <2>4, <3>1
    <3>4. asked'.kind # "comprehensive"
      BY <1>1
    <3>5. QED
      BY <2>1, <2>3, <3>1, <3>2, <3>3, <3>4
         DEF AnswersAreGrounded, TestOnly, BranchConflict, Repositories
  <2>6. QED
    BY <1>2, <2>5 DEF AnsweringInv
<1>5. QED
  BY <1>3, <1>4

LEMMA GenerateComprehensiveKeeps ==
  ASSUME AnsweringInv, NEW says \in {"ANSWERED", "ABSTAINED"}, NEW examined \in SUBSET Attachments,
         NEW cited, GenerateComprehensive(says, cited, examined)
  PROVE  AnsweringInv'
<1>1. /\ UNCHANGED <<asked, web, context>> /\ stage = "generate" /\ answer.state = "NONE"
      /\ asked.kind = "comprehensive" /\ cited \subseteq context \cup {Unknown}
  BY DEF GenerateComprehensive, Answered, AnsweringInv, AnsweredOnce
<1>2. QuestionFit' /\ (asked.guest => web # "failed") /\ asked # NoQuestion
  BY <1>1 DEF AnsweringInv, QuestionFit, HandedOver, AnsweredOnce
<1>3. CASE /\ Acceptable(cited, examined) /\ stage' = "idle"
           /\ answer' = [state |-> says, cited |-> cited, examined |-> examined]
  <2>1. AnsweredOnce' /\ HandedOver'
    BY <1>1, <1>2, <1>3 DEF AnsweringInv, AnsweredOnce, HandedOver
  <2>2. AnswersAreGrounded'
    <3>1. /\ cited \subseteq context /\ asked.current \subseteq examined
          /\ answer'.cited = cited /\ answer'.examined = examined
      BY <1>1, <1>3 DEF Acceptable
    <3>2. asked'.kind # "grounded"
      BY <1>1
    <3>3. QED
      BY <1>1, <1>2, <3>1, <3>2 DEF AnswersAreGrounded
  <2>3. QED
    BY <1>2, <2>1, <2>2 DEF AnsweringInv
<1>4. CASE UNCHANGED <<stage, answer>>
  BY <1>1, <1>2, <1>4, NoAnswerKeeps DEF AnsweringInv, AnsweredOnce, HandedOver
<1>5. CASE stage' = "idle" /\ answer' = [state |-> "FAILED"]
  BY <1>1, <1>2, <1>5, NoAnswerKeeps DEF AnsweringInv, AnsweredOnce, HandedOver
<1>6. QED
  BY <1>3, <1>4, <1>5 DEF GenerateComprehensive, Answered

LEMMA AnsweringStep ==
  ASSUME AnsweringInv, [AnsweringNext]_answeringVars PROVE AnsweringInv'
<1>1. CASE AnsweringNext
  <2>1. ASSUME NEW found \in SUBSET Evidence(Nameable), SearchGrounded(found)
        PROVE  AnsweringInv'
    BY <2>1, SearchGroundedKeeps
  <2>2. ASSUME NEW found \in SUBSET Nameable, SearchComprehensive(found) PROVE AnsweringInv'
    BY <2>2, SearchComprehensiveKeeps
  <2>3. ASSUME NEW state \in {"FAILED", "ERROR"}, GenerateFails(state) PROVE AnsweringInv'
    BY <2>3, GenerateFailsKeeps
  <2>4. ASSUME NEW says \in {"ANSWERED", "ABSTAINED"},
               NEW cited \in SUBSET (context \cup {Unknown}), GenerateGrounded(says, cited)
        PROVE  AnsweringInv'
    BY <2>4, GenerateGroundedKeeps
  <2>5. ASSUME NEW says \in {"ANSWERED", "ABSTAINED"}, NEW examined \in SUBSET Attachments,
               NEW cited, GenerateComprehensive(says, cited, examined)
        PROVE  AnsweringInv'
    BY <2>5, GenerateComprehensiveKeeps
  <2>6. QED
    BY <1>1, <2>1, <2>2, <2>3, <2>4, <2>5, AskKeeps, EndQuestionKeeps, ReviewAnswerKeeps
       DEF AnsweringNext
<1>2. CASE UNCHANGED answeringVars
  BY <1>2 DEF answeringVars, AnsweringInv, QuestionFit, AnsweredOnce, HandedOver,
     AnswersAreGrounded, MayGenerate, TestOnly, BranchConflict, Repositories
<1>3. QED
  BY <1>1, <1>2

LEMMA AnsweringInvariant == AnsweringSpec => []AnsweringInv
BY InitAnswering, AnsweringStep, PTL DEF AnsweringSpec

(* What is given as an answer rests on what was looked at, however many    *)
(* artifacts a question carries and whatever the provider replies.         *)
THEOREM AnswersStandOnEvidence == AnsweringSpec => []AnswersAreGrounded
<1>1. AnsweringInv => AnswersAreGrounded
  BY DEF AnsweringInv
<1>2. QED
  BY AnsweringInvariant, <1>1, PTL

----------------------------------------------------------------------------
(* The review of the sources: what of each is selected.                    *)

(* What each topic admits of a source, and that it is never nothing.       *)
LEMMA LimitsAre ==
  ASSUME NEW topic \in Topics, NEW s \in Sources
  PROVE  Limit(topic, s) \in 1..6
<1>1. CASE topic = "GENERAL"
  BY <1>1 DEF Limit
<1>2. CASE topic = "SPECIALISED"
  BY <1>2 DEF Limit
<1>3. CASE topic = "NETWORK"
  BY <1>3 DEF Limit
<1>4. QED
  BY <1>1, <1>2, <1>3 DEF Topics

Versions == {"SHARED_DOCS", "CLOUD_DIPLO", "WALL_MAIN", "COCKPIT_DIPLO", "GENIE_MASTER",
             "KICKSTART_MASTER", "QEMU_EXEC_TOOLS_MAIN", "CLOUD_EUROPA", "CURATED"}

LEMMA SourcesAre == Sources = Versions
<1>1. /\ DOMAIN Versioned = 1..9
      /\ Versioned[1] = "SHARED_DOCS" /\ Versioned[2] = "CLOUD_DIPLO" /\ Versioned[3] = "WALL_MAIN"
      /\ Versioned[4] = "COCKPIT_DIPLO" /\ Versioned[5] = "GENIE_MASTER"
      /\ Versioned[6] = "KICKSTART_MASTER" /\ Versioned[7] = "QEMU_EXEC_TOOLS_MAIN"
      /\ Versioned[8] = "CLOUD_EUROPA" /\ Versioned[9] = "CURATED"
  BY DEF Versioned
<1>2. Sources = {Versioned[i] : i \in 1..9}
  BY <1>1 DEF Sources, Range
<1>3. \A i \in 1..9 : i \in {1, 2, 3, 4, 5, 6, 7, 8, 9}
  OBVIOUS
<1>4. QED
  BY <1>1, <1>2, <1>3 DEF Versions

(* What the topic admits of the sources of a set, in all.                  *)
RoomFor(topic) ==
    [t \in SUBSET Sources |->
       LET Of(s) == IF s \in t THEN Limit(topic, s) ELSE 0 IN
       Of("SHARED_DOCS") + Of("CLOUD_DIPLO") + Of("WALL_MAIN") + Of("COCKPIT_DIPLO")
       + Of("GENIE_MASTER") + Of("KICKSTART_MASTER") + Of("QEMU_EXEC_TOOLS_MAIN")
       + Of("CLOUD_EUROPA") + Of("CURATED")]

LEMMA RoomGrows ==
  ASSUME NEW topic \in Topics, NEW t \in SUBSET Sources
  PROVE  /\ RoomFor(topic)[t] \in Nat
         /\ \A s \in t : /\ RoomFor(topic)[t \ {s}] \in Nat
                         /\ RoomFor(topic)[t] = RoomFor(topic)[t \ {s}] + Limit(topic, s)
<1> DEFINE Of(u, s) == IF s \in u THEN Limit(topic, s) ELSE 0
<1>1. \A u \in SUBSET Sources : RoomFor(topic)[u] =
         Of(u, "SHARED_DOCS") + Of(u, "CLOUD_DIPLO") + Of(u, "WALL_MAIN") + Of(u, "COCKPIT_DIPLO")
         + Of(u, "GENIE_MASTER") + Of(u, "KICKSTART_MASTER") + Of(u, "QEMU_EXEC_TOOLS_MAIN")
         + Of(u, "CLOUD_EUROPA") + Of(u, "CURATED")
  BY DEF RoomFor
<1>2. \A u \in SUBSET Sources, s \in Sources : Of(u, s) \in Nat
  BY LimitsAre
<1>3. \A s \in Versions : s \in Sources
  BY SourcesAre
<1>4. \A u \in SUBSET Sources : RoomFor(topic)[u] \in Nat
  BY <1>1, <1>2, <1>3 DEF Versions
<1>5. ASSUME NEW s \in t PROVE RoomFor(topic)[t] = RoomFor(topic)[t \ {s}] + Limit(topic, s)
  <2>1. \A r \in Sources : r # s => Of(t \ {s}, r) = Of(t, r)
    OBVIOUS
  <2>2. Of(t \ {s}, s) = 0 /\ Of(t, s) = Limit(topic, s)
    OBVIOUS
  <2>3. s \in Versions /\ t \ {s} \in SUBSET Sources
    BY SourcesAre
  <2>4. \A r \in Versions : Of(t, r) = Of(t \ {s}, r) + (IF r = s THEN Limit(topic, s) ELSE 0)
    BY <1>2, <1>3, <2>1, <2>2, <2>3
  <2>5. \A r \in Versions : Of(t \ {s}, r) \in Nat
    BY <1>2, <1>3, <2>3
  <2>6. Limit(topic, s) \in Nat
    BY LimitsAre
  <2> HIDE DEF Of
  <2>7. QED
    BY <1>1, <2>3, <2>4, <2>5, <2>6 DEF Versions
<1>6. QED
  BY <1>4, <1>5

(* Eighteen of all, whatever the topic.                                    *)
LEMMA RoomForAll ==
  ASSUME NEW topic \in Topics, NEW t \in SUBSET Sources
  PROVE  RoomFor(topic)[t] <= 18
<1> DEFINE Of(s) == IF s \in t THEN Limit(topic, s) ELSE 0
<1>1. RoomFor(topic)[t] =
         Of("SHARED_DOCS") + Of("CLOUD_DIPLO") + Of("WALL_MAIN") + Of("COCKPIT_DIPLO")
         + Of("GENIE_MASTER") + Of("KICKSTART_MASTER") + Of("QEMU_EXEC_TOOLS_MAIN")
         + Of("CLOUD_EUROPA") + Of("CURATED")
  BY DEF RoomFor
<1>2. \A s \in Versions : Of(s) \in 0..Limit(topic, s) /\ Limit(topic, s) \in 1..6
  BY SourcesAre, LimitsAre
<1>3. Limit(topic, "SHARED_DOCS") + Limit(topic, "CLOUD_DIPLO") + Limit(topic, "WALL_MAIN")
      + Limit(topic, "COCKPIT_DIPLO") + Limit(topic, "GENIE_MASTER") + Limit(topic, "KICKSTART_MASTER")
      + Limit(topic, "QEMU_EXEC_TOOLS_MAIN") + Limit(topic, "CLOUD_EUROPA") + Limit(topic, "CURATED")
      = 18
  <2>1. CASE topic = "GENERAL"
    BY <2>1 DEF Limit
  <2>2. CASE topic = "SPECIALISED"
    BY <2>2 DEF Limit
  <2>3. CASE topic = "NETWORK"
    BY <2>3 DEF Limit
  <2>4. QED
    BY <2>1, <2>2, <2>3 DEF Topics
<1>4. \A s \in Versions : Of(s) \in Nat /\ Limit(topic, s) \in Nat /\ Of(s) <= Limit(topic, s)
  BY <1>2
<1> HIDE DEF Of
<1>5. QED
  BY <1>1, <1>3, <1>4 DEF Versions

(* So every source that has something is selected: what goes before it is  *)
(* never as much as twenty.                                                *)
LEMMA EverySourceSelected ==
  ASSUME NEW offered \in [Sources -> Nat], NEW topic \in Topics, NEW curated \in 1..4,
         NEW s \in Sources, offered[s] > 0
  PROVE  s \in Selected(offered, topic, curated)
<1> DEFINE Taken(r) == Min({offered[r], Limit(topic, r)})
           Ahead == {t \in Sources \ {s} :
                       \/ Priority(t, curated) < Priority(s, curated)
                       \/ /\ Priority(t, curated) = Priority(s, curated)
                          /\ IndexOf(t) < IndexOf(s)}
           v == [r \in Ahead |-> Taken(r)]
           g == [t \in SUBSET Ahead |-> RoomFor(topic)[t]]
<1>1. \A r \in Sources : Taken(r) \in 0..Limit(topic, r) /\ (offered[r] > 0 => Taken(r) > 0)
  <2>1. ASSUME NEW r \in Sources PROVE Taken(r) \in 0..Limit(topic, r) /\ (offered[r] > 0 => Taken(r) > 0)
    <3>1. offered[r] \in Nat /\ Limit(topic, r) \in 1..6
      BY LimitsAre
    <3>2. Taken(r) = IF offered[r] < Limit(topic, r) THEN offered[r] ELSE Limit(topic, r)
      BY <3>1 DEF Min
    <3>3. QED
      BY <3>1, <3>2
  <2>2. QED
    BY <2>1
<1>2. Ahead \subseteq Sources /\ IsFiniteSet(Ahead)
  BY SourcesFinite, FS_Subset
<1>3. \A r \in Sources : Limit(topic, r) \in Nat
  BY LimitsAre
<1>4. v \in [Ahead -> Nat]
  BY <1>1, <1>2, <1>3
<1> HIDE DEF Ahead
<1>5. PICK total : /\ SumOver(total, Ahead, v)
                   /\ MapThenSumSet(Taken, Ahead) = total[Ahead]
  <2> DEFINE Eqn(f) ==
                f = [a \in SUBSET Ahead |->
                       IF a = {} THEN 0
                       ELSE Taken(CHOOSE x \in a : TRUE) + f[a \ {CHOOSE x \in a : TRUE}]]
  <2>1. MapThenSumSet(Taken, Ahead) = (CHOOSE f : Eqn(f))[Ahead]
    BY Zenon DEF MapThenSumSet, MapThenFoldSet
  <2>2. ASSUME NEW f PROVE SumOver(f, Ahead, v) <=> Eqn(f)
    <3>1. \A a \in SUBSET Ahead : a # {} => v[CHOOSE x \in a : TRUE] = Taken(CHOOSE x \in a : TRUE)
      <4> HIDE DEF Taken
      <4>1. QED
        OBVIOUS
    <3> HIDE DEF Taken, v
    <3>2. [a \in SUBSET Ahead |->
             IF a = {} THEN 0 ELSE v[CHOOSE x \in a : TRUE] + f[a \ {CHOOSE x \in a : TRUE}]]
          = [a \in SUBSET Ahead |->
             IF a = {} THEN 0 ELSE Taken(CHOOSE x \in a : TRUE) + f[a \ {CHOOSE x \in a : TRUE}]]
      BY <3>1
    <3>3. QED
      BY <3>2 DEF SumOver
  <2>3. \E f : Eqn(f)
    <3> HIDE DEF Eqn, v
    <3>1. QED
      BY <1>2, <1>4, <2>2, SumExists
  <2> HIDE DEF Eqn
  <2>4. Eqn(CHOOSE f : Eqn(f))
    BY <2>3
  <2>5. QED
    BY <2>1, <2>2, <2>4
<1>6. g[{}] = 0
  BY DEF RoomFor
<1>7. \A t \in SUBSET Ahead : \A x \in t :
         g[t \ {x}] \in Nat /\ g[t] \in Nat /\ g[t] >= g[t \ {x}] + v[x]
  <2>1. ASSUME NEW t \in SUBSET Ahead, NEW x \in t
        PROVE  g[t \ {x}] \in Nat /\ g[t] \in Nat /\ g[t] >= g[t \ {x}] + v[x]
    <3>1. t \in SUBSET Sources /\ x \in Sources /\ g[t] = RoomFor(topic)[t] /\ g[t \ {x}] = RoomFor(topic)[t \ {x}]
      BY <1>2
    <3>2. v[x] \in 0..Limit(topic, x) /\ Limit(topic, x) \in Nat
      BY <1>1, <1>3, <3>1
    <3>3. /\ RoomFor(topic)[t] \in Nat /\ RoomFor(topic)[t \ {x}] \in Nat
          /\ RoomFor(topic)[t] = RoomFor(topic)[t \ {x}] + Limit(topic, x)
      BY <3>1, RoomGrows
    <3> HIDE DEF v, g
    <3>4. QED
      BY <3>1, <3>2, <3>3
  <2>2. QED
    BY <2>1
<1>8. g[Ahead] = RoomFor(topic)[Ahead]
  OBVIOUS
<1>9. RoomFor(topic)[Ahead] <= 18 /\ RoomFor(topic)[Ahead] \in Nat
  BY <1>2, RoomForAll, RoomGrows
<1>10. total[Ahead] \in Nat /\ total[Ahead] <= g[Ahead]
  <2> HIDE DEF v, g
  <2>1. QED
    BY <1>2, <1>4, <1>5, <1>6, <1>7, SumIsBounded
<1>11. MapThenSumSet(Taken, Ahead) < 20
  <2> HIDE DEF g, Taken
  <2>1. QED
    BY <1>5, <1>8, <1>9, <1>10
<1>12. QED
  <2>1. Taken(s) > 0
    BY <1>1
  <2>2. QED
    BY <1>11, <2>1, Zenon DEF Selected, Ahead

----------------------------------------------------------------------------
(* No source has been weighed before the review of a question; and what is *)
(* then handed over is of every source that offers something.              *)
Weighed ==
    /\ sources \in Offers
    /\ asked = NoQuestion \/ stage \in {"search", "review"} => sources = [s \in Sources |-> 0]
SourcesInv == AnsweringInv /\ Weighed /\ EverySourceIsReviewed

LEMMA OffersAre == Offers \subseteq [Sources -> Nat] /\ [s \in Sources |-> 0] \in Offers
<1>1. Offers \subseteq [Sources -> Nat]
  BY DEF Offers, Plenty
<1>2. \A i \in 3..7 : Versioned[i] \in Sources
  BY DEF Versioned, Sources, Range
<1>3. QED
  BY <1>1, <1>2 DEF Offers

(* Handed over is the evidence, or the question is not answered.           *)
LEMMA HandedOverIsReviewed ==
  ASSUME NEW offered \in Offers, NEW topic \in Topics, NEW curated \in 1..4,
         NEW found, found = [source : Selected(offered, topic, curated), test : {FALSE}],
         HandOver(found) \/ Answered("FAILED"), sources' = offered
  PROVE  stage' \in {"idle", "generate"} /\ EverySourceIsReviewed'
<1>1. \/ stage' = "idle"
      \/ stage' = "generate" /\ context' = found
  BY DEF HandOver, GoOnWith, Answered
<1>2. ASSUME NEW s \in Sources, offered[s] > 0, context' = found
      PROVE  s \in {e.source : e \in context'}
  <2>1. s \in Selected(offered, topic, curated)
    BY <1>2, OffersAre, EverySourceSelected
  <2>2. [source |-> s, test |-> FALSE] \in found
    BY <2>1
  <2>3. [source |-> s, test |-> FALSE].source = s
    OBVIOUS
  <2>4. QED
    BY <1>2, <2>2, <2>3
<1>3. QED
  BY <1>1, <1>2 DEF EverySourceIsReviewed

LEMMA SourcesKeep == ASSUME SourcesInv, [AnsweringNext]_answeringVars PROVE SourcesInv'
<1> USE DEF SourcesInv, Weighed
<1> SUFFICES Weighed' /\ EverySourceIsReviewed'
  BY AnsweringStep
<1>1. ASSUME UNCHANGED <<sources, asked>>, stage' = "idle" \/ UNCHANGED <<stage, context>>
      PROVE  Weighed' /\ EverySourceIsReviewed'
  BY <1>1 DEF EverySourceIsReviewed, AnsweringInv, AnsweredOnce
<1>2. ASSUME sources' = [s \in Sources |-> 0] PROVE Weighed' /\ EverySourceIsReviewed'
  BY <1>2, OffersAre DEF EverySourceIsReviewed
<1>3. ASSUME NEW q, AskGrounded(q) \/ AskComprehensive(q) PROVE Weighed' /\ EverySourceIsReviewed'
  <2>1. sources' = [s \in Sources |-> 0]
    BY <1>3 DEF AskGrounded, AskComprehensive
  <2>2. QED
    BY <1>2, <2>1
<1>4. CASE EndQuestion
  BY <1>2, <1>4 DEF EndQuestion
<1>5. ASSUME NEW found, SearchGrounded(found) \/ SearchComprehensive(found)
      PROVE  Weighed' /\ EverySourceIsReviewed'
  <2>1. sources' = [s \in Sources |-> 0]
    BY <1>5 DEF SearchGrounded, SearchComprehensive
  <2>2. QED
    BY <1>2, <2>1
<1>6. CASE Review
  <2>1. PICK offered \in Offers, topic \in Topics, curated \in 1..4 :
          LET found == [source : Selected(offered, topic, curated), test : {FALSE}] IN
          /\ sources' = offered
          /\ HandOver(found) \/ Answered("FAILED")
    BY <1>6 DEF Review
  <2>2. stage' \in {"idle", "generate"} /\ EverySourceIsReviewed'
    BY <2>1, HandedOverIsReviewed
  <2>3. asked' = asked /\ asked # NoQuestion
    BY <1>6, KindsDiffer DEF Review, AnsweringInv, AnsweredOnce
  <2>4. QED
    BY <2>1, <2>2, <2>3
<1>7. ASSUME NEW state, GenerateFails(state) PROVE Weighed' /\ EverySourceIsReviewed'
  BY <1>1, <1>7 DEF GenerateFails, Answered
<1>8. ASSUME NEW says, NEW cited, GenerateGrounded(says, cited)
      PROVE  Weighed' /\ EverySourceIsReviewed'
  BY <1>1, <1>8 DEF GenerateGrounded
<1>9. ASSUME NEW says, NEW cited, NEW examined, GenerateComprehensive(says, cited, examined)
       PROVE  Weighed' /\ EverySourceIsReviewed'
  BY <1>1, <1>9 DEF GenerateComprehensive, Answered
<1>10. CASE UNCHANGED answeringVars
  BY <1>1, <1>10 DEF answeringVars
<1>11. QED
  BY <1>3, <1>4, <1>5, <1>6, <1>7, <1>8, <1>9, <1>10 DEF AnsweringNext

(* The provider sees something of every source that has anything to say,   *)
(* whatever the topic and however much each of them offers.                *)
THEOREM EverySourceSeen == AnsweringSpec => []EverySourceIsReviewed
<1>1. AnsweringInit => SourcesInv
  BY InitAnswering, OffersAre DEF AnsweringInit, SourcesInv, Weighed, EverySourceIsReviewed
<1>2. SourcesInv => EverySourceIsReviewed
  BY DEF SourcesInv
<1>3. QED
  BY SourcesKeep, <1>1, <1>2, PTL DEF AnsweringSpec

(* Every variable has its type.                                            *)
AnswerStates == {"NONE", "NEEDS_INFORMATION", "ANSWERED", "ABSTAINED", "FAILED", "ERROR", "NOT_FOUND"}
Marks == /\ stage \in {"idle", "search", "review", "generate"}
         /\ web \in {"unneeded", "found", "failed"}
         /\ tries \in 0..1
         /\ answer.state \in AnswerStates

LEMMA MarksKeep == ASSUME Marks, [AnsweringNext]_answeringVars PROVE Marks'
<1>1. ASSUME NEW state \in AnswerStates, Answered(state), web' \in {"unneeded", "found", "failed"}
      PROVE  Marks'
  BY <1>1 DEF Answered, Marks
<1>2. ASSUME NEW found, HandOver(found), web' \in {"unneeded", "found", "failed"} PROVE Marks'
  BY <1>2 DEF HandOver, Answered, GoOnWith, Marks, AnswerStates
<1>3. ASSUME NEW q, AskGrounded(q) \/ AskComprehensive(q) PROVE Marks'
  BY <1>3 DEF AskGrounded, AskComprehensive, Answered, Marks, AnswerStates
<1>4. CASE EndQuestion
  BY <1>4 DEF EndQuestion, Marks, AnswerStates
<1>5. ASSUME NEW found, SearchGrounded(found) \/ SearchComprehensive(found) PROVE Marks'
  BY <1>2, <1>5 DEF SearchGrounded, SearchComprehensive, GoOnWith, Answered, Marks, AnswerStates
<1>6. CASE Review
  BY <1>1, <1>2, <1>6 DEF Review, AnswerStates
<1>7. ASSUME NEW state \in {"FAILED", "ERROR"}, GenerateFails(state) PROVE Marks'
  BY <1>1, <1>7 DEF GenerateFails, Marks, AnswerStates
<1>8. ASSUME NEW says, NEW cited, GenerateGrounded(says, cited) PROVE Marks'
  BY <1>8 DEF GenerateGrounded, Verdict, Marks, AnswerStates
<1>9. ASSUME NEW says \in {"ANSWERED", "ABSTAINED"}, NEW cited, NEW examined,
             GenerateComprehensive(says, cited, examined)
      PROVE  Marks'
  BY <1>1, <1>9 DEF GenerateComprehensive, Marks, AnswerStates
<1>10. CASE UNCHANGED answeringVars
  BY <1>10 DEF answeringVars, Marks
<1>11. QED
  BY <1>3, <1>4, <1>5, <1>6, <1>7, <1>8, <1>9, <1>10 DEF AnsweringNext

(* The question in hand, the evidence and the web pages looked at for it,  *)
(* and what became of it have their types, for any artifacts and whatever  *)
(* the provider replies.                                                   *)
THEOREM AnsweringTypeCorrect == AnsweringSpec => []AnsweringTypeOK
<1>1. AnsweringInit => SourcesInv /\ Marks
  BY InitAnswering, OffersAre DEF AnsweringInit, SourcesInv, Weighed, EverySourceIsReviewed, Marks, AnswerStates
<1>2. SourcesInv /\ Marks /\ [AnsweringNext]_answeringVars => SourcesInv' /\ Marks'
  BY SourcesKeep, MarksKeep
<1>3. SourcesInv /\ Marks => AnsweringTypeOK
  BY DEF SourcesInv, AnsweringInv, QuestionFit, Weighed, Marks, AnswerStates, AnsweringTypeOK
<1>4. QED
  BY <1>1, <1>2, <1>3, PTL DEF AnsweringSpec

----------------------------------------------------------------------------
(* CommunityReview.  The row of a case: an answer is decided once, and one *)
(* that was approved has a version.                                        *)
DraftFit ==
    /\ draft \in [state : {"DRAFT_PENDING", "APPROVED", "REJECTED", "PUBLISHED"},
                  version : 0..MaxDrafts, approvals : 0..1, post : Nat, published : Nat]
    /\ draft.post <= Len(thread) /\ draft.published <= Len(thread)
    /\ draft.state = "DRAFT_PENDING" => draft.approvals = 0
    /\ draft.state = "APPROVED" => judged /\ draft.version > 0
    /\ PublishedIsJudged

(* The posts: one for review holds an answer that was made already, and    *)
(* once the present one is public somebody has approved it.                *)
AssistantPost ==
    [marker : [kind : {"review", "approval"}, number : 0..MaxDrafts],
     answer : 1..MaxDrafts, status : {"HELD", "PUBLIC", "GONE"}]
ForReview(p) == thread[p].marker.kind = "review"
OfDraft(p) == p \in DOMAIN thread /\ ForReview(p) /\ thread[p].answer = draft.version
ThreadFit ==
    /\ thread \in Seq(AssistantPost)
    /\ \A p \in DOMAIN thread :
          /\ thread[p].answer <= draft.version
          /\ ForReview(p) => thread[p].marker.number = thread[p].answer
          /\ OfDraft(p) /\ thread[p].status = "PUBLIC" => judged
HistoryFit ==
    /\ events \subseteq {"review-post", "approved", "missing"} \X Nat
    /\ judged \in BOOLEAN /\ overtaken \in BOOLEAN /\ breaks \in 0..MaxBreaks

(* A call that writes has a version, one that looks at a post has that     *)
(* post; unless a draft was made while another call was under way, every   *)
(* call for review is about the present draft, as is the post of the row.  *)
CallPc == {"idle", "lookup", "write", "attach", "check",
           "approved", "missing", "find", "reply", "mark"}
ReviewCall == [pc : CallPc, version : 0..MaxDrafts, approval : 0..1, post : Nat]
Writing(r) == r.pc \in {"lookup", "write", "attach", "find", "reply"}
Looking(r) == r.pc \in {"attach", "check", "approved", "missing"}
Fit(r) ==
    /\ r \in ReviewCall /\ r.post <= Len(thread)
    /\ Writing(r) => r.version \in 1..draft.version
    /\ Looking(r) => r.post \in DOMAIN thread
Current(r) ==
    /\ r.pc \in {"lookup", "write", "attach"} => r.version = draft.version
    /\ Looking(r) => OfDraft(r.post)
    /\ r.pc = "approved" => thread[r.post].status = "PUBLIC"
RowIsCurrent == draft.post # 0 => OfDraft(draft.post)

ReviewInv ==
    /\ DraftFit /\ ThreadFit /\ HistoryFit
    /\ call \in [Calls -> ReviewCall]
    /\ \A c \in Calls : Fit(call[c])
    /\ ~overtaken => RowIsCurrent /\ \A c \in Calls : Current(call[c])

LEMMA InitReview == ReviewInit => ReviewInv
<1> SUFFICES ASSUME ReviewInit PROVE ReviewInv
  OBVIOUS
<1>1. thread \in Seq(AssistantPost) /\ Len(thread) = 0 /\ DOMAIN thread = {}
  BY DEF ReviewInit
<1>2. DraftFit /\ RowIsCurrent
  BY <1>1, ReviewAssumption DEF ReviewInit, NewDraft, DraftFit, RowIsCurrent, PublishedIsJudged
<1>3. ThreadFit /\ HistoryFit
  <2>1. ThreadFit
    BY <1>1 DEF ThreadFit
  <2>2. breaks \in 0..MaxBreaks
    BY ReviewAssumption DEF ReviewInit
  <2>3. events \subseteq {"review-post", "approved", "missing"} \X Nat
    BY DEF ReviewInit
  <2>4. judged \in BOOLEAN /\ overtaken \in BOOLEAN
    BY DEF ReviewInit
  <2>5. HistoryFit
    BY <2>2, <2>3, <2>4 DEF HistoryFit
  <2>6. QED
    BY <2>1, <2>5
<1>4. NoCall \in ReviewCall /\ Fit(NoCall) /\ Current(NoCall)
  BY <1>1, ReviewAssumption
     DEF ReviewInit, NoCall, ReviewCall, CallPc, Fit, Current, Writing, Looking
<1>5. QED
  BY <1>2, <1>3, <1>4 DEF ReviewInit, ReviewInv

(* What holds of a step that leaves the version alone, changes one call,   *)
(* and takes no post back.                                                 *)
NothingTakenBack ==
    \A p \in DOMAIN thread :
       /\ p \in DOMAIN thread' /\ thread'[p].marker = thread[p].marker
       /\ thread'[p].answer = thread[p].answer
       /\ thread[p].status = "PUBLIC" => thread'[p].status = "PUBLIC"

LEMMA CallStepKeeps ==
  ASSUME ReviewInv, NEW c \in Calls, NEW new, call' = [call EXCEPT ![c] = new],
         DraftFit', ThreadFit', HistoryFit', draft'.version = draft.version,
         NothingTakenBack, Len(thread) <= Len(thread'), overtaken' = overtaken,
         Fit(new)', ~overtaken => RowIsCurrent' /\ Current(new)'
  PROVE  ReviewInv'
<1>1. call' \in [Calls -> ReviewCall] /\ \A d \in Calls : call'[d] = IF d = c THEN new ELSE call[d]
  BY DEF ReviewInv, Fit
<1>2. Len(thread) \in Nat /\ Len(thread') \in Nat
  BY DEF ReviewInv, ThreadFit
<1>3. ASSUME NEW d \in Calls PROVE Fit(call[d])'
  <2>1. CASE d = c
    BY <1>1, <2>1 DEF Fit
  <2>2. CASE d # c
    BY <1>1, <1>2, <2>2 DEF Fit, ReviewInv, NothingTakenBack, Writing, Looking, ReviewCall
  <2>3. QED
    BY <2>1, <2>2
<1>4. ASSUME ~overtaken, NEW d \in Calls PROVE Current(call[d])'
  <2>1. CASE d = c
    BY <1>1, <1>4, <2>1 DEF Current
  <2>2. CASE d # c
    <3>1. PICK r : r = call[d]
      OBVIOUS
    <3>2. Current(r) /\ call'[d] = r
      BY <1>1, <1>4, <2>2, <3>1 DEF ReviewInv
    <3>3. \A p : OfDraft(p) => OfDraft(p)'
      BY DEF OfDraft, ForReview, NothingTakenBack
    <3>4. Looking(r) => OfDraft(r.post) /\ OfDraft(r.post)'
      BY <3>2, <3>3 DEF Current
    <3>5. Current(r)'
      <4>1. r.pc \in {"lookup", "write", "attach"} => r.version = draft'.version
        BY <3>2 DEF Current
      <4>2. r.pc = "approved" => thread'[r.post].status = "PUBLIC"
        BY <3>2, <3>4 DEF Current, Looking, OfDraft, NothingTakenBack
      <4>3. QED
        BY <3>4, <4>1, <4>2 DEF Current
    <3>6. QED
      BY <3>2, <3>5 DEF Current, Looking, OfDraft, ForReview
  <2>3. QED
    BY <2>1, <2>2
<1>5. QED
  BY <1>1, <1>3, <1>4 DEF ReviewInv

(* A step that changes one call and nothing else.                          *)
LEMMA OneCallKeeps ==
  ASSUME ReviewInv, NEW c \in Calls, NEW new, Continue(c, new), Fit(new),
         ~overtaken => Current(new), breaks' \in 0..MaxBreaks,
         UNCHANGED <<draft, thread, events, judged, overtaken>>
  PROVE  ReviewInv'
<1>1. DraftFit' /\ ThreadFit' /\ HistoryFit'
  BY DEF ReviewInv, DraftFit, ThreadFit, HistoryFit, PublishedIsJudged, OfDraft, ForReview
<1>2. NothingTakenBack
  BY DEF NothingTakenBack
<1>3. Fit(new)' /\ (~overtaken => RowIsCurrent' /\ Current(new)')
  BY DEF ReviewInv, Fit, Current, RowIsCurrent, OfDraft, ForReview
<1>4. Len(thread) <= Len(thread')
  BY DEF ReviewInv, ThreadFit
<1>5. QED
  BY <1>1, <1>2, <1>3, <1>4, CallStepKeeps DEF Continue

LEMMA NoCallFits == ASSUME ReviewInv PROVE Fit(NoCall) /\ Current(NoCall)
<1>1. Len(thread) \in Nat
  BY DEF ReviewInv, ThreadFit
<1>2. QED
  BY <1>1, ReviewAssumption DEF NoCall, Fit, Current, ReviewCall, CallPc, Writing, Looking

LEMMA BreakKeeps == ASSUME ReviewInv, NEW c \in Calls, BreakCall(c) PROVE ReviewInv'
<1>1. breaks' \in 0..MaxBreaks
  BY ReviewAssumption DEF BreakCall, ReviewInv, HistoryFit
<1>2. QED
  BY <1>1, NoCallFits, OneCallKeeps DEF BreakCall, End

LEMMA ReconcileKeeps == ASSUME ReviewInv, Reconcile PROVE ReviewInv'
<1>1. PICK new : new = IF draft.post # 0 THEN Checking(draft.post)
                       ELSE [NoCall EXCEPT !.pc = "lookup", !.version = draft.version]
  OBVIOUS
<1>2. Len(thread) \in Nat /\ DOMAIN thread = 1..Len(thread)
  BY DEF ReviewInv, ThreadFit
<1>3. draft.version \in 1..MaxDrafts /\ draft.post \in Nat /\ draft.post <= Len(thread)
  BY ReviewAssumption DEF Reconcile, ReviewInv, DraftFit
<1>4. Fit(new)
  <2>1. CASE draft.post # 0
    <3>1. new = [pc |-> "check", version |-> 0, approval |-> 0, post |-> draft.post]
      BY <1>1, <2>1 DEF Checking, NoCall
    <3>2. QED
      BY <1>2, <1>3, <2>1, <3>1, ReviewAssumption DEF Fit, ReviewCall, CallPc, Writing, Looking
  <2>2. CASE draft.post = 0
    <3>1. new = [pc |-> "lookup", version |-> draft.version, approval |-> 0, post |-> 0]
      BY <1>1, <2>2 DEF NoCall
    <3>2. QED
      BY <1>2, <1>3, <3>1 DEF Fit, ReviewCall, CallPc, Writing, Looking
  <2>3. QED
    BY <2>1, <2>2
<1>5. ~overtaken => Current(new)
  BY <1>1 DEF ReviewInv, RowIsCurrent, Current, Checking, NoCall, Looking
<1>6. Continue("poller", new) /\ UNCHANGED <<draft, thread, events, judged, overtaken, breaks>>
  BY <1>1 DEF Reconcile, history
<1>7. breaks' \in 0..MaxBreaks /\ "poller" \in Calls
  BY <1>6 DEF ReviewInv, HistoryFit, Calls
<1>8. QED
  BY <1>4, <1>5, <1>6, <1>7, OneCallKeeps

LEMMA PublishKeeps == ASSUME ReviewInv, Publish PROVE ReviewInv'
<1>1. PICK new : new = [NoCall EXCEPT !.pc = "find", !.version = draft.version,
                                      !.approval = draft.approvals]
  OBVIOUS
<1>2. Len(thread) \in Nat /\ draft.version \in 1..MaxDrafts /\ draft.approvals \in 0..1
  BY ReviewAssumption DEF Publish, ReviewInv, DraftFit, ThreadFit
<1>3. Fit(new) /\ Current(new)
  <2>1. new = [pc |-> "find", version |-> draft.version, approval |-> draft.approvals,
               post |-> 0]
    BY <1>1 DEF NoCall
  <2>2. QED
    BY <1>2, <2>1 DEF Fit, Current, ReviewCall, CallPc, Writing, Looking
<1>4. Continue("flow", new) /\ UNCHANGED <<draft, thread, events, judged, overtaken, breaks>>
  BY <1>1 DEF Publish, history
<1>5. breaks' \in 0..MaxBreaks /\ "flow" \in Calls
  BY <1>4 DEF ReviewInv, HistoryFit, Calls
<1>6. QED
  BY <1>3, <1>4, <1>5, OneCallKeeps

(* A lookup finds posts of the version it asks for.                        *)
LEMMA FoundIsOfVersion ==
  ASSUME ReviewInv, NEW v, NEW p \in PostsMarked(ReviewMarker(v))
  PROVE  p \in 1..Len(thread) /\ ForReview(p) /\ thread[p].answer = v
<1>1. p \in DOMAIN thread /\ thread[p].marker = [kind |-> "review", number |-> v]
  BY DEF PostsMarked, ReviewMarker
<1>2. ForReview(p) /\ thread[p].marker.number = v
  BY <1>1 DEF ForReview
<1>3. QED
  BY <1>1, <1>2 DEF ReviewInv, ThreadFit

LEMMA LookupReviewKeeps ==
  ASSUME ReviewInv, NEW c \in Calls, LookupReview(c) PROVE ReviewInv'
<1>1. /\ UNCHANGED <<draft, thread, events, judged, overtaken, breaks>>
      /\ breaks' \in 0..MaxBreaks /\ call[c].pc = "lookup"
  BY DEF LookupReview, history, At, ReviewInv, HistoryFit
<1>2. Fit(call[c]) /\ (~overtaken => Current(call[c])) /\ Len(thread) \in Nat
  BY DEF ReviewInv, ThreadFit
<1>3. CASE Continue(c, [call[c] EXCEPT !.pc = "write"])
  <2>1. PICK new : new = [call[c] EXCEPT !.pc = "write"]
    OBVIOUS
  <2>2. Fit(new) /\ (~overtaken => Current(new))
    BY <1>1, <1>2, <2>1 DEF Fit, Current, ReviewCall, CallPc, Writing, Looking
  <2>3. QED
    BY <1>1, <1>3, <2>1, <2>2, OneCallKeeps
<1>4. CASE End(c)
  BY <1>1, <1>4, NoCallFits, OneCallKeeps DEF End
<1>5. ASSUME NEW p \in PostsMarked(ReviewMarker(call[c].version)),
             Continue(c, [call[c] EXCEPT !.pc = "attach", !.post = p])
      PROVE  ReviewInv'
  <2>1. PICK new : new = [call[c] EXCEPT !.pc = "attach", !.post = p]
    OBVIOUS
  <2>2. p \in 1..Len(thread) /\ ForReview(p) /\ thread[p].answer = call[c].version
    BY FoundIsOfVersion
  <2>3. Fit(new)
    <3>1. /\ call[c].version \in 0..MaxDrafts /\ call[c].approval \in 0..1
          /\ call[c].version \in 1..draft.version
      BY <1>1, <1>2 DEF Fit, ReviewCall, Writing
    <3>2. new = [pc |-> "attach", version |-> call[c].version,
                 approval |-> call[c].approval, post |-> p]
      BY <1>2, <2>1 DEF Fit, ReviewCall
    <3>3. p \in Nat /\ p <= Len(thread) /\ p \in DOMAIN thread
      BY <1>2, <2>2 DEF ReviewInv, ThreadFit
    <3>4. QED
      BY <3>1, <3>2, <3>3 DEF Fit, ReviewCall, CallPc, Writing, Looking
  <2>4. ~overtaken => Current(new)
    BY <1>1, <1>2, <2>1, <2>2 DEF Fit, ReviewCall, Current, Looking, OfDraft
  <2>5. QED
    BY <1>1, <1>5, <2>1, <2>3, <2>4, OneCallKeeps
<1>6. QED
  BY <1>3, <1>4, <1>5 DEF LookupReview

(* The assistant writes a post.                                            *)
LEMMA WrittenPosts ==
  ASSUME ReviewInv, NEW post \in AssistantPost, thread' = Append(thread, post),
         post.answer <= draft.version, draft' = draft, judged' = judged,
         post.marker.kind = "review" =>
            post.marker.number = post.answer /\ post.status # "PUBLIC"
  PROVE  /\ ThreadFit' /\ NothingTakenBack /\ Len(thread') = Len(thread) + 1
         /\ Len(thread) \in Nat /\ DOMAIN thread' = 1..(Len(thread) + 1)
         /\ thread'[Len(thread) + 1] = post
<1>1. /\ thread \in Seq(AssistantPost) /\ thread' \in Seq(AssistantPost)
      /\ Len(thread') = Len(thread) + 1 /\ Len(thread) \in Nat
      /\ DOMAIN thread = 1..Len(thread) /\ DOMAIN thread' = 1..(Len(thread) + 1)
      /\ thread'[Len(thread) + 1] = post
      /\ \A p \in DOMAIN thread : thread'[p] = thread[p]
  BY DEF ReviewInv, ThreadFit
<1>2. ASSUME NEW p \in DOMAIN thread'
      PROVE  (/\ thread[p].answer <= draft.version
              /\ ForReview(p) => thread[p].marker.number = thread[p].answer
              /\ OfDraft(p) /\ thread[p].status = "PUBLIC" => judged)'
  <2>1. CASE p \in DOMAIN thread
    BY <1>1, <2>1 DEF ReviewInv, ThreadFit, ForReview, OfDraft
  <2>2. CASE p = Len(thread) + 1
    BY <1>1, <2>2 DEF ForReview, OfDraft
  <2>3. QED
    BY <1>1, <2>1, <2>2
<1>3. NothingTakenBack
  BY <1>1 DEF NothingTakenBack
<1>4. QED
  BY <1>1, <1>2, <1>3 DEF ThreadFit

LEMMA RowStays ==
  ASSUME ReviewInv, draft' = draft, judged' = judged, overtaken' = overtaken,
         Len(thread) <= Len(thread'), Len(thread') \in Nat
  PROVE  DraftFit'
<1>1. Len(thread) \in Nat
  BY DEF ReviewInv, ThreadFit
<1>2. QED
  BY <1>1 DEF ReviewInv, DraftFit, PublishedIsJudged

LEMMA RowStaysCurrent ==
  ASSUME ReviewInv, ~overtaken, NothingTakenBack, draft' = draft PROVE RowIsCurrent'
  BY DEF ReviewInv, RowIsCurrent, OfDraft, ForReview, NothingTakenBack

LEMMA WriteReviewKeeps ==
  ASSUME ReviewInv, NEW c \in Calls, WriteReview(c) PROVE ReviewInv'
<1>1. /\ UNCHANGED <<draft, events, judged, overtaken, breaks>> /\ call[c].pc = "write"
  BY DEF WriteReview, history, At
<1>2. PICK v : v = call[c].version
  OBVIOUS
<1>3. /\ v \in 1..draft.version /\ v \in 0..MaxDrafts /\ draft.version \in 0..MaxDrafts
      /\ ~overtaken => v = draft.version
      /\ call[c] \in ReviewCall
  BY <1>1, <1>2 DEF ReviewInv, Fit, ReviewCall, Writing, Current, DraftFit
<1>4. PICK post : post = AnswerPost(ReviewMarker(v), v, "HELD")
  OBVIOUS
<1>5. /\ post \in AssistantPost /\ post.answer = v /\ post.status = "HELD"
      /\ post.marker.kind = "review" /\ post.marker.number = v
  BY <1>3, <1>4, ReviewAssumption DEF AnswerPost, ReviewMarker, AssistantPost
<1>6. thread' = Append(thread, post) /\ post.answer <= draft.version
  BY <1>2, <1>3, <1>4, <1>5 DEF WriteReview
<1>7. /\ ThreadFit' /\ NothingTakenBack /\ Len(thread') = Len(thread) + 1
      /\ Len(thread) \in Nat /\ DOMAIN thread' = 1..(Len(thread) + 1)
      /\ thread'[Len(thread) + 1] = post
  BY <1>1, <1>5, <1>6, WrittenPosts
<1>8. PICK new : new = [call[c] EXCEPT !.pc = "attach", !.post = Len(thread) + 1]
  OBVIOUS
<1>9. new = [pc |-> "attach", version |-> v, approval |-> call[c].approval,
             post |-> Len(thread) + 1]
  BY <1>2, <1>3, <1>8 DEF ReviewCall
<1>10. Fit(new)'
  BY <1>1, <1>3, <1>7, <1>9 DEF Fit, ReviewCall, CallPc, Writing, Looking
<1>11. ~overtaken => Current(new)'
  BY <1>1, <1>3, <1>5, <1>7, <1>9 DEF Current, Looking, OfDraft, ForReview
<1>12. call' = [call EXCEPT ![c] = new]
  BY <1>8 DEF WriteReview, Continue
<1>13. DraftFit' /\ HistoryFit' /\ (~overtaken => RowIsCurrent')
  BY <1>1, <1>7, RowStays, RowStaysCurrent DEF ReviewInv, HistoryFit
<1>14. Len(thread) <= Len(thread') /\ draft'.version = draft.version /\ overtaken' = overtaken
  BY <1>1, <1>7
<1>15. ThreadFit' /\ NothingTakenBack
  BY <1>7
<1>16. QED
  BY <1>10, <1>11, <1>12, <1>13, <1>14, <1>15, CallStepKeeps

LEMMA ReplyKeeps == ASSUME ReviewInv, Reply PROVE ReviewInv'
<1>1. /\ UNCHANGED <<draft, events, judged, overtaken, breaks>> /\ call["flow"].pc = "reply"
      /\ "flow" \in Calls
  BY DEF Reply, history, At, Calls
<1>2. PICK c \in Calls : c = "flow"
  BY <1>1
<1>3. /\ call[c].version \in 1..draft.version /\ call[c].version \in 1..MaxDrafts
      /\ draft.version \in 0..MaxDrafts
      /\ call[c].approval \in 0..1 /\ 1 \in 0..MaxDrafts
  BY <1>1, <1>2, ReviewAssumption DEF ReviewInv, Fit, ReviewCall, Writing, DraftFit
<1>4. PICK post : post = AnswerPost(ApprovalMarker(call[c].approval), call[c].version, "PUBLIC")
  OBVIOUS
<1>5. post \in AssistantPost /\ post.answer <= draft.version /\ post.marker.kind = "approval"
  BY <1>3, <1>4, ReviewAssumption DEF AnswerPost, ApprovalMarker, AssistantPost
<1>6. thread' = Append(thread, post)
  BY <1>2, <1>4 DEF Reply
<1>7. /\ ThreadFit' /\ NothingTakenBack /\ Len(thread') = Len(thread) + 1
      /\ Len(thread) \in Nat
  BY <1>1, <1>5, <1>6, WrittenPosts
<1>8. PICK new : new = [NoCall EXCEPT !.pc = "mark", !.post = Len(thread) + 1]
  OBVIOUS
<1>9. new = [pc |-> "mark", version |-> 0, approval |-> 0, post |-> Len(thread) + 1]
  BY <1>8 DEF NoCall
<1>10. Fit(new)' /\ Current(new)'
  BY <1>7, <1>9, ReviewAssumption DEF Fit, Current, ReviewCall, CallPc, Writing, Looking
<1>11. call' = [call EXCEPT ![c] = new]
  BY <1>2, <1>8 DEF Reply, Continue
<1>12. DraftFit' /\ HistoryFit' /\ (~overtaken => RowIsCurrent')
  BY <1>1, <1>7, RowStays, RowStaysCurrent DEF ReviewInv, HistoryFit
<1>13. Len(thread) <= Len(thread') /\ draft'.version = draft.version /\ overtaken' = overtaken
  BY <1>1, <1>7
<1>14. ThreadFit' /\ NothingTakenBack
  BY <1>7
<1>15. QED
  BY <1>10, <1>11, <1>12, <1>13, <1>14, CallStepKeeps

(* A step that changes the row and one call.                               *)
LEMMA RowKeeps ==
  ASSUME ReviewInv, NEW c \in Calls, NEW new, Continue(c, new), Fit(new),
         ~overtaken => Current(new) /\ RowIsCurrent', DraftFit',
         draft'.version = draft.version, HistoryFit',
         UNCHANGED <<thread, judged, overtaken, breaks>>
  PROVE  ReviewInv'
<1>1. ThreadFit'
  BY DEF ReviewInv, ThreadFit, OfDraft, ForReview
<1>2. NothingTakenBack
  BY DEF NothingTakenBack
<1>5. Len(thread) <= Len(thread')
  BY DEF ReviewInv, ThreadFit
<1>3. Fit(new)' /\ (~overtaken => Current(new)')
  BY DEF Fit, Current, OfDraft, ForReview
<1>4. QED
  BY <1>1, <1>2, <1>3, <1>5, CallStepKeeps DEF Continue

LEMMA CheckingIs ==
  ASSUME NEW p PROVE Checking(p) = [pc |-> "check", version |-> 0, approval |-> 0, post |-> p]
<1>1. PICK new : new = Checking(p)
  OBVIOUS
<1>2. new = [pc |-> "check", version |-> 0, approval |-> 0, post |-> p]
  BY <1>1 DEF Checking, NoCall
<1>3. QED
  BY <1>1, <1>2

LEMMA AttachKeeps == ASSUME ReviewInv, NEW c \in Calls, AttachReview(c) PROVE ReviewInv'
<1>1. /\ UNCHANGED <<thread, judged, overtaken, breaks>> /\ call[c].pc = "attach"
  BY DEF AttachReview, history, At
<1>2. /\ Fit(call[c]) /\ (~overtaken => Current(call[c]) /\ RowIsCurrent)
      /\ DraftFit /\ HistoryFit /\ Len(thread) \in Nat /\ DOMAIN thread = 1..Len(thread)
  BY DEF ReviewInv, ThreadFit
<1>3. PICK p : p = call[c].post
  OBVIOUS
<1>4. p \in DOMAIN thread /\ call[c].version \in Nat /\ (~overtaken => OfDraft(p))
  BY <1>1, <1>2, <1>3, ReviewAssumption DEF Fit, Current, Looking, ReviewCall
<1>5. ASSUME NEW q \in 0..Len(thread), ~overtaken => q = 0 \/ OfDraft(q)
      PROVE  LET new == IF c = "poller" /\ q # 0 THEN Checking(q) ELSE NoCall
             IN  Fit(new) /\ (~overtaken => Current(new))
  <2>1. CASE c = "poller" /\ q # 0
    <3>1. Checking(q) = [pc |-> "check", version |-> 0, approval |-> 0, post |-> q]
      BY CheckingIs
    <3>2. Fit(Checking(q))
      BY <1>2, <1>5, <2>1, <3>1, ReviewAssumption DEF Fit, ReviewCall, CallPc, Writing, Looking
    <3>3. ~overtaken => Current(Checking(q))
      BY <1>5, <2>1, <3>1 DEF Current, Looking
    <3>4. QED
      BY <2>1, <3>2, <3>3
  <2>2. CASE ~(c = "poller" /\ q # 0)
    BY <2>2, NoCallFits
  <2>3. QED
    BY <2>1, <2>2
<1>6. CASE /\ UNCHANGED <<draft, events>>
           /\ \/ Continue(c, IF c = "poller" /\ draft.post # 0 THEN Checking(draft.post)
                             ELSE NoCall)
              \/ End(c)
  <2>1. PICK q : q = draft.post
    OBVIOUS
  <2>2. q \in 0..Len(thread) /\ (~overtaken => q = 0 \/ OfDraft(q))
    BY <1>2, <2>1 DEF DraftFit, RowIsCurrent
  <2>3. PICK new : /\ Continue(c, new) /\ Fit(new)
                   /\ ~overtaken => Current(new)
    <3>1. CASE Continue(c, IF c = "poller" /\ q # 0 THEN Checking(q) ELSE NoCall)
      BY <1>5, <2>2, <3>1
    <3>2. CASE End(c)
      BY <3>2, NoCallFits DEF End
    <3>3. QED
      BY <1>6, <2>1, <3>1, <3>2
  <2>4. breaks' \in 0..MaxBreaks
    BY <1>1, <1>2 DEF HistoryFit
  <2>5. QED
    BY <1>1, <1>6, <2>3, <2>4, OneCallKeeps
<1>7. CASE /\ draft' = [draft EXCEPT !.post = p]
           /\ events' = events \cup {<<"review-post", call[c].version>>}
           /\ Continue(c, IF c = "poller" /\ p # 0 THEN Checking(p) ELSE NoCall)
  <2>1. PICK new : new = IF c = "poller" /\ p # 0 THEN Checking(p) ELSE NoCall
    OBVIOUS
  <2>2. Fit(new) /\ (~overtaken => Current(new))
    BY <1>2, <1>4, <1>5, <2>1
  <2>3. draft'.version = draft.version /\ draft'.post = p
    BY <1>2, <1>7 DEF DraftFit
  <2>4. DraftFit'
    BY <1>1, <1>2, <1>4, <1>7 DEF DraftFit, PublishedIsJudged
  <2>5. ~overtaken => RowIsCurrent'
    BY <1>1, <1>4, <2>3 DEF RowIsCurrent, OfDraft, ForReview
  <2>6. HistoryFit'
    BY <1>1, <1>2, <1>4, <1>7 DEF HistoryFit
  <2>7. QED
    BY <1>1, <1>7, <2>1, <2>2, <2>3, <2>4, <2>5, <2>6, RowKeeps
<1>8. QED
  BY <1>3, <1>6, <1>7 DEF AttachReview

LEMMA CheckReviewKeeps == ASSUME ReviewInv, CheckReview PROVE ReviewInv'
<1>1. PICK c \in Calls : c = "poller"
  BY DEF Calls
<1>2. /\ UNCHANGED <<draft, thread, events, judged, overtaken, breaks>>
      /\ breaks' \in 0..MaxBreaks /\ call[c].pc = "check"
  BY <1>1 DEF CheckReview, history, At, ReviewInv, HistoryFit
<1>3. Fit(call[c]) /\ (~overtaken => Current(call[c]))
  BY DEF ReviewInv
<1>4. CASE End(c)
  BY <1>2, <1>4, NoCallFits, OneCallKeeps DEF End
<1>5. ASSUME NEW pc \in {"approved", "missing"}, Continue(c, [call[c] EXCEPT !.pc = pc]),
             pc = "approved" => thread[call[c].post].status = "PUBLIC"
      PROVE  ReviewInv'
  <2>1. PICK new : new = [call[c] EXCEPT !.pc = pc]
    OBVIOUS
  <2>2. /\ new \in ReviewCall /\ new.post = call[c].post /\ new.pc = pc
        /\ call[c].post <= Len(thread) /\ call[c].post \in DOMAIN thread
        /\ ~overtaken => OfDraft(call[c].post)
    BY <1>2, <1>3, <2>1 DEF Fit, Current, ReviewCall, CallPc, Looking
  <2>3. Fit(new) /\ (~overtaken => Current(new))
    BY <1>5, <2>2 DEF Fit, Current, Writing, Looking
  <2>4. QED
    BY <1>2, <1>5, <2>1, <2>3, OneCallKeeps
<1>6. QED
  BY <1>1, <1>4, <1>5 DEF CheckReview

LEMMA MarkApprovedKeeps == ASSUME ReviewInv, MarkApproved PROVE ReviewInv'
<1>1. PICK c \in Calls : c = "poller"
  BY DEF Calls
<1>2. UNCHANGED <<thread, judged, overtaken, breaks>> /\ call[c].pc = "approved" /\ End(c)
  BY <1>1 DEF MarkApproved, history, At
<1>3. Fit(call[c]) /\ (~overtaken => Current(call[c]) /\ RowIsCurrent) /\ DraftFit /\ HistoryFit
  BY DEF ReviewInv
<1>4. breaks' \in 0..MaxBreaks
  BY <1>2, <1>3 DEF HistoryFit
<1>5. CASE UNCHANGED <<draft, events>>
  BY <1>2, <1>4, <1>5, NoCallFits, OneCallKeeps DEF End
<1>6. CASE /\ draft.post # 0 /\ draft.state = "DRAFT_PENDING"
           /\ draft' = [draft EXCEPT !.state = "PUBLISHED", !.approvals = @ + 1,
                                     !.published = draft.post]
           /\ events' = events \cup {<<"approved", call[c].post>>}
  <2>1. ~overtaken => judged
    BY <1>2, <1>3 DEF Current, Looking, ReviewInv, ThreadFit, OfDraft
  <2>2. draft' = [state |-> "PUBLISHED", version |-> draft.version, approvals |-> 1,
                  post |-> draft.post, published |-> draft.post]
    <3>1. draft.approvals + 1 = 1
      BY <1>3, <1>6 DEF DraftFit
    <3>2. draft' = [draft EXCEPT !.state = "PUBLISHED", !.approvals = 1,
                                 !.published = draft.post]
      BY <1>6, <3>1
    <3>3. QED
      BY <1>3, <3>2 DEF DraftFit
  <2>3. DraftFit'
    BY <1>2, <1>3, <2>1, <2>2 DEF DraftFit, PublishedIsJudged
  <2>4. ~overtaken => RowIsCurrent'
    BY <1>2, <1>3, <2>2 DEF RowIsCurrent, OfDraft, ForReview
  <2>5. HistoryFit'
    BY <1>2, <1>3, <1>6 DEF HistoryFit, Fit, ReviewCall
  <2>6. QED
    BY <1>2, <2>2, <2>3, <2>4, <2>5, NoCallFits, RowKeeps DEF End
<1>7. QED
  BY <1>1, <1>5, <1>6 DEF MarkApproved

LEMMA MarkMissingKeeps == ASSUME ReviewInv, MarkMissing PROVE ReviewInv'
<1>1. PICK c \in Calls : c = "poller"
  BY DEF Calls
<1>2. UNCHANGED <<thread, judged, overtaken, breaks>> /\ call[c].pc = "missing" /\ End(c)
  BY <1>1 DEF MarkMissing, history, At
<1>3. Fit(call[c]) /\ (~overtaken => RowIsCurrent) /\ DraftFit /\ HistoryFit
  BY DEF ReviewInv
<1>4. breaks' \in 0..MaxBreaks
  BY <1>2, <1>3 DEF HistoryFit
<1>5. CASE UNCHANGED <<draft, events>>
  BY <1>2, <1>4, <1>5, NoCallFits, OneCallKeeps DEF End
<1>6. CASE /\ draft' = [draft EXCEPT !.state = "REJECTED"]
           /\ events' = events \cup {<<"missing", call[c].post>>}
  <2>1. DraftFit' /\ draft'.version = draft.version /\ draft'.post = draft.post
    BY <1>2, <1>3, <1>6 DEF DraftFit, PublishedIsJudged
  <2>2. ~overtaken => RowIsCurrent'
    BY <1>2, <1>3, <2>1 DEF RowIsCurrent, OfDraft, ForReview
  <2>3. HistoryFit'
    BY <1>2, <1>3, <1>6 DEF HistoryFit, Fit, ReviewCall
  <2>4. QED
    BY <1>2, <2>1, <2>2, <2>3, NoCallFits, RowKeeps DEF End
<1>7. QED
  BY <1>1, <1>5, <1>6 DEF MarkMissing

LEMMA LookupApprovalKeeps == ASSUME ReviewInv, LookupApproval PROVE ReviewInv'
<1>1. PICK c \in Calls : c = "flow"
  BY DEF Calls
<1>6. UNCHANGED <<draft, thread, events, judged, overtaken, breaks>> /\ call[c].pc = "find"
  BY <1>1 DEF LookupApproval, history, At
<1>2. /\ UNCHANGED <<draft, thread, events, judged, overtaken, breaks>>
      /\ breaks' \in 0..MaxBreaks /\ call[c].pc = "find" /\ Fit(call[c])
      /\ Len(thread) \in Nat /\ DOMAIN thread = 1..Len(thread)
  BY <1>6 DEF ReviewInv, HistoryFit, ThreadFit
<1>3. CASE Continue(c, [call[c] EXCEPT !.pc = "reply"])
  <2>1. PICK new : new = [call[c] EXCEPT !.pc = "reply"]
    OBVIOUS
  <2>2. Fit(new) /\ Current(new)
    BY <1>2, <2>1 DEF Fit, Current, ReviewCall, CallPc, Writing, Looking
  <2>3. QED
    BY <1>2, <1>3, <2>1, <2>2, OneCallKeeps
<1>4. ASSUME NEW p \in DOMAIN thread, Continue(c, [NoCall EXCEPT !.pc = "mark", !.post = p])
      PROVE  ReviewInv'
  <2>1. PICK new : new = [NoCall EXCEPT !.pc = "mark", !.post = p]
    OBVIOUS
  <2>2. new = [pc |-> "mark", version |-> 0, approval |-> 0, post |-> p]
    BY <2>1 DEF NoCall
  <2>3. Fit(new) /\ Current(new)
    BY <1>2, <2>2, ReviewAssumption DEF Fit, Current, ReviewCall, CallPc, Writing, Looking
  <2>4. QED
    BY <1>2, <1>4, <2>1, <2>3, OneCallKeeps
<1>5. QED
  BY <1>1, <1>3, <1>4 DEF LookupApproval, PostsMarked

LEMMA MarkPublishedKeeps == ASSUME ReviewInv, MarkPublished PROVE ReviewInv'
<1>1. PICK c \in Calls : c = "flow"
  BY DEF Calls
<1>2. /\ UNCHANGED <<thread, events, judged, overtaken, breaks>> /\ End(c)
      /\ draft' = IF draft.state = "APPROVED"
                  THEN [draft EXCEPT !.state = "PUBLISHED", !.published = call[c].post]
                  ELSE draft
  BY <1>1 DEF MarkPublished, history
<1>3. Fit(call[c]) /\ (~overtaken => RowIsCurrent) /\ DraftFit /\ HistoryFit
  BY DEF ReviewInv
<1>4. DraftFit' /\ draft'.version = draft.version /\ draft'.post = draft.post
  <2>1. CASE draft.state # "APPROVED"
    BY <1>2, <1>3, <2>1 DEF DraftFit, PublishedIsJudged
  <2>2. CASE draft.state = "APPROVED"
    <3>1. draft' = [state |-> "PUBLISHED", version |-> draft.version,
                    approvals |-> draft.approvals, post |-> draft.post,
                    published |-> call[c].post]
      BY <1>2, <1>3, <2>2 DEF DraftFit
    <3>2. QED
      BY <1>2, <1>3, <2>2, <3>1 DEF DraftFit, PublishedIsJudged, Fit, ReviewCall
  <2>3. QED
    BY <2>1, <2>2
<1>5. ~overtaken => RowIsCurrent'
  BY <1>2, <1>3, <1>4 DEF RowIsCurrent, OfDraft, ForReview
<1>6. HistoryFit'
  BY <1>2, <1>3 DEF HistoryFit
<1>7. QED
  BY <1>2, <1>4, <1>5, <1>6, NoCallFits, RowKeeps DEF End

(* What is decided and moderated between the calls.                        *)
LEMMA DecideKeeps ==
  ASSUME ReviewInv, NEW v \in 1..MaxDrafts, NEW state \in {"APPROVED", "REJECTED"},
         Decide(v, state)
  PROVE  ReviewInv'
<1>1. /\ UNCHANGED <<thread, events, call, overtaken, breaks>>
      /\ judged' = (judged \/ state = "APPROVED") /\ draft.state = "DRAFT_PENDING"
      /\ v = draft.version
  BY DEF Decide
<1>2. PICK c \in Calls : c = "flow"
  BY DEF Calls
<1>3. PICK new : new = call[c]
  OBVIOUS
<1>4. call' = [call EXCEPT ![c] = new]
  BY <1>1, <1>2, <1>3 DEF ReviewInv
<1>5. /\ Fit(call[c]) /\ (~overtaken => Current(call[c]) /\ RowIsCurrent)
      /\ DraftFit /\ HistoryFit /\ ThreadFit /\ Len(thread) \in Nat
  BY DEF ReviewInv, ThreadFit
<1>6. draft' = [state |-> state, version |-> draft.version, approvals |-> 1,
                post |-> draft.post, published |-> draft.published]
  <2>1. draft.approvals + 1 = 1
    BY <1>1, <1>5 DEF DraftFit
  <2>2. draft' = [draft EXCEPT !.state = state, !.approvals = 1]
    BY <2>1 DEF Decide
  <2>3. QED
    BY <1>5, <2>2 DEF DraftFit
<1>7. DraftFit'
  <2>1. draft' \in [state : {"DRAFT_PENDING", "APPROVED", "REJECTED", "PUBLISHED"},
                   version : 0..MaxDrafts, approvals : 0..1, post : Nat, published : Nat]
    BY <1>5, <1>6 DEF DraftFit
  <2>2. draft'.post <= Len(thread') /\ draft'.published <= Len(thread')
    BY <1>1, <1>5, <1>6 DEF DraftFit
  <2>3. draft'.state = "APPROVED" => judged' /\ draft'.version > 0
    <3>1. draft'.state = state /\ draft'.version = v
      BY <1>1, <1>6
    <3>2. state = "APPROVED" => judged'
      BY <1>1
    <3>3. v > 0
      BY ReviewAssumption
    <3>4. QED
      BY <3>1, <3>2, <3>3
  <2>4. draft'.state \notin {"DRAFT_PENDING", "PUBLISHED"}
    BY <1>6
  <2>5. QED
    BY <2>1, <2>2, <2>3, <2>4 DEF DraftFit, PublishedIsJudged
<1>8. ThreadFit'
  BY <1>1, <1>5, <1>6 DEF ThreadFit, OfDraft, ForReview
<1>9. HistoryFit'
  BY <1>1, <1>5 DEF HistoryFit
<1>10. NothingTakenBack /\ Len(thread) <= Len(thread') /\ draft'.version = draft.version
  BY <1>1, <1>5, <1>6 DEF NothingTakenBack
<1>11. Fit(new)'
  BY <1>1, <1>3, <1>5, <1>6 DEF Fit
<1>12. ~overtaken => RowIsCurrent' /\ Current(new)'
  BY <1>1, <1>3, <1>5, <1>6 DEF RowIsCurrent, Current, OfDraft, ForReview
<1>13. QED
  BY <1>1, <1>4, <1>7, <1>8, <1>9, <1>10, <1>11, <1>12, CallStepKeeps

LEMMA ModerateKeeps ==
  ASSUME ReviewInv, NEW p \in DOMAIN thread, NEW status \in {"PUBLIC", "GONE"},
         Moderate(p, status)
  PROVE  ReviewInv'
<1>1. /\ UNCHANGED <<draft, events, call, overtaken, breaks>> /\ thread[p].status = "HELD"
      /\ thread' = [thread EXCEPT ![p].status = status]
      /\ judged' = (judged \/ (status = "PUBLIC" /\ thread[p].answer = draft.version))
  BY DEF Moderate
<1>2. /\ DraftFit /\ HistoryFit /\ ThreadFit /\ thread \in Seq(AssistantPost)
      /\ Len(thread) \in Nat /\ DOMAIN thread = 1..Len(thread)
  BY DEF ReviewInv, ThreadFit
<1>3. PICK post : post = [thread[p] EXCEPT !.status = status]
  OBVIOUS
<1>4. /\ post \in AssistantPost /\ post.marker = thread[p].marker
      /\ post.answer = thread[p].answer /\ post.status = status
  <2>1. thread[p] \in AssistantPost
    BY <1>2
  <2>2. QED
    BY <1>3, <2>1 DEF AssistantPost
<1>5. thread' = [thread EXCEPT ![p] = post]
  BY <1>1, <1>3
<1>6. /\ thread' \in Seq(AssistantPost) /\ DOMAIN thread' = DOMAIN thread
      /\ Len(thread') = Len(thread)
      /\ \A q \in DOMAIN thread : thread'[q] = IF q = p THEN post ELSE thread[q]
  BY <1>2, <1>4, <1>5
<1>7. NothingTakenBack /\ Len(thread) <= Len(thread')
  BY <1>1, <1>2, <1>4, <1>6 DEF NothingTakenBack
<1>8. ASSUME NEW q \in DOMAIN thread'
      PROVE  (/\ thread[q].answer <= draft.version
              /\ ForReview(q) => thread[q].marker.number = thread[q].answer
              /\ OfDraft(q) /\ thread[q].status = "PUBLIC" => judged)'
  <2>1. CASE q = p
    <3>1. /\ thread[p].answer <= draft.version
          /\ thread[p].marker.kind = "review" => thread[p].marker.number = thread[p].answer
      BY <1>2 DEF ThreadFit, ForReview
    <3>2. thread[p].answer = draft.version /\ status = "PUBLIC" => judged'
      BY <1>1
    <3>3. thread'[q] = post /\ draft' = draft
      BY <1>1, <1>6, <2>1
    <3>4. QED
      BY <1>4, <3>1, <3>2, <3>3 DEF ForReview, OfDraft
  <2>2. CASE q # p
    BY <1>1, <1>2, <1>6, <2>2 DEF ThreadFit, ForReview, OfDraft
  <2>3. QED
    BY <2>1, <2>2
<1>9. ThreadFit'
  BY <1>6, <1>8 DEF ThreadFit
<1>10. DraftFit'
  BY <1>1, <1>2, <1>6 DEF DraftFit, PublishedIsJudged
<1>11. HistoryFit'
  BY <1>1, <1>2 DEF HistoryFit
<1>12. PICK c \in Calls : c = "flow"
  BY DEF Calls
<1>13. PICK new : new = call[c]
  OBVIOUS
<1>14. call' = [call EXCEPT ![c] = new]
  BY <1>1, <1>12, <1>13 DEF ReviewInv
<1>15. Fit(new)'
  BY <1>1, <1>6, <1>13 DEF Fit, ReviewInv
<1>16. ASSUME ~overtaken PROVE RowIsCurrent' /\ Current(new)'
  <2>1. RowIsCurrent /\ Current(new)
    BY <1>13, <1>16 DEF ReviewInv
  <2>2. \A q : OfDraft(q) => OfDraft(q)'
    BY <1>1, <1>7 DEF OfDraft, ForReview, NothingTakenBack
  <2>3. RowIsCurrent'
    BY <1>1, <2>1, <1>7 DEF RowIsCurrent, OfDraft, ForReview, NothingTakenBack
  <2>4. Looking(new) => OfDraft(new.post) /\ OfDraft(new.post)'
    BY <2>1, <2>2 DEF Current
  <2>5. new.pc = "approved" => thread'[new.post].status = "PUBLIC"
    BY <1>7, <2>1, <2>4 DEF Current, Looking, OfDraft, NothingTakenBack
  <2>6. QED
    BY <1>1, <2>1, <2>3, <2>4, <2>5 DEF Current
<1>17. QED
  BY <1>1, <1>7, <1>9, <1>10, <1>11, <1>14, <1>15, <1>16, CallStepKeeps

(* A new draft: nothing that was written is of its version.                *)
LEMMA CreateDraftKeeps == ASSUME ReviewInv, CreateDraft PROVE ReviewInv'
<1>1. /\ UNCHANGED <<thread, events, breaks>> /\ judged' = FALSE
      /\ draft' = NewDraft(draft.version + 1) /\ draft.version < MaxDrafts
      /\ overtaken' = (overtaken \/ \E d \in Calls : call[d].pc # "idle")
  BY DEF CreateDraft, At
<1>2. /\ DraftFit /\ HistoryFit /\ ThreadFit /\ draft.version \in 0..MaxDrafts
      /\ Len(thread) \in Nat /\ DOMAIN thread = 1..Len(thread)
      /\ \A p \in DOMAIN thread : thread[p] \in AssistantPost
  BY DEF ReviewInv, ThreadFit, DraftFit
<1>3. PICK v : v = draft.version + 1
  OBVIOUS
<1>4. v \in 1..MaxDrafts /\ v > draft.version
  BY <1>1, <1>2, <1>3, ReviewAssumption
<1>5. draft' = [state |-> "DRAFT_PENDING", version |-> v, approvals |-> 0, post |-> 0,
                published |-> 0]
  BY <1>1, <1>3 DEF NewDraft
<1>6. DraftFit'
  BY <1>1, <1>2, <1>4, <1>5 DEF DraftFit, PublishedIsJudged
<1>7. ASSUME NEW p \in DOMAIN thread
      PROVE  thread[p].answer < v /\ (ForReview(p) => thread[p].marker.number = thread[p].answer)
  <2>1. thread[p].answer \in 1..MaxDrafts /\ thread[p].answer <= draft.version
    BY <1>2 DEF ThreadFit, AssistantPost
  <2>2. QED
    BY <1>2, <1>4, <2>1, ReviewAssumption DEF ThreadFit
<1>8. ThreadFit'
  <2>1. ASSUME NEW p \in DOMAIN thread'
        PROVE  (/\ thread[p].answer <= draft.version
                /\ ForReview(p) => thread[p].marker.number = thread[p].answer
                /\ OfDraft(p) /\ thread[p].status = "PUBLIC" => judged)'
    <3>1. /\ thread[p].answer < v /\ thread[p].answer \in Int /\ v \in Int
          /\ (ForReview(p) => thread[p].marker.number = thread[p].answer)
      BY <1>1, <1>2, <1>4, <1>7 DEF AssistantPost
    <3>2. draft'.version = v /\ thread' = thread
      BY <1>1, <1>5
    <3>3. QED
      BY <3>1, <3>2 DEF ForReview, OfDraft
  <2>2. QED
    BY <1>1, <1>2, <2>1 DEF ThreadFit
<1>9. HistoryFit'
  BY <1>1, <1>2 DEF HistoryFit
<1>10. PICK new : new = [NoCall EXCEPT !.pc = "lookup", !.version = v]
  OBVIOUS
<1>11. new = [pc |-> "lookup", version |-> v, approval |-> 0, post |-> 0]
  BY <1>10 DEF NoCall
<1>12. Fit(new)' /\ Current(new)'
  BY <1>1, <1>2, <1>4, <1>5, <1>11
     DEF Fit, Current, ReviewCall, CallPc, Writing, Looking
<1>13. call' = [call EXCEPT !["handler"] = new] /\ "handler" \in Calls
  BY <1>3, <1>10 DEF CreateDraft, Continue, Calls
<1>14. /\ call' \in [Calls -> ReviewCall]
       /\ \A d \in Calls : call'[d] = IF d = "handler" THEN new ELSE call[d]
  BY <1>12, <1>13 DEF ReviewInv, Fit
<1>15. ASSUME NEW d \in Calls PROVE Fit(call[d])'
  <2>1. CASE d = "handler"
    BY <1>12, <1>14, <2>1 DEF Fit
  <2>2. CASE d # "handler"
    <3>1. PICK r : r = call[d]
      OBVIOUS
    <3>2. Fit(r) /\ call'[d] = r
      BY <1>14, <2>2, <3>1 DEF ReviewInv
    <3>3. Fit(r)'
      <4>1. draft'.version = v /\ thread' = thread
        BY <1>1, <1>5
      <4>2. Writing(r) => r.version \in 1..v
        BY <1>2, <1>4, <3>2 DEF Fit, ReviewCall
      <4>3. QED
        BY <3>2, <4>1, <4>2 DEF Fit
    <3>4. QED
      BY <3>2, <3>3 DEF Fit, Writing, Looking
  <2>3. QED
    BY <2>1, <2>2
<1>16. ASSUME ~overtaken', NEW d \in Calls PROVE Current(call[d])'
  <2>1. CASE d = "handler"
    BY <1>12, <1>14, <2>1 DEF Current, Looking, OfDraft, ForReview
  <2>2. CASE d # "handler"
    <3>1. call'[d].pc = "idle"
      BY <1>1, <1>14, <1>16, <2>2
    <3>2. QED
      BY <3>1 DEF Current, Looking
  <2>3. QED
    BY <2>1, <2>2
<1>17. RowIsCurrent'
  BY <1>5 DEF RowIsCurrent
<1>18. QED
  BY <1>6, <1>8, <1>9, <1>14, <1>15, <1>16, <1>17 DEF ReviewInv

LEMMA ReviewStep == ASSUME ReviewInv, [ReviewNext]_reviewVars PROVE ReviewInv'
<1>1. CASE ReviewNext
  <2>1. ASSUME NEW c \in Calls, CallStep(c) PROVE ReviewInv'
    BY <2>1, LookupReviewKeeps, WriteReviewKeeps, AttachKeeps, CheckReviewKeeps, MarkApprovedKeeps,
       MarkMissingKeeps, LookupApprovalKeeps, ReplyKeeps, MarkPublishedKeeps DEF CallStep
  <2>2. QED
    BY <1>1, <2>1, CreateDraftKeeps, ReconcileKeeps, PublishKeeps, BreakKeeps, DecideKeeps,
       ModerateKeeps DEF ReviewNext
<1>2. CASE UNCHANGED reviewVars
  BY <1>2 DEF reviewVars, ReviewInv, DraftFit, ThreadFit, HistoryFit, PublishedIsJudged,
     ForReview, OfDraft, Fit, Current, RowIsCurrent
<1>3. QED
  BY <1>1, <1>2

LEMMA ReviewInvariant == ReviewSpec => []ReviewInv
  BY InitReview, ReviewStep, PTL DEF ReviewSpec

LEMMA ReviewIsTyped == ReviewInv => ReviewTypeOK
BY DEF ReviewInv, DraftFit, ThreadFit, HistoryFit, Fit, ReviewCall, CallPc, AssistantPost,
       ReviewTypeOK

LEMMA ReviewIsJudged == ReviewInv => PublishedIsJudged
BY DEF ReviewInv, DraftFit

(* The types of the review, for any number of drafts and posts.            *)
THEOREM ReviewTypeCorrect == ReviewSpec => []ReviewTypeOK
BY ReviewInvariant, ReviewIsTyped, PTL

(* A case is published on a person's approval of that very draft, however  *)
(* many drafts, posts and broken calls there are, unless a draft was made  *)
(* while another call was under way.                                       *)
THEOREM JudgedBeforePublished == ReviewSpec => []PublishedIsJudged
BY ReviewInvariant, ReviewIsJudged, PTL
=============================================================================

------------------------------ MODULE Answering ------------------------------
(***************************************************************************)
(* A question on its way to an answer: _query_grounded and                 *)
(* _query_comprehensive in app/main.py, the choice of evidence they hand   *)
(* to the provider (app/versioned_assist.py), and what is checked of the   *)
(* provider's reply (app/responses.py).  Which versions are searched is    *)
(* the matter of Retrieval, and which call the breaker lets through of     *)
(* ProviderBreaker; here a search finds what it finds, and a call fails or *)
(* is answered with anything.                                              *)
(*                                                                         *)
(* A source is one branch of one repository, and evidence is known by its  *)
(* source, whether it is of a test, and, where a budget counts it, by its  *)
(* number.                                                                 *)
(***************************************************************************)
EXTENDS Integers, Sequences, FiniteSets, SequencesExt, FiniteSetsExt

CONSTANT Attachments  \* artifacts a question may carry

VARIABLES
    asked,    \* the question
    stage,    \* where it is
    sources,  \* comprehensive, no scope given: how much each source offers
    context,  \* the evidence handed to the provider
    web,      \* the search of the official documentation, if one was needed
    tries,    \* replies of the provider that were not accepted
    answer    \* what the asker gets

answeringVars == <<asked, stage, sources, context, web, tries, answer>>

(* VERSIONED_SOURCE_PROFILES; the last one is the file of references that  *)
(* were reviewed, and what the search of the official documentation adds.  *)
Versioned == <<"SHARED_DOCS", "CLOUD_DIPLO", "WALL_MAIN", "COCKPIT_DIPLO",
               "GENIE_MASTER", "KICKSTART_MASTER", "QEMU_EXEC_TOOLS_MAIN",
               "CLOUD_EUROPA", "CURATED">>
Sources == Range(Versioned)
IndexOf(source) == CHOOSE i \in DOMAIN Versioned : Versioned[i] = source

(* The branches of ablestack-cloud are sources of their own.               *)
Cloud == {"CLOUD_DIPLO", "CLOUD_EUROPA"}
Repository(source) == IF source \in Cloud THEN "CLOUD" ELSE source

(* Bound: the sources a question names, and the approved set, if any.      *)
Nameable == {"SHARED_DOCS"} \cup Cloud
ApprovedSets == {{}, {"SHARED_DOCS", "CLOUD_DIPLO"}, Nameable}

(* Bounds: a source offers nothing or plenty, the related products alike;  *)
(* a reply to a comprehensive question cites one piece of evidence.        *)
Plenty == 6
Offers ==
    {o \in [Sources -> {0, Plenty}] : \A i, j \in 3..7 : o[Versioned[i]] = o[Versioned[j]]}
Topics == {"GENERAL", "SPECIALISED", "NETWORK"}

NoQuestion == [kind |-> "none"]
Evidence(of) == [source : of, test : BOOLEAN]
Unknown == [source |-> "unknown", test |-> FALSE]

(* What the validators of the requests accept: a scope, exactly one for a  *)
(* grounded answer; the set may come from the version of the product, next *)
(* named sources.  guest: it is about a guest system; current: the         *)
(* artifacts the post itself carries.                                      *)
GroundedQueryRequest ==
    {q \in [kind : {"grounded"}, named : SUBSET Nameable, members : ApprovedSets] :
        (q.named = {}) # (q.members = {})}
ComprehensiveQueryRequest ==
    {q \in [kind : {"comprehensive"}, named : SUBSET Nameable, members : ApprovedSets,
            guest : BOOLEAN, attached : SUBSET Attachments, current : SUBSET Attachments] :
        q.current \subseteq q.attached}

AnsweringInit ==
    /\ asked = NoQuestion /\ stage = "idle"
    /\ sources = [s \in Sources |-> 0]
    /\ context = {} /\ web = "unneeded" /\ tries = 0
    /\ answer = [state |-> "NONE"]

Answered(state) ==
    /\ answer' = [state |-> state]
    /\ stage' = "idle"
    /\ UNCHANGED <<context, tries>>

GoOnWith(evidence) ==
    /\ context' = evidence
    /\ stage' = "generate"
    /\ UNCHANGED <<tries, answer>>

(* The plan of a question: the sources it is about; none: all of them.     *)
PlannedSources(q) == IF q.named # {} THEN q.named ELSE q.members
NeedsInformation(q) ==
    IF q.members # {} THEN ~(PlannedSources(q) \subseteq q.members)
    ELSE Cardinality(PlannedSources(q)) > 1

AskGrounded(q) ==
    /\ asked = NoQuestion
    /\ asked' = q
    /\ stage' = "search"
    /\ UNCHANGED <<sources, context, web, tries, answer>>

AskComprehensive(q) ==
    /\ asked = NoQuestion
    /\ asked' = q
    /\ IF NeedsInformation(q) THEN Answered("NEEDS_INFORMATION")
       ELSE /\ stage' = IF PlannedSources(q) = {} THEN "review" ELSE "search"
            /\ UNCHANGED <<context, tries, answer>>
    /\ UNCHANGED <<sources, web>>

EndQuestion ==
    /\ answer.state # "NONE"
    /\ asked' = NoQuestion /\ sources' = [s \in Sources |-> 0]
    /\ context' = {} /\ web' = "unneeded" /\ tries' = 0
    /\ answer' = [state |-> "NONE"]
    /\ UNCHANGED stage

(* retrieve: of the set when there is one, whichever sources are named.    *)
Searched(q) == IF q.members # {} THEN q.members ELSE q.named

Repositories(evidence) == {Repository(e.source) : e \in evidence}
BranchConflict(evidence) ==
    Cardinality({e.source : e \in evidence}) > Cardinality(Repositories(evidence))
TestOnly(evidence) == \A e \in evidence : e.test

(* decide_generation.                                                      *)
MayGenerate(q, found) ==
    /\ found # {} /\ ~TestOnly(found) /\ ~BranchConflict(found)
    /\ Cardinality(Repositories(found)) > 1 \/ Cardinality(q.named) > 1 => q.members # {}

SearchGrounded(found) ==
    /\ stage = "search" /\ asked.kind = "grounded"
    /\ found \subseteq Evidence(Searched(asked))
    /\ IF MayGenerate(asked, found) THEN GoOnWith(found) ELSE Answered("ABSTAINED")
    /\ UNCHANGED <<asked, sources, web>>

(* The evidence goes to the provider with the artifacts, which must still  *)
(* be there.                                                               *)
HandOver(found) ==
    IF found = {} THEN Answered("ABSTAINED")
    ELSE GoOnWith(found) \/ (asked.attached # {} /\ Answered("NOT_FOUND"))

SearchComprehensive(found) ==
    /\ stage = "search" /\ asked.kind = "comprehensive"
    /\ found \subseteq Searched(asked)
    /\ HandOver([source : found, test : {FALSE}])
    /\ UNCHANGED <<asked, sources, web>>

(* select_context_results: so many of each source, by the topic of the     *)
(* question, in the order of evidence_priority, and twenty of them all.    *)
Limit_Related(topic, s) ==        \* fault: two of every related product
    IF s \in {"SHARED_DOCS", "CLOUD_DIPLO", "CLOUD_EUROPA"} THEN 4 ELSE 2

Limit(topic, s) ==
    CASE topic = "GENERAL" ->
           IF s \in {"SHARED_DOCS", "CLOUD_DIPLO", "CLOUD_EUROPA"} THEN 4 ELSE 1
      [] topic = "SPECIALISED" ->
           IF s \in {"SHARED_DOCS", "CLOUD_DIPLO", "CLOUD_EUROPA"} THEN 3
           ELSE IF s = "CURATED" THEN 4 ELSE 1
      [] topic = "NETWORK" ->
           CASE s = "SHARED_DOCS" -> 3
             [] s = "CLOUD_DIPLO" -> 6
             [] s \in {"CURATED", "CLOUD_EUROPA"} -> 2
             [] OTHER -> 1

Priority(s, curated) ==
    CASE s = "SHARED_DOCS" -> 1 [] s = "CURATED" -> curated [] OTHER -> 2

Selected(offered, topic, curated) ==
    LET Taken(s) == Min({offered[s], Limit(topic, s)})
        Ahead(s) == {t \in Sources \ {s} :
                       \/ Priority(t, curated) < Priority(s, curated)
                       \/ /\ Priority(t, curated) = Priority(s, curated)
                          /\ IndexOf(t) < IndexOf(s)}
    IN {s \in Sources : Taken(s) > 0 /\ MapThenSumSet(Taken, Ahead(s)) < 20}

(* Every source is searched, and the official documentation as well when   *)
(* the reviewed references do not answer the question.  That search may be *)
(* switched off, be refused, fail, or find nothing that its sources bear   *)
(* out: a question about a guest system is not answered without it.        *)
MustSearchWeb == asked.guest

Review ==
    /\ stage = "review"
    /\ \E offered \in Offers, topic \in Topics, curated \in 1..4 :
          LET found == [source : Selected(offered, topic, curated), test : {FALSE}] IN
          /\ sources' = offered
          /\ \/ web' = "unneeded" /\ HandOver(found)
             \/ web' = "found" /\ offered["CURATED"] > 0 /\ HandOver(found)
             \/ web' = "failed" /\ (Answered("FAILED") \/ (~MustSearchWeb /\ HandOver(found)))
    /\ UNCHANGED asked

(* The call to the provider fails or the breaker refuses it; or what came  *)
(* back cannot be entered into the ledger, and nothing is answered.        *)
GenerateFails(state) ==
    /\ stage = "generate"
    /\ Answered(state)
    /\ UNCHANGED <<asked, sources, web>>

(* validate_grounded_result.                                               *)
Verdict_Tests(says, cited) ==     \* fault: tests alone are good enough
    IF says = "ANSWERED" /\ cited # {} /\ ~BranchConflict(cited) /\ Unknown \notin cited
    THEN "ANSWERED" ELSE "ABSTAINED"

Verdict(says, cited) ==
    IF /\ says = "ANSWERED" /\ cited # {} /\ Unknown \notin cited
       /\ ~BranchConflict(cited) /\ ~TestOnly(cited)
    THEN "ANSWERED" ELSE "ABSTAINED"

GenerateGrounded(says, cited) ==
    /\ stage = "generate" /\ asked.kind = "grounded"
    /\ cited \subseteq context \cup {Unknown}
    /\ answer' = [state |-> Verdict(says, cited),
                  cited |-> IF Verdict(says, cited) = says /\ Unknown \notin cited
                            THEN cited ELSE {}]
    /\ stage' = "idle"
    /\ UNCHANGED <<asked, sources, context, web, tries>>

(* generate_comprehensive: a reply that names what it was not given, or    *)
(* passes over an artifact of the post, is asked for once more.            *)
Acceptable(cited, examined) ==
    Unknown \notin cited /\ asked.current \subseteq examined

GenerateComprehensive(says, cited, examined) ==
    /\ stage = "generate" /\ asked.kind = "comprehensive"
    /\ cited \subseteq context \cup {Unknown} /\ examined \subseteq asked.attached
    /\ IF Acceptable(cited, examined)
       THEN /\ answer' = [state |-> says, cited |-> cited, examined |-> examined]
            /\ stage' = "idle"
            /\ UNCHANGED <<context, tries>>
       ELSE IF tries = 0
            THEN tries' = 1 /\ UNCHANGED <<stage, context, answer>>
            ELSE Answered("FAILED")
    /\ UNCHANGED <<asked, sources, web>>

AnsweringNext ==
    \/ \E q \in GroundedQueryRequest : AskGrounded(q)
    \/ \E q \in ComprehensiveQueryRequest : AskComprehensive(q)
    \/ EndQuestion
    \/ \E found \in SUBSET Evidence(Nameable) : SearchGrounded(found)
    \/ \E found \in SUBSET Nameable : SearchComprehensive(found)
    \/ Review
    \/ \E state \in {"FAILED", "ERROR"} : GenerateFails(state)
    \/ \E says \in {"ANSWERED", "ABSTAINED"}, cited \in SUBSET (context \cup {Unknown}) :
          GenerateGrounded(says, cited)
    \/ \E says \in {"ANSWERED", "ABSTAINED"}, examined \in SUBSET Attachments,
           cited \in {{}} \cup {{e} : e \in context \cup {Unknown}} :
          GenerateComprehensive(says, cited, examined)

AnsweringSpec == AnsweringInit /\ [][AnsweringNext]_answeringVars

----------------------------------------------------------------------------
(* Properties.                                                             *)

(* Every variable has its type.                                            *)
AnsweringTypeOK ==
    /\ asked \in {NoQuestion} \cup GroundedQueryRequest \cup ComprehensiveQueryRequest
    /\ stage \in {"idle", "search", "review", "generate"}
    /\ sources \in Offers
    /\ context \subseteq [source : Sources, test : BOOLEAN]
    /\ web \in {"unneeded", "found", "failed"}
    /\ tries \in 0..1
    /\ answer.state \in {"NONE", "NEEDS_INFORMATION", "ANSWERED", "ABSTAINED",
                         "FAILED", "ERROR", "NOT_FOUND"}

(* What is given as an answer rests on what was looked at.  A grounded     *)
(* answer cites evidence it was given, of one branch of each repository,   *)
(* of several repositories only under an approved set, and not of tests    *)
(* alone; a comprehensive one cites nothing it was not given, speaks of    *)
(* every artifact of the post, and says nothing of a guest system without  *)
(* the official documentation it was found to need.                        *)
AnswersAreGrounded ==
    answer.state = "ANSWERED" =>
        /\ answer.cited \subseteq context
        /\ asked.kind = "grounded" =>
              /\ answer.cited # {} /\ ~TestOnly(answer.cited)
              /\ ~BranchConflict(answer.cited)
              /\ Cardinality(Repositories(answer.cited)) > 1 => asked.members # {}
        /\ asked.kind = "comprehensive" =>
              /\ asked.current \subseteq answer.examined
              /\ asked.guest => web # "failed"

(* The provider sees something of every source that has anything to say    *)
(* ("Keep every source reviewed while bounding a provider request to       *)
(* twenty chunks", app/versioned_assist.py:507): the limits of the sources *)
(* leave room for the last of them, whatever the topic.                    *)
EverySourceIsReviewed ==
    stage = "generate" =>
        {s \in Sources : sources[s] > 0} \subseteq {e.source : e \in context}
=============================================================================

------------------------------ MODULE MemoryCase ------------------------------
(***************************************************************************)
(* The Community case of MemoryStore (app/store.py), on which the tests of *)
(* the handler run, next to the deployed one: every step of CommunityCase  *)
(* that calls the store makes the same call of MemoryStore, and the case,  *)
(* its turns and its responses are compared.                               *)
(*                                                                         *)
(* MemoryStore remembers the answer it gave to a key and gives it again;   *)
(* the deployed store answers a repeated key with the row as it is now,    *)
(* and notes a resolution under its key only when it changed something.    *)
(* The comparison ends (parted) when the two answers differ, or the        *)
(* discussion gets too long for it.                                        *)
(***************************************************************************)
EXTENDS CommunityCase

CONSTANT MaxCompared  \* bound: posts and selections while the two are compared

ASSUME ComparedAssumption == MaxCompared \in Nat

VARIABLES
    memory,  \* MemoryStore: the case, its turns and responses, the answers
    parted   \* history: a call was answered differently

twinVars == <<vars, memory, parted>>

EmptyMemory == [case |-> NoCase, turns |-> {}, responses |-> <<>>, answers |-> {}]

(* What the handler reads of the row a resolution or its knowledge post    *)
(* was recorded in.                                                        *)
AnswerOf(row) ==
    [NoCase EXCEPT !.conversation = row.conversation, !.resolvedPost = row.resolvedPost,
                   !.kbPost = row.kbPost, !.kbSource = row.kbSource,
                   !.kbSelected = row.kbSelected]
Remembered(key) == {a \in memory.answers : a.key = key}
Remember(m, key) ==
    [m EXCEPT !.answers = @ \cup {[key |-> key, row |-> AnswerOf(m.case)]}]

(* Fault: the source of the knowledge post survives the reopening.         *)
WithoutResolutionIn_KeepsSource(row) ==
    [row EXCEPT !.resolvedPost = NoPost, !.kbPost = NoPost, !.kbSelected = FALSE]
WithoutResolutionIn(row) ==
    [row EXCEPT !.resolvedPost = NoPost, !.kbPost = NoPost, !.kbSource = NoPost,
                !.kbSelected = FALSE]

(* record_community_turn.                                                  *)
RecordTurnIn(p) ==
    LET reopened == memory.case.conversation = "RESOLVED" /\ forum[p].reason = "REQUESTER_AUTO"
        row == IF reopened
               THEN [WithoutResolutionIn(memory.case) EXCEPT !.conversation = "ANALYZING"]
               ELSE memory.case
    IN IF memory.case.version = 0 \/ p \in memory.turns THEN memory
       ELSE [memory EXCEPT !.case = [row EXCEPT !.lastSeen = p], !.turns = @ \cup {p}]

(* create_community_case.                                                  *)
CreateCaseIn(p) ==
    LET row == IF memory.case.conversation = "RESOLVED" THEN WithoutResolutionIn(memory.case)
               ELSE memory.case
    IN IF p \in memory.turns THEN memory
       ELSE [memory EXCEPT
               !.case = [row EXCEPT !.version = @ + 1, !.state = "DRAFT_PENDING",
                                    !.conversation = "ANALYZING", !.draft = p,
                                    !.reviewer = "NULL", !.publishedPost = NoPost,
                                    !.lastSeen = p],
               !.turns = @ \cup {p},
               !.responses = Append(@, [post |-> p, answer |-> p])]

(* mark_community_auto_published: the last response takes the answer.      *)
MarkAnswerIn(answer, post) ==
    LET row == memory.case
        same == row.state = "PUBLISHED" /\ row.publishedPost = post
    IN IF ~same /\ (row.state \notin {"DRAFT_PENDING", "PUBLISHED"} \/ row.reviewer = "techflow:auto")
       THEN memory
       ELSE [memory EXCEPT
               !.case = IF same THEN [@ EXCEPT !.draft = answer]
                        ELSE [@ EXCEPT !.state = "PUBLISHED", !.reviewer = "techflow:auto",
                                       !.draft = answer, !.publishedPost = post,
                                       !.conversation = "WAITING_RESOLUTION"],
               !.responses[Len(memory.responses)].answer = answer]

(* sync_community_resolution.                                              *)
ResolutionIn(s, admin) ==
    LET row == memory.case IN
    IF s.post # NoPost /\ s.post = row.kbPost
    THEN [row EXCEPT !.conversation = "RESOLVED", !.kbSelected = TRUE]
    ELSE IF s.post # NoPost
    THEN [row EXCEPT !.conversation = IF s.by = "REQUESTER" \/ admin THEN "RESOLVED"
                                      ELSE "WAITING_RESOLUTION",
                     !.resolvedPost = s.post, !.kbSelected = FALSE]
    ELSE IF row.conversation = "RESOLVED"
    THEN [WithoutResolutionIn(row) EXCEPT !.conversation = "ANALYZING"]
    ELSE row

(* mark_community_knowledge_published and .._knowledge_solution_selected.  *)
KnowledgeIn(post) ==
    IF memory.case.conversation # "RESOLVED" \/ memory.case.resolvedPost = NoPost THEN memory
    ELSE [memory EXCEPT !.case.kbPost = post, !.case.kbSource = memory.case.resolvedPost,
                        !.case.kbSelected = FALSE]
SolutionIn(post) ==
    IF memory.case.conversation = "RESOLVED" /\ post # NoPost /\ memory.case.kbPost = post
    THEN [memory EXCEPT !.case.kbSelected = TRUE] ELSE memory

----------------------------------------------------------------------------
(* The two stores side by side.                                            *)

Same(m) == memory' = m /\ UNCHANGED parted
Differs == memory' = EmptyMemory /\ parted' = TRUE
Untouched == UNCHANGED <<memory, parted>>
OnTheForum == IF Len(forum') + Len(selections') <= MaxCompared \/ parted THEN Untouched ELSE Differs

(* A call under a key MemoryStore has answered before is answered as then, *)
(* and must not change the row of the deployed store either.               *)
Twice(key, new) ==
    IF Remembered(key) = {} THEN Same(new)
    ELSE IF case' = case /\ \A a \in Remembered(key) : a.row = AnswerOf(case) THEN Untouched
    ELSE Differs

TwinStep(h) ==
    LET row == handler[h].row
        ev == handler[h].ev
        found == memory.case.version > 0
        resolved(s) == [memory EXCEPT !.case = ResolutionIn(s, ev.admin)]
        key == IF ev.kind # "resolution" THEN NoTag
               ELSE IF ev.admin /\ selections[ev.id].by = "MODERATOR" THEN <<"verified", ev.id>>
               ELSE ResolutionKey(ev.id)
        recorded == KnowledgeIn(handler[h].pub)
    IN
    \/ RecordTurn(h) /\ Same(RecordTurnIn(ev.id))
    \/ CreateCase(h) /\ Same(CreateCaseIn(ev.id))
    \/ MarkAnswer(h) /\ Same(MarkAnswerIn(row.draft, handler[h].pub))
    \/ SyncResolution(h) /\ IF found THEN Twice(key, Remember(resolved(selections[ev.id]), key))
                            ELSE Same(memory)
    \/ MarkKnowledge(h) /\ LET tag == KnowledgeTag(row.resolvedPost) IN
                           IF recorded = memory /\ Remembered(tag) = {} THEN Same(memory)
                           ELSE Twice(tag, Remember(recorded, tag))
    \/ MarkSolution(h) /\ IF SolutionKey(row.kbPost) \in events THEN Same(memory)
                          ELSE Same(SolutionIn(handler[h].pub))

CallsNoStore(h) ==
    \/ \E p \in 1..Len(forum) : ReceivePost(h, p)
    \/ \E i \in 1..Len(selections) : ReceiveResolution(h, i)
    \/ LookupAnswer(h) \/ PostAnswer(h) \/ LookupKnowledge(h) \/ PostKnowledge(h)
    \/ SelectSolution(h) \/ VerifySolution(h) \/ Fail(h)

TwinInit == Init /\ memory = EmptyMemory /\ parted = FALSE

TwinNext ==
    \/ Forum /\ OnTheForum
    \/ \E h \in Handlers : CallsNoStore(h) /\ OnTheForum
    \/ ~parted /\ \E h \in Handlers : TwinStep(h)
    \/ parted /\ Untouched /\ \E h \in Handlers : HandlePost(h) \/ HandleResolution(h)

TwinSpec == TwinInit /\ [][TwinNext]_twinVars

----------------------------------------------------------------------------
(* Properties.                                                             *)

(* The tests' store holds the same case as the deployed one, through every *)
(* sequence of requests, repetitions and failures, until a resolution is   *)
(* delivered again after the case has moved on.                            *)
MemoryCaseAgrees ==
    ~parted => /\ memory.case = [case EXCEPT !.key = NoTag]
               /\ memory.turns = turns
               /\ memory.responses = responses
=============================================================================

--------------------------- MODULE CommunityCase ---------------------------
(***************************************************************************)
(* The Community case of one Flarum discussion: the request handler        *)
(* create_community_case (app/main.py) over the case store                 *)
(* (app/postgres_store.py) and the forum client (app/community.py), in the *)
(* deployed configuration (automatic publication on, review posts off).    *)
(*                                                                         *)
(* A handler is one HTTP request.  It runs in a thread of its own: every   *)
(* store call is one transaction and every Flarum call one request, and    *)
(* between two of them any other handler, or a person on the forum, may    *)
(* act.  A handler may stop after any step (an exception answered with     *)
(* 503, or a crash of the process), and an event may be delivered again at *)
(* any time and in any order: the poller resubmits what it cannot confirm. *)
(***************************************************************************)
EXTENDS Integers, Sequences

CONSTANTS
    Handlers,      \* the requests that may be in flight together
    Selectors,     \* who may select a best answer, a subset of People
    Comments,      \* what people write: a subset of HumanReasons
    MaxPosts,      \* bound: posts of the discussion
    MaxSelections  \* bound: best-answer changes people make

People == {"REQUESTER", "ADMIN", "MODERATOR", "MEMBER"}

(* Why the poller hands a post to the gateway: every post of the requester *)
(* asks for a response, a post of somebody else only when it addresses the *)
(* assistant, and the assistant's own posts never do.                      *)
HumanReasons == {"REQUESTER_AUTO", "EXPLICIT_AI_REQUEST", "STAFF_RECORDED"}
Reasons == HumanReasons \cup {"ASSISTANT_SELF"}

ASSUME SelectorsAssumption == Selectors \subseteq People
ASSUME CommentsAssumption == Comments \subseteq HumanReasons
ASSUME BoundsAssumption == MaxPosts \in Nat \ {0} /\ MaxSelections \in Nat

VARIABLES
    forum,       \* the discussion's posts, in order of their ids
    selections,  \* every change of its best answer, the last one in force
    case,        \* the row of community_case; version 0 when there is none
    turns,       \* community_turn: the posts recorded in the case
    responses,   \* community_response: one row per draft version
    events,      \* community_case_event: the idempotency keys recorded
    handler      \* the requests in flight

vars == <<forum, selections, case, turns, responses, events, handler>>

----------------------------------------------------------------------------
NoPost == 0

(* Idempotency keys of case events and markers of assistant posts.         *)
Tag == {"none", "post", "resolution", "verified", "unset", "answer", "kb",
        "solution"} \X Nat
NoTag == <<"none", 0>>
PostKey(p) == <<"post", p>>
AnswerTag(v) == <<"answer", v>>
KnowledgeTag(p) == <<"kb", p>>
SolutionKey(p) == <<"solution", p>>

(* What the poller derives the id of a resolution event from: the post and *)
(* the time it was selected.  An unset carries neither.                    *)
ResolutionKey(i) ==
    IF selections[i].post = NoPost THEN <<"unset", 0>> ELSE <<"resolution", i>>

CurrentSelection ==
    IF selections = <<>> THEN [post |-> NoPost, by |-> "REQUESTER"]
    ELSE selections[Len(selections)]

SelectedByPeople ==
    LET byPerson(s) == s.by \in People IN SelectSeq(selections, byPerson)

NoCase ==
    [version |-> 0, state |-> "DRAFT_PENDING", conversation |-> "ANALYZING",
     draft |-> NoPost, reviewer |-> "NULL", publishedPost |-> NoPost,
     lastSeen |-> NoPost, resolvedPost |-> NoPost, kbPost |-> NoPost,
     kbSource |-> NoPost, kbSelected |-> FALSE, key |-> NoTag]

NoEvent == [kind |-> "none", id |-> 0, admin |-> FALSE]
Idle == [pc |-> "idle", ev |-> NoEvent, row |-> NoCase, pub |-> NoPost]

At(h, pc) == handler[h].pc = pc
Free(h) == At(h, "idle")
(* The request ends, with 200 or with 503, 404, 409 or a crash: nothing of *)
(* it survives but its committed transactions and its posts.               *)
End(h) == handler' = [handler EXCEPT ![h] = Idle]
(* The request waits at step pc; before the first store call it holds the  *)
(* event, after it what it still needs of the row that call returned.      *)
Begin(h, pc, ev) ==
    handler' = [handler EXCEPT ![h] = [Idle EXCEPT !.pc = pc, !.ev = ev]]
Goto(h, pc, row, pub) ==
    handler' = [handler EXCEPT ![h] =
                  [Idle EXCEPT !.pc = pc, !.row = row, !.pub = pub]]
Continue(h, pc, row) ==
    IF pc = "end" THEN End(h) ELSE Goto(h, pc, row, NoPost)
(* What publishing an answer, and what finishing a resolution, read of it. *)
AnswerPart(row) == [NoCase EXCEPT !.version = row.version, !.draft = row.draft]
KnowledgePart(row) ==
    [NoCase EXCEPT !.resolvedPost = row.resolvedPost, !.kbPost = row.kbPost]

store == <<case, turns, responses, events>>
flarum == <<forum, selections>>

PostOf(reason, tag) == [reason |-> reason, tag |-> tag]
ResponseRequested(p) == forum[p].reason \in {"REQUESTER_AUTO", "EXPLICIT_AI_REQUEST"}

Init ==
    /\ forum = << PostOf("REQUESTER_AUTO", NoTag) >>
    /\ selections = <<>>
    /\ case = NoCase
    /\ turns = {}
    /\ responses = <<>>
    /\ events = {}
    /\ handler = [h \in Handlers |-> Idle]

----------------------------------------------------------------------------
(* The forum: people post, select and unset best answers.                  *)

HumanPost(reason) ==
    /\ Len(forum) < MaxPosts
    /\ forum' = Append(forum, PostOf(reason, NoTag))
    /\ UNCHANGED <<selections, handler>> /\ UNCHANGED store

(* Of NoPost: the best answer is unset.                                    *)
SelectBest(p, person) ==
    /\ Len(SelectedByPeople) < MaxSelections
    /\ p # CurrentSelection.post
    /\ selections' = Append(selections, [post |-> p, by |-> person])
    /\ UNCHANGED <<forum, handler>> /\ UNCHANGED store

----------------------------------------------------------------------------
(* A post event.                                                           *)

(* The handler's answer is on record but not published: it is published    *)
(* again when its post is delivered again.                                 *)
AwaitsPublication ==
    /\ case.state \in {"DRAFT_PENDING", "PUBLISHED"}
    /\ case.draft # NoPost
    /\ case.reviewer # "techflow:auto"

ReceivePost(h, p) ==
    /\ Free(h)
    /\ LET ev == [kind |-> "post", id |-> p, admin |-> FALSE] IN
       \/ /\ p \in turns /\ AwaitsPublication
          /\ Goto(h, "lookupAnswer", AnswerPart(case), NoPost)
       \/ /\ p \in turns /\ ~AwaitsPublication
          /\ End(h)
       \/ /\ p \notin turns /\ ~ResponseRequested(p)
          /\ Begin(h, "record", ev)
       \/ /\ p \notin turns /\ ResponseRequested(p)
          /\ Begin(h, "create", ev)
    /\ UNCHANGED flarum /\ UNCHANGED store

(* Fault: the knowledge post survives the reopening.                       *)
WithoutResolution_KeepsKnowledge(row) ==
    [row EXCEPT !.resolvedPost = NoPost, !.kbSource = NoPost, !.kbSelected = FALSE]

WithoutResolution(row) ==
    [row EXCEPT !.resolvedPost = NoPost, !.kbPost = NoPost,
                !.kbSource = NoPost, !.kbSelected = FALSE]

(* record_community_turn: a post that asks for no answer.                  *)
RecordTurn(h) ==
    LET p == handler[h].ev.id
        reopened == /\ case.conversation = "RESOLVED"
                    /\ forum[p].reason = "REQUESTER_AUTO"
        seen == [case EXCEPT !.lastSeen = p]
        row == IF reopened
               THEN [WithoutResolution(seen) EXCEPT !.conversation = "ANALYZING"]
               ELSE seen
    IN /\ At(h, "record")
       /\ \/ /\ case.version = 0          \* 404
             /\ End(h)
             /\ UNCHANGED store
          \/ /\ case.version > 0 /\ p \in turns
             /\ End(h)
             /\ UNCHANGED store
          \/ /\ case.version > 0 /\ p \notin turns
             /\ case' = row
             /\ turns' = turns \cup {p}
             /\ events' = events \cup {PostKey(p)}
             /\ End(h)
             /\ UNCHANGED responses
       /\ UNCHANGED flarum

NewCase(p) ==
    [NoCase EXCEPT !.version = 1, !.draft = p, !.lastSeen = p, !.key = PostKey(p)]

(* Faults: a follow-up that leaves the row published, and one that forgets *)
(* the post but not the state.                                             *)
FollowUp_StaysPublished(p) ==
    [case EXCEPT !.conversation = "ANALYZING", !.version = @ + 1, !.draft = p,
                 !.reviewer = "NULL", !.lastSeen = p, !.key = PostKey(p)]

FollowUp_KeepsState(p) ==
    [case EXCEPT !.conversation = "ANALYZING", !.version = @ + 1, !.draft = p,
                 !.reviewer = "NULL", !.publishedPost = NoPost, !.lastSeen = p,
                 !.key = PostKey(p)]

FollowUp(p) ==
    LET kept == IF case.conversation = "RESOLVED" THEN WithoutResolution(case)
                ELSE case
    IN [kept EXCEPT !.state = "DRAFT_PENDING", !.conversation = "ANALYZING",
                    !.version = @ + 1, !.draft = p, !.reviewer = "NULL",
                    !.publishedPost = NoPost, !.lastSeen = p, !.key = PostKey(p)]

(* The event was handled before, or its post is on record.                 *)
Known_ByKey(p) == case.key = PostKey(p)     \* fault: only the last key is kept
Known(p) == case.key = PostKey(p) \/ p \in turns

(* store.create_community_case with the answer generated for post p: the   *)
(* new row, or the row as it is when p is on record already.               *)
CreateCase(h) ==
    LET p == handler[h].ev.id
        row == IF case.version = 0 THEN NewCase(p) ELSE FollowUp(p)
    IN /\ At(h, "create")
       /\ \/ /\ Known(p)
             /\ Goto(h, "lookupAnswer", AnswerPart(case), NoPost)
             /\ UNCHANGED store
          \/ /\ ~Known(p)
             /\ case' = row
             /\ turns' = turns \cup {p}
             /\ responses' = Append(responses, [post |-> p, answer |-> p])
             /\ events' = IF case.version = 0 THEN events
                          ELSE events \cup {PostKey(p)}
             /\ Goto(h, "lookupAnswer", AnswerPart(row), NoPost)
       /\ UNCHANGED flarum

----------------------------------------------------------------------------
(* publish_assistant_reply: look for the assistant's post that carries the *)
(* marker, and write it only when there is none.                           *)

(* Fault: the search reads a page of the discussion only.                  *)
Marked_FirstPage(tag) ==
    { i \in 1..Len(forum) \cap 1..2 :
        forum[i].reason = "ASSISTANT_SELF" /\ forum[i].tag = tag }

Marked(tag) == { i \in 1..Len(forum) :
                   forum[i].reason = "ASSISTANT_SELF" /\ forum[i].tag = tag }

LookupMarker(h, pc, tag, found, missing) ==
    /\ At(h, pc)
    /\ \/ \E i \in Marked(tag) : Goto(h, found, handler[h].row, i)
       \/ Marked(tag) = {} /\ Goto(h, missing, handler[h].row, NoPost)
    /\ UNCHANGED flarum /\ UNCHANGED store

WriteMarked(h, pc, tag, next) ==
    /\ At(h, pc)
    /\ Len(forum) < MaxPosts
    /\ forum' = Append(forum, PostOf("ASSISTANT_SELF", tag))
    /\ Goto(h, next, handler[h].row, Len(forum) + 1)
    /\ UNCHANGED selections /\ UNCHANGED store

LookupAnswer(h) == LookupMarker(h, "lookupAnswer", AnswerTag(handler[h].row.version),
                                "markAnswer", "postAnswer")
PostAnswer(h) == WriteMarked(h, "postAnswer", AnswerTag(handler[h].row.version),
                             "markAnswer")

(* mark_community_auto_published.                                          *)
Published(answer, post) ==
    [case EXCEPT !.state = "PUBLISHED", !.conversation = "WAITING_RESOLUTION",
                 !.reviewer = "techflow:auto", !.draft = answer,
                 !.publishedPost = post]

MayAutoPublish == /\ case.state \in {"DRAFT_PENDING", "PUBLISHED"}
                  /\ case.reviewer # "techflow:auto"

(* The response row of the current version takes the answer.               *)
Answered(answer) == [responses EXCEPT ![case.version].answer = answer]

MarkAnswer(h) ==
    LET row == handler[h].row
        post == handler[h].pub
        key == AnswerTag(row.version)
        same == case.state = "PUBLISHED" /\ case.publishedPost = post
    IN /\ At(h, "markAnswer")
       /\ \/ /\ key \in events \/ (same /\ case.draft = row.draft)
             /\ End(h)
             /\ UNCHANGED store
          \/ /\ key \notin events /\ (same => case.draft # row.draft)
             /\ same \/ MayAutoPublish
             /\ case' = IF same THEN [case EXCEPT !.draft = row.draft]
                        ELSE Published(row.draft, post)
             /\ responses' = Answered(row.draft)
             /\ events' = events \cup {key}
             /\ End(h)
             /\ UNCHANGED turns
          \/ /\ key \notin events /\ ~same /\ ~MayAutoPublish    \* 409, then 503
             /\ End(h)
             /\ UNCHANGED store
       /\ UNCHANGED flarum

----------------------------------------------------------------------------
(* A resolution event: the best answer changed.                            *)

(* Configured administrators, and the identity the gateway itself selects  *)
(* with, are trusted; a moderator is looked up in Flarum, where the        *)
(* selection must still be the current one.                                *)
ByAdministrator(i) ==
    /\ selections[i].post # NoPost
    /\ \/ selections[i].by \in {"ADMIN", "SYSTEM"}
       \/ /\ selections[i].by = "MODERATOR"
          /\ CurrentSelection = selections[i]

ReceiveResolution(h, i) ==
    /\ Free(h)
    /\ Begin(h, "sync", [kind |-> "resolution", id |-> i,
                          admin |-> ByAdministrator(i)])
    /\ UNCHANGED flarum /\ UNCHANGED store

(* What the handler does with the row of a resolution.                     *)
AfterResolution(row) ==
    IF row.conversation # "RESOLVED" \/ row.resolvedPost = NoPost THEN "end"
    ELSE IF row.kbSource # row.resolvedPost THEN "lookupKnowledge"
    ELSE IF row.kbPost # NoPost /\ ~row.kbSelected THEN "select"
    ELSE "end"

(* sync_community_resolution: the row after selection s, whose selector is *)
(* an administrator or not.                                                *)
Confirmed == [case EXCEPT !.conversation = "RESOLVED", !.kbSelected = TRUE]
Resolved(best) ==
    [case EXCEPT !.conversation = "RESOLVED", !.resolvedPost = best,
                 !.kbSelected = FALSE]
UnderReview(best) ==
    [case EXCEPT !.conversation = "WAITING_RESOLUTION", !.resolvedPost = best,
                 !.kbSelected = FALSE]
Reopened == [WithoutResolution(case) EXCEPT !.conversation = "ANALYZING"]

Resolution(s, admin) ==
    IF s.post # NoPost /\ s.post = case.kbPost THEN Confirmed
    ELSE IF s.post # NoPost /\ (s.by = "REQUESTER" \/ admin) THEN Resolved(s.post)
    ELSE IF s.post # NoPost THEN UnderReview(s.post)
    ELSE IF case.conversation = "RESOLVED" THEN Reopened
    ELSE case

(* The event is recorded, under its key, only when it changed the outcome. *)
ResolutionChanged(s, admin) ==
    IF s.post # NoPost /\ s.post = case.kbPost
    THEN case.conversation # "RESOLVED" \/ ~case.kbSelected
    ELSE IF s.post # NoPost /\ (s.by = "REQUESTER" \/ admin)
    THEN case.conversation # "RESOLVED" \/ case.resolvedPost # s.post
    ELSE case.conversation = "RESOLVED" \/ (s.post # NoPost /\ case.resolvedPost # s.post)

SyncResolution(h) ==
    LET ev == handler[h].ev
        s == selections[ev.id]
        key == IF ev.admin /\ s.by = "MODERATOR" THEN <<"verified", ev.id>>
               ELSE ResolutionKey(ev.id)
        row == Resolution(s, ev.admin)
    IN /\ At(h, "sync")
       /\ \/ /\ key \in events
             /\ Continue(h, AfterResolution(case), KnowledgePart(case))
             /\ UNCHANGED store
          \/ /\ key \notin events /\ case.version = 0      \* 404
             /\ End(h)
             /\ UNCHANGED store
          \/ /\ key \notin events /\ case.version > 0
             /\ case' = row
             /\ events' = IF ResolutionChanged(s, ev.admin) THEN events \cup {key}
                          ELSE events
             /\ Continue(h, AfterResolution(row), KnowledgePart(row))
             /\ UNCHANGED <<turns, responses>>
       /\ UNCHANGED flarum

LookupKnowledge(h) ==
    LookupMarker(h, "lookupKnowledge", KnowledgeTag(handler[h].row.resolvedPost),
                 "markKnowledge", "postKnowledge")
PostKnowledge(h) ==
    WriteMarked(h, "postKnowledge", KnowledgeTag(handler[h].row.resolvedPost),
                "markKnowledge")

AfterKnowledge(row) ==
    IF row.kbPost # NoPost /\ ~row.kbSelected THEN "select" ELSE "end"

(* mark_community_knowledge_published.                                     *)
KnowledgeReady_Always == TRUE    \* fault: the state is not checked again
KnowledgeReady == case.conversation = "RESOLVED" /\ case.resolvedPost # NoPost

MarkKnowledge(h) ==
    LET key == KnowledgeTag(handler[h].row.resolvedPost)
        row == [case EXCEPT !.kbPost = handler[h].pub,
                            !.kbSource = case.resolvedPost, !.kbSelected = FALSE]
    IN /\ At(h, "markKnowledge")
       /\ \/ /\ key \in events
             /\ Continue(h, AfterKnowledge(case), KnowledgePart(case))
             /\ UNCHANGED store
          \/ /\ key \notin events /\ KnowledgeReady
             /\ case' = row
             /\ events' = events \cup {key}
             /\ Continue(h, AfterKnowledge(row), KnowledgePart(row))
             /\ UNCHANGED <<turns, responses>>
          \/ /\ key \notin events /\ ~KnowledgeReady               \* 409, then 503
             /\ End(h)
             /\ UNCHANGED store
       /\ UNCHANGED flarum

(* select_solution: make the knowledge post the best answer, with the      *)
(* gateway's own identity, and read it back.                               *)
SelectSolution(h) ==
    LET kb == handler[h].row.kbPost IN
    /\ At(h, "select")
    /\ \/ /\ CurrentSelection.post = kb
          /\ UNCHANGED selections
          /\ Goto(h, "markSolution", handler[h].row, kb)
       \/ /\ CurrentSelection.post # kb
          /\ selections' = Append(selections, [post |-> kb, by |-> "SYSTEM"])
          /\ Goto(h, "verify", handler[h].row, kb)
    /\ UNCHANGED forum /\ UNCHANGED store

VerifySolution(h) ==
    /\ At(h, "verify")
    /\ \/ /\ CurrentSelection.post = handler[h].pub
          /\ Goto(h, "markSolution", handler[h].row, handler[h].pub)
       \/ /\ CurrentSelection.post # handler[h].pub
          /\ End(h)
    /\ UNCHANGED flarum /\ UNCHANGED store

(* mark_community_knowledge_solution_selected.                             *)
MarkSolution(h) ==
    LET key == SolutionKey(handler[h].row.kbPost)
        ready == /\ case.conversation = "RESOLVED"
                 /\ case.kbPost # NoPost
                 /\ case.kbPost = handler[h].pub
    IN /\ At(h, "markSolution")
       /\ \/ /\ key \in events
             /\ End(h)
             /\ UNCHANGED store
          \/ /\ key \notin events /\ ready
             /\ case' = [case EXCEPT !.kbSelected = TRUE]
             /\ events' = events \cup {key}
             /\ End(h)
             /\ UNCHANGED <<turns, responses>>
          \/ /\ key \notin events /\ ~ready
             /\ End(h)
             /\ UNCHANGED store
       /\ UNCHANGED flarum

(* An exception at any step, a failed generation, an unreachable Flarum, a *)
(* hidden post, a lost response, or a crash of the gateway.                *)
Fail(h) ==
    /\ ~Free(h)
    /\ End(h)
    /\ UNCHANGED flarum /\ UNCHANGED store

----------------------------------------------------------------------------
Forum ==
    \/ \E reason \in Comments : HumanPost(reason)
    \/ \E person \in Selectors, p \in {NoPost} \cup 2..Len(forum) :
          SelectBest(p, person)

HandlePost(h) ==
    \/ \E p \in 1..Len(forum) : ReceivePost(h, p)
    \/ RecordTurn(h)
    \/ CreateCase(h)
    \/ LookupAnswer(h)
    \/ PostAnswer(h)
    \/ MarkAnswer(h)

HandleResolution(h) ==
    \/ \E i \in 1..Len(selections) : ReceiveResolution(h, i)
    \/ SyncResolution(h)
    \/ LookupKnowledge(h)
    \/ PostKnowledge(h)
    \/ MarkKnowledge(h)
    \/ SelectSolution(h)
    \/ VerifySolution(h)
    \/ MarkSolution(h)

Next == Forum \/ \E h \in Handlers : HandlePost(h) \/ HandleResolution(h) \/ Fail(h)

Spec == Init /\ [][Next]_vars

----------------------------------------------------------------------------
(* Properties.                                                             *)

PostRecord == [reason : Reasons, tag : Tag]
Selection == [post : Nat, by : People \cup {"SYSTEM"}]
CaseRow ==
    [version : Nat, state : {"DRAFT_PENDING", "PUBLISHED"},
     conversation : {"ANALYZING", "WAITING_RESOLUTION", "RESOLVED"},
     draft : Nat, reviewer : {"NULL", "techflow:auto"}, publishedPost : Nat,
     lastSeen : Nat, resolvedPost : Nat, kbPost : Nat, kbSource : Nat,
     kbSelected : BOOLEAN, key : Tag]
PostStep == {"record", "create", "lookupAnswer", "postAnswer", "markAnswer"}
ResolutionStep == {"sync", "lookupKnowledge", "postKnowledge", "markKnowledge",
                   "select", "verify", "markSolution"}
Request ==
    [pc : {"idle"} \cup PostStep \cup ResolutionStep,
     ev : [kind : {"none", "post", "resolution"}, id : Nat, admin : BOOLEAN],
     row : CaseRow, pub : Nat]

(* Every variable has its type.                                            *)
TypeOK ==
    /\ forum \in Seq(PostRecord) /\ Len(forum) <= MaxPosts
    /\ selections \in Seq(Selection)
    /\ case \in CaseRow
    /\ turns \subseteq Nat
    /\ responses \in Seq([post : Nat, answer : Nat])
    /\ events \subseteq Tag
    /\ handler \in [Handlers -> Request]

Published_ == case.state = "PUBLISHED"

(* However often a post is delivered, and by however many requests at      *)
(* once, it is answered by one draft version: community_turn is unique on  *)
(* the post and create_community_case gives way to the row it finds.       *)
OneVersionPerPost ==
    /\ Len(responses) = case.version
    /\ \A v, w \in 1..Len(responses) :
          responses[v].post = responses[w].post => v = w

(* What community_case says is the published answer of the current version *)
(* is an answer the assistant posted for this case, and a version it has.  *)
PublishedPostIsAnAnswer ==
    Published_ => \E v \in 1..case.version :
                     case.publishedPost \in Marked(AnswerTag(v))

(* With one request at a time it is the answer of the current version,     *)
(* whatever was lost, repeated or left half done before.                   *)
PublishedPostIsCurrent ==
    Published_ => case.publishedPost \in Marked(AnswerTag(case.version))

(* A marker is written once: retries after a lost response, a failed mark  *)
(* or a crash reuse the post they find.                                    *)
MarkersAreUnique ==
    \A i, j \in 1..Len(forum) :
       forum[i].tag # NoTag /\ forum[i].tag = forum[j].tag => i = j

(* The knowledge post on record was written for the answer on record as    *)
(* its source.                                                             *)
KnowledgeMatchesSource ==
    case.kbPost # NoPost => case.kbPost \in Marked(KnowledgeTag(case.kbSource))

(* A knowledge post always stands on a resolution: no interleaving of      *)
(* reopening, selection and late marks leaves one without a selected       *)
(* answer, a resolved case without one, or a selected solution without a   *)
(* knowledge post.                                                         *)
KnowledgeStandsOnResolution ==
    /\ case.conversation = "RESOLVED" => case.resolvedPost # NoPost
    /\ case.kbPost # NoPost => case.resolvedPost # NoPost
    /\ case.kbSelected => case.kbPost # NoPost

(* The published post of a version is set once: a late or repeated mark    *)
(* never replaces it, and it goes away only for a new version.             *)
PublishedOncePerVersion ==
    [][case.publishedPost # NoPost /\ case'.publishedPost # case.publishedPost
         => case'.version = case.version + 1]_vars

(* The selection of somebody without the authority is no signal: the       *)
(* answer a resolved case stands on was selected, at some time, by the     *)
(* requester or an administrator                                           *)
(* (docs/runbooks/community-conversation.md:116).                          *)
ResolvedByAuthority ==
    case.conversation = "RESOLVED" =>
       \E k \in 1..Len(selections) :
          selections[k].post = case.resolvedPost /\ selections[k].by # "MEMBER"

(* A resolved conversation leaves that state when it is reopened, never    *)
(* because an answer drafted earlier is published.                         *)
PublicationKeepsResolution ==
    [][case.conversation = "RESOLVED" /\ case'.conversation = "WAITING_RESOLUTION"
         => case'.publishedPost = case.publishedPost]_vars
============================================================================

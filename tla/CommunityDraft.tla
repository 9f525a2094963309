--------------------------- MODULE CommunityDraft ---------------------------
(***************************************************************************)
(* How the handler of a community post comes to an answer (app/main.py):   *)
(* the attachments it may use, the question it puts to the assistant, the  *)
(* one rewrite when the answer does not progress or cannot be acted upon,  *)
(* and what becomes of it.  Whether a post is answered at all, and what is *)
(* done with the answer, is the matter of CommunityCase.                   *)
(*                                                                         *)
(* A text is its length in characters; the frames below are the lengths of *)
(* the texts the prompts of app/conversation.py are made of.               *)
(***************************************************************************)
EXTENDS Integers, Sequences, FiniteSets, FiniteSetsExt, SequencesExt

CONSTANTS
    Files,      \* attachments
    MaxFiles,   \* of which one request takes so many (20 in the code)
    MaxPosts    \* bound: posts of the discussion

ASSUME DraftAssumption ==
    /\ IsFiniteSet(Files) /\ MaxFiles \in Nat \ {0} /\ MaxPosts \in Nat \ {0}

VARIABLES
    title,      \* of the discussion
    posts,      \* its posts, oldest first, as they are recorded as turns
    kept,       \* attachments the store still holds
    drafting    \* the request that answers a post

draftVars == <<title, posts, kept, drafting>>

Requester(p) == p.role = "REQUESTER"

(* Bounds: a text is short or longer than every limit; the list of up to   *)
(* three typing errors has none, a short one, a long one or three long     *)
(* ones; an answer has no fault, one, three or every one there is.         *)
Sizes == {10, 16000}
Titles == {5, 200}
Typos == {0, 25, 105, 317}
Faults == {{}, {6}, {1, 2, 3}, 1..8}
FaultName == <<22, 24, 21, 20, 24, 18, 19, 26>>

Min2(a, b) == IF a < b THEN a ELSE b

(* _excerpt: the head and the tail around a mark, as long as the limit.    *)
Excerpt(size, limit) == Min2(size, limit)

(* What is in a prompt besides the texts of the discussion.                *)
Frame == 1329            \* headings and instruction of the full prompt
ShortFrame == 83         \* headings of the short one
ShortInstruction == 409
RowFrame == 44           \* number, role and mark of an attachment
None == 2                \* no answer before
TypoFrame == 188         \* what to do about a typing error
RewriteFrame == 381      \* rewrite: take the diagnosis further
FaultFrame == 838        \* and mend these faults
KnowledgeFrame == 467    \* headings and instruction of the knowledge post
Goal == 103              \* what the requester wants to come of the data

TypoSection(typos) == IF typos = 0 THEN 0 ELSE TypoFrame + typos

(* The posts a prompt quotes.                                              *)
Original(thread) ==
    LET asked == {i \in DOMAIN thread : Requester(thread[i])}
    IN Excerpt(thread[IF asked # {} THEN Min(asked) ELSE 1].size, 1200)
LatestHuman(thread) ==
    Excerpt(thread[Max({i \in DOMAIN thread : thread[i].role # "ASSISTANT"})].size, 1200)
Previous(thread) ==
    LET ours == {i \in DOMAIN thread : thread[i].role = "ASSISTANT"}
    IN IF ours = {} THEN 0 ELSE Excerpt(thread[Max(ours)].size, 1200)
Rows(thread) ==
    LET recent == SubSeq(thread, IF Len(thread) > 12 THEN Len(thread) - 11 ELSE 1, Len(thread))
    IN [i \in DOMAIN recent |-> RowFrame + Excerpt(recent[i].size, 900)]

(* Rows, newest first, until the room is used up; a row that does not fit  *)
(* is cut.                                                                 *)
Fill(rows, room) ==
    LET Take(used, row) ==
          LET gap == IF used = 0 THEN 0 ELSE 1
          IN IF room - used - gap <= 0 THEN used
             ELSE used + gap + Min2(row, room - used - gap)
    IN FoldLeft(Take, 0, Reverse(rows))

FullSize(thread, typos) ==
    Frame + title + Original(thread) + LatestHuman(thread) + TypoSection(typos)
    + (IF Previous(thread) = 0 THEN None ELSE Previous(thread))
    + FoldLeft(LAMBDA n, row : n + row + 1, 0, Rows(thread)) - 1

(* What the short prompt keeps whatever happens.                           *)
Essentials_LongLatest(thread, typos) ==   \* fault: the latest question in full
    ShortFrame + ShortInstruction + Min2(title, 200)
    + Excerpt(Original(thread), 650) + Excerpt(LatestHuman(thread), 1200)
    + Excerpt(TypoSection(typos), 500)
    + (IF Previous(thread) = 0 THEN None ELSE Excerpt(Previous(thread), 650))

Essentials(thread, typos) ==
    ShortFrame + ShortInstruction + Min2(title, 200)
    + Excerpt(Original(thread), 650) + Excerpt(LatestHuman(thread), 900)
    + Excerpt(TypoSection(typos), 500)
    + (IF Previous(thread) = 0 THEN None ELSE Excerpt(Previous(thread), 650))

(* build_conversation_question: its length, or 0 when it raises.           *)
ConversationQuestion(thread, typos, limit) ==
    IF FullSize(thread, typos) <= limit THEN FullSize(thread, typos)
    ELSE LET kernel == Essentials(thread, typos)
             rows == [i \in DOMAIN Rows(thread) |-> Excerpt(Rows(thread)[i], 500)]
         IN IF kernel > limit THEN 0 ELSE kernel + Fill(rows, limit - kernel)

(* build_progression_retry_question: room is left for its instruction.     *)
QuestionLimit == 4000
RewriteSuffix(faults) ==
    IF faults = {} THEN RewriteFrame
    ELSE FaultFrame + MapThenSumSet(LAMBDA f : FaultName[f], faults) + 2 * (Cardinality(faults) - 1)
RewriteQuestion(thread, typos, faults) ==
    LET base == ConversationQuestion(thread, typos, QuestionLimit - RewriteSuffix(faults))
    IN IF base = 0 THEN 0 ELSE base + RewriteSuffix(faults)

(* build_knowledge_base_question: the selected answer, and the others as   *)
(* far as there is room.                                                   *)
KnowledgeLimit == 16000
KnowledgeQuestion(thread, selected, goal) ==
    LET kernel == KnowledgeFrame + title + goal + RowFrame + Min2(thread[selected].size, 1600)
        others == RemoveAt([i \in DOMAIN thread |-> RowFrame + Min2(thread[i].size, 900)], selected)
    IN IF kernel > KnowledgeLimit THEN 0
       ELSE kernel + Fill(others, KnowledgeLimit - kernel)

(* _available_conversation_artifact_ids: the newest first, those that are  *)
(* kept, so many of them.                                                  *)
NewestFirst_Oldest(thread) == thread           \* fault: the oldest first
NewestFirst(thread) == Reverse(thread)

Available(thread, incoming) ==
    LET turns == RemoveAt(thread, incoming)
        rows == Append(turns, thread[incoming])
        Add(found, p) ==
          LET new == SetToSeq((p.files \cap kept) \ Range(found))
          IN found \o SubSeq(new, 1, Min2(Len(new), MaxFiles - Len(found)))
    IN Range(FoldLeft(Add, <<>>, NewestFirst(rows)))

(* What the validator of a request accepts.                                *)
IsRequest(r, limit) ==
    /\ r.size \in 3..limit
    /\ Cardinality(r.files) <= MaxFiles
    /\ r.required \subseteq r.files

----------------------------------------------------------------------------
NoDraft == [stage |-> "idle", of |-> 0, seen |-> 0, typos |-> 0, files |-> {}, faults |-> {}]

DraftInit ==
    /\ title \in Titles
    /\ posts = <<>> /\ kept = Files
    /\ drafting = NoDraft

(* A person writes.  The requester is answered, one post at a time (how    *)
(* requests overlap is the matter of CommunityCase); what others write is  *)
(* only recorded, at any time.                                             *)
PostByRequester(size, files) ==
    /\ drafting = NoDraft /\ Len(posts) < MaxPosts
    /\ files \subseteq kept /\ Cardinality(files) <= MaxFiles
    /\ posts' = Append(posts, [role |-> "REQUESTER", size |-> size, files |-> files])
    /\ drafting' = [NoDraft EXCEPT !.stage = "pending", !.of = Len(posts) + 1]
    /\ UNCHANGED <<title, kept>>

PostByStaff(size) ==
    /\ Len(posts) < MaxPosts
    /\ posts' = Append(posts, [role |-> "STAFF", size |-> size, files |-> {}])
    /\ UNCHANGED <<title, kept, drafting>>

(* The store deletes what has expired.                                     *)
ExpireFile(f) ==
    /\ f \in kept
    /\ kept' = kept \ {f}
    /\ UNCHANGED <<title, posts, drafting>>

(* The handler gives up, and the post will be delivered again; or it puts  *)
(* a question to the assistant, when one can be made of it.                *)
TurnDown(why) == drafting' = [drafting EXCEPT !.stage = why]

PutQuestion(request, limit, next) ==
    drafting' = [next EXCEPT !.stage = IF request.size = 0 THEN "overflow"
                                       ELSE IF ~IsRequest(request, limit) THEN "invalid"
                                       ELSE next.stage]

(* The attachments of the post must be there ...                           *)
TakePost ==
    /\ drafting.stage = "pending"
    /\ IF posts[drafting.of].files \subseteq kept
       THEN drafting' = [drafting EXCEPT !.stage = "checked", !.seen = Len(posts)]
       ELSE TurnDown("missing")
    /\ UNCHANGED <<title, posts, kept>>

(* ... those of the discussion are listed, and the assistant is asked; or  *)
(* the question is one that has an answer that was reviewed.               *)
Read == SubSeq(posts, 1, drafting.seen)

AskAssistant(typos) ==
    LET files == Available(Read, drafting.of)
        asking == [drafting EXCEPT !.stage = "asked", !.typos = typos, !.files = files]
    IN /\ drafting.stage = "checked"
       /\ typos > 0 => Previous(Read) > 0
       /\ \/ drafting' = [asking EXCEPT !.stage = "answered"]
          \/ PutQuestion([size |-> ConversationQuestion(Read, typos, QuestionLimit), files |-> files,
                  required |-> posts[drafting.of].files], QuestionLimit, asking)
       /\ UNCHANGED <<title, posts, kept>>

(* The assistant answers, or fails.                                        *)
AssistantReplies ==
    /\ \/ drafting.stage \in {"asked", "asked_again"} /\ TurnDown("failed")
       \/ drafting.stage = "asked" /\ TurnDown("answered")
       \/ drafting.stage = "asked_again" /\ TurnDown("answered_again")
    /\ UNCHANGED <<title, posts, kept>>

(* An answer that progresses and has no fault is stored, and is the next   *)
(* post of the discussion; another is rewritten once.  Only what follows   *)
(* an answer can fail to progress.                                         *)
MayRepeat == Previous(Read) > 0

StoreDraft(size) ==
    /\ drafting.stage \in {"answered", "answered_again"}
    /\ posts' = Append(posts, [role |-> "ASSISTANT", size |-> size, files |-> {}])
    /\ drafting' = NoDraft
    /\ UNCHANGED <<title, kept>>

Rewrite(faults) ==
    /\ drafting.stage = "answered"
    /\ faults = {} => MayRepeat
    /\ PutQuestion([size |-> RewriteQuestion(Read, drafting.typos, faults), files |-> drafting.files,
            required |-> posts[drafting.of].files], QuestionLimit,
           [drafting EXCEPT !.stage = "asked_again", !.faults = faults])
    /\ UNCHANGED <<title, posts, kept>>

RejectDraft ==
    /\ drafting.stage = "answered_again"
    /\ TurnDown("rejected")
    /\ UNCHANGED <<title, posts, kept>>

(* The post is delivered again.                                            *)
Refused == {"missing", "overflow", "invalid", "failed", "rejected"}
DeliverAgain ==
    /\ drafting.stage \in Refused
    /\ drafting' = IF drafting.of = 0 THEN NoDraft
                   ELSE [NoDraft EXCEPT !.stage = "pending", !.of = drafting.of]
    /\ UNCHANGED <<title, posts, kept>>

(* The discussion is resolved by a post: everything it has is put together *)
(* once more, with no attachment that must be spoken of.                   *)
AskKnowledge(selected, goal) ==
    /\ drafting = NoDraft
    /\ PutQuestion([size |-> KnowledgeQuestion(posts, selected, goal),
            files |-> Available(posts, Len(posts)), required |-> {}],
           KnowledgeLimit, NoDraft)
    /\ UNCHANGED <<title, posts, kept>>

DraftNext ==
    \/ \E size \in Sizes : PostByStaff(size)
    \/ \E size \in Sizes, files \in SUBSET Files : PostByRequester(size, files)
    \/ \E f \in Files : ExpireFile(f)
    \/ TakePost
    \/ \E typos \in Typos : AskAssistant(typos)
    \/ AssistantReplies
    \/ \E size \in Sizes : StoreDraft(size)
    \/ \E faults \in Faults : Rewrite(faults)
    \/ RejectDraft
    \/ DeliverAgain
    \/ \E selected \in DOMAIN posts, goal \in {0, Goal} : AskKnowledge(selected, goal)

DraftSpec == DraftInit /\ [][DraftNext]_draftVars

----------------------------------------------------------------------------
(* Properties.                                                             *)

(* Every variable has its type.                                            *)
DraftTypeOK ==
    /\ title \in Titles
    /\ \A i \in DOMAIN posts : /\ posts[i].role \in {"REQUESTER", "STAFF", "ASSISTANT"}
                               /\ posts[i].size \in Sizes
                               /\ posts[i].files \subseteq Files
    /\ kept \subseteq Files
    /\ drafting.stage \in {"idle", "pending", "checked", "asked", "asked_again",
                        "answered", "answered_again"} \cup Refused
    /\ drafting.of \in 0..Len(posts) /\ drafting.seen \in 0..Len(posts)
    /\ drafting.typos \in Typos /\ drafting.faults \in Faults /\ drafting.files \subseteq Files

(* A question can always be made, whatever was written and attached before *)
(* ("while reserving space for the mandatory rewrite instruction",         *)
(* app/conversation.py:1104): what a prompt keeps in any case fits into    *)
(* the room it is given, and the attachments of the post are among those   *)
(* that are sent, unless one expired after it was looked at.  Except: a    *)
(* rewrite that names the faults of the answer and the typing errors of    *)
(* the question leaves no room for the essentials of a long discussion.    *)
QuestionsCanBeAsked ==
    /\ drafting.stage = "overflow" => drafting.typos > 0 /\ drafting.faults # {}
    /\ drafting.stage = "invalid" => ~(posts[drafting.of].files \subseteq kept)
=============================================================================

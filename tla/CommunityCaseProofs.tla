------------------------ MODULE CommunityCaseProofs ------------------------
(***************************************************************************)
(* Theorems about the Community case, for any number of requests in flight,*)
(* any length of the discussion and any number of selections; with one     *)
(* request in flight, what is published and that the tests' store          *)
(* (MemoryCase) holds the same case as the deployed one.                   *)
(***************************************************************************)
EXTENDS MemoryCase, SequenceTheorems, TLAPS

(* A request that synchronises a resolution read it from the discussion.   *)
SyncsASelection ==
    \A h \in Handlers : At(h, "sync") => /\ handler[h].ev.id \in 1..Len(selections)
                                        /\ handler[h].ev.kind = "resolution"

TypeInv == TypeOK /\ SyncsASelection

----------------------------------------------------------------------------
(* The values from which rows and requests are made have their types.      *)
LEMMA ConstantsTyped ==
    /\ NoTag \in Tag
    /\ NoCase \in CaseRow
    /\ NoEvent \in [kind : {"none", "post", "resolution"}, id : Nat, admin : BOOLEAN]
    /\ Idle \in Request
<1>1. NoTag \in Tag
    BY DEF NoTag, Tag
<1>2. NoCase \in CaseRow
    BY <1>1 DEF NoCase, CaseRow, NoPost
<1>3. NoEvent \in [kind : {"none", "post", "resolution"}, id : Nat, admin : BOOLEAN]
    BY DEF NoEvent
<1>4. Idle \in Request
    BY <1>2, <1>3, <1>1 DEF Idle, Request, NoPost
<1> QED BY <1>1, <1>2, <1>3, <1>4

(* Every key and marker is a tag.                                          *)
LEMMA TagsTyped ==
    ASSUME NEW n \in Nat
    PROVE  /\ PostKey(n) \in Tag /\ AnswerTag(n) \in Tag /\ KnowledgeTag(n) \in Tag
           /\ SolutionKey(n) \in Tag
           /\ <<"resolution", n>> \in Tag /\ <<"verified", n>> \in Tag
           /\ <<"unset", 0>> \in Tag
BY DEF PostKey, AnswerTag, KnowledgeTag, SolutionKey, Tag

(* What a request keeps of a row is a row.                                 *)
LEMMA PartsTyped ==
    ASSUME NEW row \in CaseRow
    PROVE  AnswerPart(row) \in CaseRow /\ KnowledgePart(row) \in CaseRow
BY ConstantsTyped DEF AnswerPart, KnowledgePart, CaseRow

Steps == PostStep \cup ResolutionStep

EventType == [kind : {"none", "post", "resolution"}, id : Nat, admin : BOOLEAN]

(* A request moves to a step at which it holds no resolution event.        *)
Moves(h) == \E r \in Request : r.pc # "sync" /\ handler' = [handler EXCEPT ![h] = r]

(* A request that ends (any status code) is typed as an idle one.          *)
LEMMA EndMoves == ASSUME NEW h, End(h) PROVE Moves(h)
BY ConstantsTyped DEF End, Moves, Idle

(* A request that goes on with a typed row and post stays typed.           *)
LEMMA GotoMoves ==
    ASSUME NEW h, NEW pc \in Steps \ {"sync"}, NEW pub \in Nat, NEW row \in CaseRow,
           Goto(h, pc, row, pub)
    PROVE  Moves(h)
<1> DEFINE r == [Idle EXCEPT !.pc = pc, !.row = row, !.pub = pub]
<1>1. r \in Request /\ r.pc # "sync"
    BY ConstantsTyped DEF Request, Steps
<1>2. handler' = [handler EXCEPT ![h] = r]
    BY DEF Goto
<1> QED BY <1>1, <1>2 DEF Moves

(* The first step of a request holds a typed event.                        *)
LEMMA BeginTyped ==
    ASSUME NEW pc \in Steps, NEW ev \in EventType
    PROVE  /\ [Idle EXCEPT !.pc = pc, !.ev = ev] \in Request
           /\ [Idle EXCEPT !.pc = pc, !.ev = ev].pc = pc
           /\ [Idle EXCEPT !.pc = pc, !.ev = ev].ev = ev
BY ConstantsTyped DEF Request, Steps, EventType

(* A request that begins with a typed event moves alone.                   *)
LEMMA BeginMoves ==
    ASSUME NEW h, NEW pc \in Steps \ {"sync"}, NEW ev \in EventType, Begin(h, pc, ev)
    PROVE  Moves(h)
BY BeginTyped DEF Begin, Moves

(* A request that ends or goes on as a row tells it stays typed.           *)
LEMMA ContinueMoves ==
    ASSUME NEW h, NEW pc \in (Steps \ {"sync"}) \cup {"end"}, NEW row \in CaseRow,
           Continue(h, pc, KnowledgePart(row))
    PROVE  Moves(h)
BY EndMoves, GotoMoves, PartsTyped DEF Continue, NoPost

(* A move keeps the type of the requests and what they hold.               *)
LEMMA MovesTyped ==
    ASSUME TypeInv, NEW h \in Handlers, Moves(h),
           selections' \in Seq(Selection), Len(selections) <= Len(selections')
    PROVE  handler' \in [Handlers -> Request] /\ SyncsASelection'
<1>1. PICK r \in Request : r.pc # "sync" /\ handler' = [handler EXCEPT ![h] = r]
    BY DEF Moves
<1>2. handler' \in [Handlers -> Request]
    BY <1>1 DEF TypeInv, TypeOK
<1>3. Len(selections) \in Nat /\ Len(selections') \in Nat
    BY DEF TypeInv, TypeOK
<1>4. SyncsASelection'
    BY <1>1, <1>3 DEF TypeInv, TypeOK, SyncsASelection, At
<1> QED BY <1>2, <1>4

(* Where a resolution, and a knowledge post, leads to.                     *)
LEMMA NextStepsTyped ==
    ASSUME NEW row \in CaseRow
    PROVE  /\ AfterResolution(row) \in (Steps \ {"sync"}) \cup {"end"}
           /\ AfterKnowledge(row) \in (Steps \ {"sync"}) \cup {"end"}
BY DEF AfterResolution, AfterKnowledge, Steps, ResolutionStep, PostStep

(* A new draft changes no column's type.                                   *)
LEMMA DraftTyped ==
    ASSUME NEW row \in CaseRow, NEW p \in Nat, NEW q \in Nat, NEW key \in Tag
    PROVE  [row EXCEPT !.state = "DRAFT_PENDING", !.conversation = "ANALYZING",
                       !.version = @ + 1, !.draft = p, !.reviewer = "NULL",
                       !.publishedPost = q, !.lastSeen = p, !.key = key] \in CaseRow
<1>1. row.version + 1 \in Nat
    BY DEF CaseRow
<1>2. ASSUME NEW v \in Nat
      PROVE  [row EXCEPT !.state = "DRAFT_PENDING", !.conversation = "ANALYZING",
                         !.version = v, !.draft = p, !.reviewer = "NULL",
                         !.publishedPost = q, !.lastSeen = p, !.key = key] \in CaseRow
    BY DEF CaseRow
<1> QED BY <1>1, <1>2

(* Reopening clears columns.                                               *)
LEMMA WithoutResolutionTyped ==
    ASSUME NEW row \in CaseRow PROVE WithoutResolution(row) \in CaseRow
BY DEF WithoutResolution, NoPost, CaseRow

(* The row of a follow-up question is a row of the table.                  *)
LEMMA FollowUpTyped ==
    ASSUME case \in CaseRow, NEW p \in Nat PROVE FollowUp(p) \in CaseRow
<1>1. NoPost \in Nat /\ PostKey(p) \in Tag
    BY TagsTyped DEF NoPost
<1>2. CASE case.conversation = "RESOLVED"
    <2>1. WithoutResolution(case) \in CaseRow
        BY WithoutResolutionTyped
    <2> QED BY <1>1, <1>2, <2>1, DraftTyped DEF FollowUp
<1>3. CASE case.conversation # "RESOLVED"
    BY <1>1, <1>3, DraftTyped DEF FollowUp
<1> QED BY <1>2, <1>3

(* The rows the store writes.                                              *)
LEMMA RowsTyped ==
    ASSUME case \in CaseRow, NEW p \in Nat, NEW q \in Nat
    PROVE  /\ WithoutResolution(case) \in CaseRow
           /\ NewCase(p) \in CaseRow
           /\ FollowUp(p) \in CaseRow
           /\ Published(p, q) \in CaseRow
           /\ [case EXCEPT !.draft = p] \in CaseRow
           /\ [case EXCEPT !.lastSeen = p] \in CaseRow
           /\ [case EXCEPT !.kbSelected = TRUE] \in CaseRow
           /\ [case EXCEPT !.kbPost = p, !.kbSource = case.resolvedPost,
                           !.kbSelected = FALSE] \in CaseRow
           /\ Confirmed \in CaseRow /\ Resolved(p) \in CaseRow
           /\ UnderReview(p) \in CaseRow /\ Reopened \in CaseRow
<1> USE ConstantsTyped, TagsTyped DEF CaseRow
<1>1. WithoutResolution(case) \in CaseRow
    BY WithoutResolutionTyped
<1>2. NewCase(p) \in CaseRow
    BY DEF NewCase
<1>3. FollowUp(p) \in CaseRow
    BY FollowUpTyped
<1>4. Published(p, q) \in CaseRow
    BY DEF Published
<1>5. [case EXCEPT !.draft = p] \in CaseRow /\ [case EXCEPT !.lastSeen = p] \in CaseRow
    OBVIOUS
<1>6. [case EXCEPT !.kbSelected = TRUE] \in CaseRow
    OBVIOUS
<1>7. [case EXCEPT !.kbPost = p, !.kbSource = case.resolvedPost,
                   !.kbSelected = FALSE] \in CaseRow
    OBVIOUS
<1>8. Confirmed \in CaseRow /\ Resolved(p) \in CaseRow /\ UnderReview(p) \in CaseRow
    BY DEF Confirmed, Resolved, UnderReview
<1>9. Reopened \in CaseRow
    BY <1>1 DEF Reopened
<1> QED BY <1>1, <1>2, <1>3, <1>4, <1>5, <1>6, <1>7, <1>8, <1>9

(* The row after a resolution is one of those rows.                        *)
LEMMA ResolutionTyped ==
    ASSUME case \in CaseRow, NEW s \in Selection, NEW admin \in BOOLEAN
    PROVE  Resolution(s, admin) \in CaseRow
BY RowsTyped DEF Resolution, Selection

(* Appending keeps the type of a sequence and makes it longer by one.      *)
LEMMA AppendTyped ==
    ASSUME NEW S, NEW s \in Seq(S), NEW e \in S
    PROVE  /\ Append(s, e) \in Seq(S) /\ Len(Append(s, e)) = Len(s) + 1
           /\ Len(s) \in Nat
OBVIOUS

----------------------------------------------------------------------------
(* The steps of a request that leave the forum and the store alone.        *)
Reads(h) == Moves(h) /\ UNCHANGED <<forum, selections>> /\ UNCHANGED store

(* A step that reads the store and the forum keeps the types.              *)
LEMMA ReadsTyped ==
    ASSUME TypeInv, NEW h \in Handlers, Reads(h) PROVE TypeInv'
<1>1. UNCHANGED <<forum, selections, case, turns, responses, events>>
    BY DEF Reads, store
<1>2. handler' \in [Handlers -> Request] /\ SyncsASelection'
    BY <1>1, MovesTyped DEF Reads, TypeInv, TypeOK
<1> QED BY <1>1, <1>2 DEF TypeInv, TypeOK

(* The steps of a request that write to the store.                         *)
Writes(h) ==
    /\ Moves(h) /\ UNCHANGED <<forum, selections>>
    /\ case' \in CaseRow
    /\ turns' \subseteq Nat
    /\ responses' \in Seq([post : Nat, answer : Nat])
    /\ events' \subseteq Tag

(* A step that writes typed values to the store keeps the types.           *)
LEMMA WritesTyped ==
    ASSUME TypeInv, NEW h \in Handlers, Writes(h) PROVE TypeInv'
<1>1. handler' \in [Handlers -> Request] /\ SyncsASelection'
    BY MovesTyped DEF Writes, TypeInv, TypeOK
<1> QED BY <1>1 DEF Writes, TypeInv, TypeOK

(* Looking for a marker and writing a marked post.                         *)
LEMMA LookupReads ==
    ASSUME TypeInv, NEW h \in Handlers, NEW pc, NEW tag,
           NEW found \in Steps \ {"sync"}, NEW missing \in Steps \ {"sync"},
           LookupMarker(h, pc, tag, found, missing)
    PROVE  Reads(h)
<1>1. handler[h].row \in CaseRow /\ Len(forum) \in Nat
    BY DEF TypeInv, TypeOK, Request
<1>2. ASSUME NEW i \in Marked(tag), Goto(h, found, handler[h].row, i) PROVE Moves(h)
    <2>1. i \in Nat
        BY <1>1 DEF Marked
    <2> QED BY <1>1, <1>2, <2>1, GotoMoves
<1>3. ASSUME Goto(h, missing, handler[h].row, NoPost) PROVE Moves(h)
    BY <1>1, <1>3, GotoMoves DEF NoPost
<1> QED BY <1>2, <1>3 DEF LookupMarker, Reads, flarum

(* Writing a marked post keeps the types and the bound on posts.           *)
LEMMA WriteMarkedTyped ==
    ASSUME TypeInv, NEW h \in Handlers, NEW pc, NEW tag \in Tag,
           NEW next \in Steps \ {"sync"}, WriteMarked(h, pc, tag, next)
    PROVE  TypeInv'
<1>1. handler[h].row \in CaseRow /\ Len(forum) \in Nat /\ MaxPosts \in Nat
    BY BoundsAssumption DEF TypeInv, TypeOK, Request
<1>2. UNCHANGED <<selections, case, turns, responses, events>>
    BY DEF WriteMarked, store
<1>3. handler' \in [Handlers -> Request] /\ SyncsASelection'
    <2>1. Moves(h)
        BY <1>1, GotoMoves DEF WriteMarked
    <2> QED BY <1>2, <2>1, MovesTyped DEF TypeInv, TypeOK
<1>4. PostOf("ASSISTANT_SELF", tag) \in PostRecord
    BY DEF PostOf, PostRecord, Reasons
<1>5. forum' \in Seq(PostRecord) /\ Len(forum') = Len(forum) + 1
    BY <1>4, AppendTyped DEF WriteMarked, TypeInv, TypeOK
<1>6. Len(forum') <= MaxPosts
    BY <1>1, <1>5 DEF WriteMarked
<1> QED BY <1>2, <1>3, <1>5, <1>6 DEF TypeInv, TypeOK

----------------------------------------------------------------------------
(* Every step keeps the types.                                             *)
LEMMA ForumTyped ==
    ASSUME TypeInv, Forum PROVE TypeInv'
<1>1. ASSUME NEW reason \in Comments, HumanPost(reason) PROVE TypeInv'
    <2>1. Len(forum) \in Nat /\ MaxPosts \in Nat
        BY BoundsAssumption DEF TypeInv, TypeOK
    <2>2. PostOf(reason, NoTag) \in PostRecord
        BY CommentsAssumption, ConstantsTyped DEF PostOf, PostRecord, Reasons
    <2>3. forum' \in Seq(PostRecord) /\ Len(forum') <= MaxPosts
        BY <1>1, <2>1, <2>2, AppendTyped DEF HumanPost, TypeInv, TypeOK
    <2> QED BY <1>1, <2>3 DEF HumanPost, store, TypeInv, TypeOK, SyncsASelection, At
<1>2. ASSUME NEW person \in Selectors, NEW p \in Nat,
             selections' = Append(selections, [post |-> p, by |-> person]),
             UNCHANGED <<forum, handler>>, UNCHANGED store
      PROVE  TypeInv'
    <2>1. [post |-> p, by |-> person] \in Selection
        BY SelectorsAssumption DEF Selection
    <2>2. /\ selections' \in Seq(Selection) /\ Len(selections') = Len(selections) + 1
          /\ Len(selections) \in Nat
        BY <1>2, <2>1, AppendTyped DEF TypeInv, TypeOK
    <2>3. SyncsASelection'
        BY <1>2, <2>2 DEF TypeInv, SyncsASelection, At
    <2> QED BY <1>2, <2>2, <2>3 DEF store, TypeInv, TypeOK
<1>3. ASSUME NEW person \in Selectors, NEW p \in {NoPost} \cup 2..Len(forum),
             SelectBest(p, person)
      PROVE  TypeInv'
    <2>1. p \in Nat
        BY DEF TypeInv, TypeOK, NoPost
    <2> QED BY <1>2, <1>3, <2>1 DEF SelectBest
<1> QED BY <1>1, <1>3 DEF Forum

(* Receiving a post event only reads (create_community_case).              *)
LEMMA ReceivePostTyped ==
    ASSUME TypeInv, NEW h \in Handlers, NEW p \in 1..Len(forum), ReceivePost(h, p)
    PROVE  TypeInv'
<1> DEFINE ev == [kind |-> "post", id |-> p, admin |-> FALSE]
<1>1. ev \in EventType /\ AnswerPart(case) \in CaseRow
    BY PartsTyped DEF EventType, TypeInv, TypeOK
<1>2. {"lookupAnswer", "record", "create"} \subseteq Steps \ {"sync"}
    BY DEF Steps, PostStep
<1>3. Goto(h, "lookupAnswer", AnswerPart(case), NoPost) => Moves(h)
    BY <1>1, <1>2, GotoMoves DEF NoPost
<1>4. Begin(h, "record", ev) \/ Begin(h, "create", ev) => Moves(h)
    BY <1>1, <1>2, BeginMoves
<1>5. Reads(h)
    BY <1>3, <1>4, EndMoves DEF ReceivePost, Reads, flarum
<1> QED BY <1>5, ReadsTyped

(* Receiving a resolution event only reads.                                *)
LEMMA ReceiveResolutionTyped ==
    ASSUME TypeInv, NEW h \in Handlers, NEW i \in 1..Len(selections), ReceiveResolution(h, i)
    PROVE  TypeInv'
<1> DEFINE ev == [kind |-> "resolution", id |-> i, admin |-> ByAdministrator(i)]
           r == [Idle EXCEPT !.pc = "sync", !.ev = ev]
<1>1. ByAdministrator(i) \in BOOLEAN
    BY DEF ByAdministrator
<1>2. ev \in EventType /\ ev.id = i /\ ev.kind = "resolution"
    BY <1>1 DEF EventType
<1>3. "sync" \in Steps
    BY DEF Steps, ResolutionStep
<1> HIDE DEF ev
<1>4. r \in Request /\ r.ev = ev
    BY <1>2, <1>3, BeginTyped
<1>5. handler' = [handler EXCEPT ![h] = r] /\ UNCHANGED <<forum, selections>> /\ UNCHANGED store
    BY DEF ReceiveResolution, Begin, ev, flarum
<1>6. handler' \in [Handlers -> Request] /\ SyncsASelection'
    BY <1>2, <1>4, <1>5 DEF TypeInv, TypeOK, SyncsASelection, At
<1> QED BY <1>5, <1>6 DEF store, TypeInv, TypeOK

(* record_community_turn writes a typed row, or nothing.                   *)
LEMMA RecordTurnTyped ==
    ASSUME TypeInv, NEW h \in Handlers, RecordTurn(h) PROVE Reads(h) \/ Writes(h)
<1> DEFINE p == handler[h].ev.id
           seen == [case EXCEPT !.lastSeen = p]
           reopened == [WithoutResolution(seen) EXCEPT !.conversation = "ANALYZING"]
<1>1. p \in Nat /\ case \in CaseRow
    BY DEF TypeInv, TypeOK, Request
<1>2. Moves(h) /\ UNCHANGED <<forum, selections>>
    BY EndMoves DEF RecordTurn, flarum
<1>3. seen \in CaseRow
    BY <1>1, RowsTyped
<1>4. reopened \in CaseRow
    <2>1. WithoutResolution(seen) \in CaseRow
        BY <1>3, WithoutResolutionTyped
    <2>2. ASSUME NEW r \in CaseRow
          PROVE  [r EXCEPT !.conversation = "ANALYZING"] \in CaseRow
        BY DEF CaseRow
    <2> QED BY <2>1, <2>2
<1>5. PostKey(p) \in Tag
    BY <1>1, TagsTyped
<1> HIDE DEF seen, reopened
<1>6. CASE case' \in {seen, reopened} /\ turns' = turns \cup {p}
           /\ events' = events \cup {PostKey(p)} /\ UNCHANGED responses
    BY <1>1, <1>2, <1>3, <1>4, <1>5, <1>6 DEF Writes, TypeInv, TypeOK
<1>7. CASE UNCHANGED store
    BY <1>2, <1>7 DEF Reads
<1> QED BY <1>6, <1>7 DEF RecordTurn, seen, reopened

(* store.create_community_case writes a typed row, or nothing.             *)
LEMMA CreateCaseTyped ==
    ASSUME TypeInv, NEW h \in Handlers, CreateCase(h) PROVE Reads(h) \/ Writes(h)
<1> DEFINE p == handler[h].ev.id
           row == IF case.version = 0 THEN NewCase(p) ELSE FollowUp(p)
           response == [post |-> p, answer |-> p]
<1>1. p \in Nat /\ case \in CaseRow
    BY DEF TypeInv, TypeOK, Request
<1>2. row \in CaseRow /\ AnswerPart(case) \in CaseRow /\ AnswerPart(row) \in CaseRow
    BY <1>1, RowsTyped, FollowUpTyped, PartsTyped
<1>3. PostKey(p) \in Tag /\ response \in [post : Nat, answer : Nat]
    BY <1>1, TagsTyped
<1>4. "lookupAnswer" \in Steps \ {"sync"}
    BY DEF Steps, PostStep
<1> HIDE DEF row
<1>5. Goto(h, "lookupAnswer", AnswerPart(case), NoPost) => Moves(h)
    BY <1>2, <1>4, GotoMoves DEF NoPost
<1>6. Goto(h, "lookupAnswer", AnswerPart(row), NoPost) => Moves(h)
    BY <1>2, <1>4, GotoMoves DEF NoPost
<1>7. CASE Known(p)
    BY <1>5, <1>7 DEF CreateCase, Reads, flarum
<1>8. CASE ~Known(p)
    <2>1. /\ case' = row /\ turns' = turns \cup {p} /\ responses' = Append(responses, response)
          /\ events' \subseteq events \cup {PostKey(p)}
          /\ Goto(h, "lookupAnswer", AnswerPart(row), NoPost) /\ UNCHANGED <<forum, selections>>
        BY <1>8 DEF CreateCase, flarum, row
    <2>2. responses' \in Seq([post : Nat, answer : Nat])
        BY <1>3, <2>1, AppendTyped DEF TypeInv, TypeOK
    <2> QED BY <1>1, <1>2, <1>3, <1>6, <2>1, <2>2 DEF Writes, TypeInv, TypeOK
<1> QED BY <1>7, <1>8

(* An element of a typed sequence has the type of its elements.            *)
LEMMA ElementTyped ==
    ASSUME NEW S, NEW s \in Seq(S), NEW i \in 1..Len(s) PROVE s[i] \in S
OBVIOUS

(* An answer in an audit row leaves the rows' number and posts alone.      *)
LEMMA AnsweredTyped ==
    ASSUME responses \in Seq([post : Nat, answer : Nat]), NEW a \in Nat
    PROVE  /\ Answered(a) \in Seq([post : Nat, answer : Nat])
           /\ Len(Answered(a)) = Len(responses)
           /\ \A v \in 1..Len(responses) : Answered(a)[v].post = responses[v].post
<1> DEFINE S == [post : Nat, answer : Nat]
           e == [responses[case.version] EXCEPT !.answer = a]
<1>1. CASE case.version \in 1..Len(responses)
    <2>1. responses[case.version] \in S
        BY <1>1, ElementTyped
    <2>2. e \in S /\ e.post = responses[case.version].post
        BY <2>1
    <2>3. Answered(a) = [responses EXCEPT ![case.version] = e]
        BY DEF Answered
    <2> HIDE DEF S, e
    <2>4. /\ Answered(a) \in Seq(S) /\ Len(Answered(a)) = Len(responses)
          /\ \A v \in 1..Len(responses) :
                Answered(a)[v] = IF v = case.version THEN e ELSE responses[v]
        BY SMTT(30), <1>1, <2>2, <2>3, ExceptSeq DEF S
    <2> QED BY <2>2, <2>4 DEF S
<1>2. CASE case.version \notin 1..Len(responses)
    <2>1. /\ DOMAIN responses = 1..Len(responses)
          /\ responses = [i \in DOMAIN responses |-> responses[i]]
        OBVIOUS
    <2>2. Answered(a) = responses
        BY <1>2, <2>1 DEF Answered
    <2> QED BY <2>2
<1> QED BY <1>1, <1>2

(* mark_community_auto_published writes a typed row, or nothing.           *)
LEMMA MarkAnswerTyped ==
    ASSUME TypeInv, NEW h \in Handlers, MarkAnswer(h) PROVE Reads(h) \/ Writes(h)
<1> DEFINE row == handler[h].row
           post == handler[h].pub
<1>1. case \in CaseRow /\ row \in CaseRow /\ post \in Nat
    BY DEF TypeInv, TypeOK, Request
<1>2. row.draft \in Nat /\ row.version \in Nat
    BY <1>1 DEF CaseRow
<1>3. Moves(h) /\ UNCHANGED <<forum, selections>>
    BY EndMoves DEF MarkAnswer, flarum
<1>4. [case EXCEPT !.draft = row.draft] \in CaseRow /\ Published(row.draft, post) \in CaseRow
    BY <1>1, <1>2, RowsTyped
<1>5. AnswerTag(row.version) \in Tag
    BY <1>2, TagsTyped
<1>6. Answered(row.draft) \in Seq([post : Nat, answer : Nat])
    BY <1>2, AnsweredTyped DEF TypeInv, TypeOK
<1>7. CASE /\ case' \in {[case EXCEPT !.draft = row.draft], Published(row.draft, post)}
           /\ responses' = Answered(row.draft) /\ UNCHANGED turns
           /\ events' = events \cup {AnswerTag(row.version)}
    BY <1>3, <1>4, <1>5, <1>6, <1>7 DEF Writes, TypeInv, TypeOK
<1>8. CASE UNCHANGED store
    BY <1>3, <1>8 DEF Reads
<1> QED BY <1>7, <1>8 DEF MarkAnswer

(* sync_community_resolution: nothing when the event is on record or there *)
(* is no case, else the row, and the event unless nothing has changed.     *)
SyncKey(h) ==
    IF handler[h].ev.admin /\ selections[handler[h].ev.id].by = "MODERATOR"
    THEN <<"verified", handler[h].ev.id>> ELSE ResolutionKey(handler[h].ev.id)
SyncRow(h) == Resolution(selections[handler[h].ev.id], handler[h].ev.admin)
LEMMA SyncCases ==
    ASSUME NEW h \in Handlers, SyncResolution(h)
    PROVE  /\ At(h, "sync") /\ UNCHANGED <<forum, selections, turns, responses>>
           /\ \/ /\ SyncKey(h) \in events /\ UNCHANGED <<case, events>>
                 /\ Continue(h, AfterResolution(case), KnowledgePart(case))
              \/ /\ SyncKey(h) \notin events /\ case.version = 0 /\ UNCHANGED <<case, events>>
                 /\ End(h)
              \/ /\ SyncKey(h) \notin events /\ case.version > 0 /\ case' = SyncRow(h)
                 /\ events' \in {events, events \cup {SyncKey(h)}}
                 /\ Continue(h, AfterResolution(SyncRow(h)), KnowledgePart(SyncRow(h)))
BY Zenon DEF SyncResolution, SyncKey, SyncRow, store, flarum

(* It writes a typed row, or nothing.                                      *)
LEMMA SyncResolutionTyped ==
    ASSUME TypeInv, NEW h \in Handlers, SyncResolution(h) PROVE Reads(h) \/ Writes(h)
<1> DEFINE ev == handler[h].ev
           s == selections[ev.id]
<1>1. case \in CaseRow /\ ev.id \in Nat /\ ev.admin \in BOOLEAN
    BY DEF TypeInv, TypeOK, Request
<1>2. s \in Selection
    <2>1. ev.id \in 1..Len(selections) /\ selections \in Seq(Selection)
        BY SyncCases DEF TypeInv, TypeOK, SyncsASelection
    <2> QED BY <2>1, ElementTyped
<1>3. SyncRow(h) \in CaseRow
    BY <1>1, <1>2, ResolutionTyped DEF SyncRow
<1>4. SyncKey(h) \in Tag
    BY <1>1, TagsTyped DEF SyncKey, ResolutionKey
<1>5. Continue(h, AfterResolution(case), KnowledgePart(case)) => Moves(h)
    BY <1>1, NextStepsTyped, ContinueMoves
<1>6. Continue(h, AfterResolution(SyncRow(h)), KnowledgePart(SyncRow(h))) => Moves(h)
    BY <1>3, NextStepsTyped, ContinueMoves
<1>7. UNCHANGED <<forum, selections, turns, responses>>
    BY SyncCases
<1>8. CASE UNCHANGED <<case, events>>
    <2>1. Moves(h)
        BY <1>5, <1>6, EndMoves, SyncCases
    <2> QED BY <1>7, <1>8, <2>1 DEF Reads, store
<1>9. CASE /\ case' = SyncRow(h) /\ events' \in {events, events \cup {SyncKey(h)}}
           /\ Continue(h, AfterResolution(SyncRow(h)), KnowledgePart(SyncRow(h)))
    BY <1>3, <1>4, <1>6, <1>7, <1>9 DEF Writes, TypeInv, TypeOK
<1> QED BY <1>8, <1>9, SyncCases

(* mark_community_knowledge_published writes a typed row, or nothing.      *)
LEMMA MarkKnowledgeTyped ==
    ASSUME TypeInv, NEW h \in Handlers, MarkKnowledge(h) PROVE Reads(h) \/ Writes(h)
<1> DEFINE key == KnowledgeTag(handler[h].row.resolvedPost)
           row == [case EXCEPT !.kbPost = handler[h].pub, !.kbSource = case.resolvedPost,
                               !.kbSelected = FALSE]
<1>1. case \in CaseRow /\ handler[h].pub \in Nat /\ handler[h].row \in CaseRow
    BY DEF TypeInv, TypeOK, Request
<1>2. row \in CaseRow
    BY <1>1, RowsTyped
<1>3. key \in Tag
    <2>1. handler[h].row.resolvedPost \in Nat
        BY <1>1 DEF CaseRow
    <2> QED BY <2>1, TagsTyped
<1> HIDE DEF row, key
<1>4. Continue(h, AfterKnowledge(case), KnowledgePart(case)) => Moves(h)
    BY <1>1, NextStepsTyped, ContinueMoves
<1>5. Continue(h, AfterKnowledge(row), KnowledgePart(row)) => Moves(h)
    BY <1>2, NextStepsTyped, ContinueMoves
<1>6. UNCHANGED <<forum, selections>>
    BY DEF MarkKnowledge, flarum
<1>7. CASE key \in events
    BY <1>4, <1>6, <1>7 DEF MarkKnowledge, Reads, key
<1>8. CASE key \notin events /\ ~KnowledgeReady
    BY <1>6, <1>8, EndMoves DEF MarkKnowledge, Reads, key
<1>9. CASE key \notin events /\ KnowledgeReady
    <2>1. /\ case' = row /\ events' = events \cup {key} /\ UNCHANGED <<turns, responses>>
          /\ Continue(h, AfterKnowledge(row), KnowledgePart(row))
        BY <1>9 DEF MarkKnowledge, key, row
    <2> QED BY <1>2, <1>3, <1>5, <1>6, <2>1 DEF Writes, TypeInv, TypeOK
<1> QED BY <1>7, <1>8, <1>9

(* Selecting the knowledge post appends a typed selection, or nothing.     *)
LEMMA SelectSolutionTyped ==
    ASSUME TypeInv, NEW h \in Handlers, SelectSolution(h) PROVE TypeInv'
<1> DEFINE kb == handler[h].row.kbPost
           s == [post |-> kb, by |-> "SYSTEM"]
<1>1. handler[h].row \in CaseRow
    BY DEF TypeInv, TypeOK, Request
<1>2. kb \in Nat
    BY <1>1 DEF CaseRow
<1>3. {"markSolution", "verify"} \subseteq Steps \ {"sync"}
    BY DEF Steps, ResolutionStep
<1>4. Moves(h)
    BY <1>1, <1>2, <1>3, GotoMoves DEF SelectSolution
<1>5. s \in Selection
    BY <1>2 DEF Selection
<1>6. selections' \in Seq(Selection) /\ Len(selections) <= Len(selections')
    <2>1. selections \in Seq(Selection) /\ Len(selections) \in Nat
        BY DEF TypeInv, TypeOK
    <2>2. selections' = selections \/ selections' = Append(selections, s)
        BY DEF SelectSolution
    <2> QED BY <1>5, <2>1, <2>2, AppendTyped
<1>7. handler' \in [Handlers -> Request] /\ SyncsASelection'
    BY <1>4, <1>6, MovesTyped
<1> QED BY <1>6, <1>7 DEF SelectSolution, store, TypeInv, TypeOK

(* Reading the selection back changes no variable but the request.         *)
LEMMA VerifySolutionTyped ==
    ASSUME TypeInv, NEW h \in Handlers, VerifySolution(h) PROVE Reads(h)
<1>1. handler[h].row \in CaseRow /\ handler[h].pub \in Nat
    BY DEF TypeInv, TypeOK, Request
<1>2. "markSolution" \in Steps \ {"sync"}
    BY DEF Steps, ResolutionStep
<1>3. Moves(h)
    BY <1>1, <1>2, GotoMoves, EndMoves DEF VerifySolution
<1> QED BY <1>3 DEF VerifySolution, Reads, flarum

(* mark_community_knowledge_solution_selected writes a typed row, or nothing.*)
LEMMA MarkSolutionTyped ==
    ASSUME TypeInv, NEW h \in Handlers, MarkSolution(h) PROVE Reads(h) \/ Writes(h)
<1> DEFINE key == SolutionKey(handler[h].row.kbPost)
<1>1. case \in CaseRow /\ handler[h].row \in CaseRow
    BY DEF TypeInv, TypeOK, Request
<1>2. key \in Tag
    <2>1. handler[h].row.kbPost \in Nat
        BY <1>1 DEF CaseRow
    <2> QED BY <2>1, TagsTyped
<1>3. [case EXCEPT !.kbSelected = TRUE] \in CaseRow
    BY <1>1, RowsTyped
<1>4. Moves(h) /\ UNCHANGED <<forum, selections>>
    BY EndMoves DEF MarkSolution, flarum
<1>5. CASE UNCHANGED store
    BY <1>4, <1>5 DEF Reads
<1>6. CASE /\ case' = [case EXCEPT !.kbSelected = TRUE] /\ events' = events \cup {key}
           /\ UNCHANGED <<turns, responses>>
    BY <1>2, <1>3, <1>4, <1>6 DEF Writes, TypeInv, TypeOK
<1> QED BY <1>5, <1>6 DEF MarkSolution

(* Both searches for a marker only read.                                   *)
LEMMA LookupsTyped ==
    ASSUME TypeInv, NEW h \in Handlers, LookupAnswer(h) \/ LookupKnowledge(h) PROVE Reads(h)
<1>1. {"markAnswer", "postAnswer", "markKnowledge", "postKnowledge"} \subseteq Steps \ {"sync"}
    BY DEF Steps, PostStep, ResolutionStep
<1> QED BY <1>1, LookupReads DEF LookupAnswer, LookupKnowledge

(* Both writes of a marked post keep the types.                            *)
LEMMA PostsTyped ==
    ASSUME TypeInv, NEW h \in Handlers, PostAnswer(h) \/ PostKnowledge(h) PROVE TypeInv'
<1>1. {"markAnswer", "markKnowledge"} \subseteq Steps \ {"sync"}
    BY DEF Steps, PostStep, ResolutionStep
<1>2. handler[h].row \in CaseRow
    BY DEF TypeInv, TypeOK, Request
<1>3. handler[h].row.version \in Nat /\ handler[h].row.resolvedPost \in Nat
    BY <1>2 DEF CaseRow
<1>4. AnswerTag(handler[h].row.version) \in Tag /\ KnowledgeTag(handler[h].row.resolvedPost) \in Tag
    BY <1>3, TagsTyped
<1> QED BY <1>1, <1>4, WriteMarkedTyped DEF PostAnswer, PostKnowledge

(* TypeInv is inductive.                                                   *)
LEMMA TypeInductive ==
    /\ Init => TypeInv
    /\ TypeInv /\ [Next]_vars => TypeInv'
<1>1. Init => TypeInv
    <2> SUFFICES ASSUME Init PROVE TypeInv
        OBVIOUS
    <2>1. PostOf("REQUESTER_AUTO", NoTag) \in PostRecord
        BY ConstantsTyped DEF PostOf, PostRecord, Reasons, HumanReasons
    <2>2. forum \in Seq(PostRecord) /\ Len(forum) <= MaxPosts
        BY <2>1, BoundsAssumption DEF Init
    <2>3. case \in CaseRow /\ handler \in [Handlers -> Request]
        BY ConstantsTyped DEF Init
    <2>4. SyncsASelection
        BY DEF Init, SyncsASelection, At, Idle
    <2>5. selections \in Seq(Selection) /\ responses \in Seq([post : Nat, answer : Nat])
        BY DEF Init
    <2> QED BY <2>2, <2>3, <2>4, <2>5 DEF Init, TypeInv, TypeOK
<1>2. ASSUME TypeInv, [Next]_vars PROVE TypeInv'
    <2>1. ASSUME NEW h \in Handlers, HandlePost(h) PROVE TypeInv'
        <3>1. ASSUME NEW p \in 1..Len(forum), ReceivePost(h, p) PROVE TypeInv'
            BY <1>2, <3>1, ReceivePostTyped
        <3>2. CASE RecordTurn(h) \/ CreateCase(h) \/ MarkAnswer(h)
            BY <1>2, <3>2, RecordTurnTyped, CreateCaseTyped, MarkAnswerTyped, ReadsTyped,
               WritesTyped
        <3>3. CASE LookupAnswer(h) \/ PostAnswer(h)
            BY <1>2, <3>3, LookupsTyped, PostsTyped, ReadsTyped
        <3> QED BY <2>1, <3>1, <3>2, <3>3 DEF HandlePost
    <2>2. ASSUME NEW h \in Handlers, HandleResolution(h) PROVE TypeInv'
        <3>1. ASSUME NEW i \in 1..Len(selections), ReceiveResolution(h, i) PROVE TypeInv'
            BY <1>2, <3>1, ReceiveResolutionTyped
        <3>2. CASE SyncResolution(h) \/ MarkKnowledge(h) \/ MarkSolution(h)
            BY <1>2, <3>2, SyncResolutionTyped, MarkKnowledgeTyped, MarkSolutionTyped,
               ReadsTyped, WritesTyped
        <3>3. CASE LookupKnowledge(h) \/ PostKnowledge(h)
            BY <1>2, <3>3, LookupsTyped, PostsTyped, ReadsTyped
        <3>4. CASE SelectSolution(h) \/ VerifySolution(h)
            BY <1>2, <3>4, SelectSolutionTyped, VerifySolutionTyped, ReadsTyped
        <3> QED BY <2>2, <3>1, <3>2, <3>3, <3>4 DEF HandleResolution
    <2>3. ASSUME NEW h \in Handlers, Fail(h) PROVE TypeInv'
        BY <1>2, <2>3, EndMoves, ReadsTyped DEF Fail, Reads, flarum
    <2>4. CASE UNCHANGED vars
        BY <1>2, <2>4 DEF vars, TypeInv, TypeOK, SyncsASelection, At
    <2> QED BY <1>2, <2>1, <2>2, <2>3, <2>4, ForumTyped DEF Next
<1> QED BY <1>1, <1>2

(* Every variable has its type in every reachable state.                   *)
THEOREM TypeCorrect == Spec => []TypeOK
<1>1. TypeInv => TypeOK
    BY DEF TypeInv
<1> QED BY <1>1, TypeInductive, PTL DEF Spec

----------------------------------------------------------------------------
(* Only the transactions of the store change the case, its turns and its   *)
(* versions; only CreateCase adds a version.                               *)
StoreStep(h) ==
    \/ RecordTurn(h) \/ CreateCase(h) \/ MarkAnswer(h)
    \/ SyncResolution(h) \/ MarkKnowledge(h) \/ MarkSolution(h)

(* A step changes the case, its turns or versions only by a transaction.   *)
LEMMA StoreSteps ==
    ASSUME [Next]_vars
    PROVE  UNCHANGED <<case, turns, responses, events>> \/ \E h \in Handlers : StoreStep(h)
<1>1. ASSUME Forum PROVE UNCHANGED <<case, turns, responses, events>>
    BY <1>1 DEF Forum, HumanPost, SelectBest, store
<1>2. ASSUME NEW h \in Handlers, HandlePost(h)
      PROVE  UNCHANGED <<case, turns, responses, events>> \/ StoreStep(h)
    BY <1>2 DEF HandlePost, StoreStep, ReceivePost, LookupAnswer, PostAnswer, LookupMarker,
                WriteMarked, store
<1>3. ASSUME NEW h \in Handlers, HandleResolution(h)
      PROVE  UNCHANGED <<case, turns, responses, events>> \/ StoreStep(h)
    BY <1>3 DEF HandleResolution, StoreStep, ReceiveResolution, LookupKnowledge, PostKnowledge,
                LookupMarker, WriteMarked, SelectSolution, VerifySolution, store
<1>4. ASSUME NEW h \in Handlers, Fail(h) PROVE UNCHANGED <<case, turns, responses, events>>
    BY <1>4 DEF Fail, store
<1> QED BY <1>1, <1>2, <1>3, <1>4 DEF Next, vars

(* The columns of the resolution in the rows the store writes.             *)
LEMMA ResolutionColumns ==
    ASSUME case \in CaseRow, NEW p \in Nat
    PROVE  LET same(r) == /\ r.resolvedPost = case.resolvedPost /\ r.kbPost = case.kbPost
                          /\ r.kbSelected = case.kbSelected
               none(r) == /\ r.resolvedPost = NoPost /\ r.kbPost = NoPost
                          /\ r.kbSelected = FALSE
           IN /\ none(NewCase(p)) /\ NewCase(p).conversation = "ANALYZING"
              /\ FollowUp(p).conversation = "ANALYZING"
              /\ none(FollowUp(p)) \/ same(FollowUp(p))
<1>1. \A r \in CaseRow : /\ WithoutResolution(r).resolvedPost = NoPost
                        /\ WithoutResolution(r).kbPost = NoPost
                        /\ WithoutResolution(r).kbSelected = FALSE
    BY DEF WithoutResolution, CaseRow
<1>2. WithoutResolution(case) \in CaseRow
    BY WithoutResolutionTyped
<1>3. /\ NewCase(p).resolvedPost = NoPost /\ NewCase(p).kbPost = NoPost
      /\ NewCase(p).kbSelected = FALSE /\ NewCase(p).conversation = "ANALYZING"
    BY DEF NewCase, NoCase
<1>4. CASE case.conversation = "RESOLVED"
    BY <1>1, <1>2, <1>3, <1>4 DEF FollowUp, CaseRow
<1>5. CASE case.conversation # "RESOLVED"
    BY <1>3, <1>5 DEF FollowUp, CaseRow
<1> QED BY <1>4, <1>5

(* A knowledge post always stands on a resolution, whatever overlaps.      *)
THEOREM KnowledgeStands == Spec => []KnowledgeStandsOnResolution
<1>1. Init => KnowledgeStandsOnResolution
    BY DEF Init, KnowledgeStandsOnResolution, NoCase
<1>2. TypeInv /\ KnowledgeStandsOnResolution /\ [Next]_vars => KnowledgeStandsOnResolution'
    <2> SUFFICES ASSUME TypeInv, KnowledgeStandsOnResolution, [Next]_vars
                 PROVE  KnowledgeStandsOnResolution'
        OBVIOUS
    <2> USE DEF KnowledgeStandsOnResolution
    <2>0. case \in CaseRow
        BY DEF TypeInv, TypeOK
    <2>1. ASSUME NEW h \in Handlers, RecordTurn(h) PROVE KnowledgeStandsOnResolution'
        BY <2>0, <2>1 DEF RecordTurn, WithoutResolution, store, CaseRow
    <2>2. ASSUME NEW h \in Handlers, CreateCase(h) PROVE KnowledgeStandsOnResolution'
        <3>1. handler[h].ev.id \in Nat
            BY DEF TypeInv, TypeOK, Request
        <3>2. case' \in {case, NewCase(handler[h].ev.id), FollowUp(handler[h].ev.id)}
            BY <2>2 DEF CreateCase, store
        <3> QED BY <2>0, <3>1, <3>2, ResolutionColumns DEF NoPost
    <2>3. ASSUME NEW h \in Handlers, MarkAnswer(h) PROVE KnowledgeStandsOnResolution'
        BY ZenonT(30), <2>0, <2>3 DEF MarkAnswer, Published, store, CaseRow
    <2>4. ASSUME NEW h \in Handlers, SyncResolution(h) PROVE KnowledgeStandsOnResolution'
        <3>1. case' = case \/ case' = SyncRow(h)
            BY <2>4, SyncCases
        <3>2. CASE case' = SyncRow(h)
            BY <2>0, <3>2 DEF SyncRow, Resolution, Confirmed, Resolved, UnderReview, Reopened,
                              WithoutResolution, CaseRow
        <3> QED BY <3>1, <3>2
    <2>5. ASSUME NEW h \in Handlers, MarkKnowledge(h) PROVE KnowledgeStandsOnResolution'
        BY <2>0, <2>5 DEF MarkKnowledge, KnowledgeReady, store, CaseRow
    <2>6. ASSUME NEW h \in Handlers, MarkSolution(h) PROVE KnowledgeStandsOnResolution'
        BY <2>0, <2>6 DEF MarkSolution, store, CaseRow
    <2>7. CASE UNCHANGED <<case, turns, responses>>
        BY <2>7
    <2> QED BY <2>1, <2>2, <2>3, <2>4, <2>5, <2>6, <2>7, StoreSteps DEF StoreStep
<1> QED BY <1>1, <1>2, TypeInductive, PTL DEF Spec

----------------------------------------------------------------------------
(* The columns of the publication in the rows the store writes.            *)
LEMMA PublicationColumns ==
    ASSUME case \in CaseRow, NEW p \in Nat
    PROVE  /\ NewCase(p).version = 1 /\ FollowUp(p).version = case.version + 1
           /\ NewCase(p).publishedPost = NoPost /\ FollowUp(p).publishedPost = NoPost
           /\ NewCase(p).state = "DRAFT_PENDING" /\ FollowUp(p).state = "DRAFT_PENDING"
<1>1. WithoutResolution(case) \in CaseRow /\ WithoutResolution(case).version = case.version
    BY WithoutResolutionTyped DEF WithoutResolution, CaseRow
<1>2. CASE case.conversation = "RESOLVED"
    BY <1>1, <1>2 DEF FollowUp, NewCase, NoCase, CaseRow
<1>3. CASE case.conversation # "RESOLVED"
    BY <1>3 DEF FollowUp, NewCase, NoCase, CaseRow
<1> QED BY <1>2, <1>3

(* The other transactions leave the version alone, and but for MarkAnswer  *)
(* the publication and the audit rows too.                                 *)
Kept(r) == /\ r.version = case.version /\ r.publishedPost = case.publishedPost
           /\ r.state = case.state /\ r.reviewer = case.reviewer

(* No transaction but CreateCase and MarkAnswer touches the publication.   *)
LEMMA OthersKeep ==
    ASSUME TypeInv, NEW h \in Handlers,
           RecordTurn(h) \/ SyncResolution(h) \/ MarkKnowledge(h) \/ MarkSolution(h)
    PROVE  Kept(case') /\ UNCHANGED responses /\ turns \subseteq turns'
<1>0. case \in CaseRow
    BY DEF TypeInv, TypeOK
<1>1. CASE RecordTurn(h)
    BY <1>0, <1>1 DEF RecordTurn, WithoutResolution, store, CaseRow, Kept
<1>2. CASE SyncResolution(h)
    <2>1. (case' = case \/ case' = SyncRow(h)) /\ UNCHANGED <<responses, turns>>
        BY <1>2, SyncCases
    <2>2. Kept(SyncRow(h))
        BY <1>0 DEF SyncRow, Resolution, Confirmed, Resolved, UnderReview, Reopened,
                    WithoutResolution, CaseRow, Kept
    <2> QED BY <2>1, <2>2 DEF Kept
<1>3. CASE MarkKnowledge(h)
    BY <1>0, <1>3 DEF MarkKnowledge, store, CaseRow, Kept
<1>4. CASE MarkSolution(h)
    BY <1>0, <1>4 DEF MarkSolution, store, CaseRow, Kept
<1> QED BY <1>1, <1>2, <1>3, <1>4

(* What CreateCase writes when the post is new.                            *)
LEMMA CreatesVersion ==
    ASSUME TypeInv, NEW h \in Handlers, CreateCase(h)
    PROVE  LET p == handler[h].ev.id
           IN \/ UNCHANGED <<case, turns, responses>>
              \/ /\ p \notin turns /\ turns' = turns \cup {p}
                 /\ responses' = Append(responses, [post |-> p, answer |-> p])
                 /\ case'.version = case.version + 1
                 /\ case'.publishedPost = NoPost /\ case'.state = "DRAFT_PENDING"
<1>1. case \in CaseRow /\ handler[h].ev.id \in Nat
    BY DEF TypeInv, TypeOK, Request
<1>2. case.version \in Nat
    BY <1>1 DEF CaseRow
<1> QED BY <1>1, <1>2, PublicationColumns DEF CreateCase, Known, store

(* What MarkAnswer writes: an answer already published changes only the    *)
(* draft and the audit row.                                                *)
LEMMA MarksAnswer ==
    ASSUME TypeInv, NEW h \in Handlers, MarkAnswer(h)
    PROVE  /\ UNCHANGED turns /\ case'.version = case.version
           /\ responses' \in {responses, Answered(handler[h].row.draft)}
           /\ \/ Kept(case')
              \/ /\ case.reviewer # "techflow:auto"
                 /\ case'.reviewer = "techflow:auto"
                 /\ case'.state = "PUBLISHED"
                 /\ case'.publishedPost = handler[h].pub
<1>1. case \in CaseRow
    BY DEF TypeInv, TypeOK
<1> QED BY <1>1 DEF MarkAnswer, Published, MayAutoPublish, store, CaseRow, Kept

(* The posts that versions were drafted for are on record as turns.        *)
VersionsAreTurns == \A v \in 1..Len(responses) : responses[v].post \in turns

(* However often a post is delivered, and by however many requests at      *)
(* once, it is answered by one version (create_community_case).            *)
THEOREM AnsweredOnce == Spec => []OneVersionPerPost
<1>1. Init => OneVersionPerPost /\ VersionsAreTurns
    BY DEF Init, OneVersionPerPost, VersionsAreTurns, NoCase
<1>2. TypeInv /\ OneVersionPerPost /\ VersionsAreTurns /\ [Next]_vars
        => OneVersionPerPost' /\ VersionsAreTurns'
    <2> SUFFICES ASSUME TypeInv, OneVersionPerPost, VersionsAreTurns, [Next]_vars
                 PROVE  OneVersionPerPost' /\ VersionsAreTurns'
        OBVIOUS
    <2> USE DEF OneVersionPerPost, VersionsAreTurns
    <2>0. /\ responses \in Seq([post : Nat, answer : Nat]) /\ Len(responses) \in Nat
          /\ case \in CaseRow
        BY DEF TypeInv, TypeOK
    <2>1. ASSUME NEW h \in Handlers, CreateCase(h)
          PROVE  OneVersionPerPost' /\ VersionsAreTurns'
        <3> DEFINE p == handler[h].ev.id
                   e == [post |-> p, answer |-> p]
        <3>1. CASE UNCHANGED <<case, turns, responses>>
            BY <3>1
        <3>2. CASE /\ p \notin turns /\ turns' = turns \cup {p}
                   /\ responses' = Append(responses, e)
                   /\ case'.version = case.version + 1
            <4>1. /\ Len(responses') = Len(responses) + 1
                  /\ \A v \in 1..Len(responses) : responses'[v] = responses[v]
                  /\ responses'[Len(responses) + 1] = e
                <5>1. e \in [post : Nat, answer : Nat]
                    BY DEF TypeInv, TypeOK, Request
                <5> QED BY <2>0, <3>2, <5>1, AppendProperties
            <4>2. \A v \in 1..Len(responses') : v \in 1..Len(responses) \/ v = Len(responses) + 1
                BY <2>0, <4>1
            <4>3. \A v \in 1..Len(responses) : responses'[v].post \in turns
                BY <4>1
            <4>4. responses'[Len(responses) + 1].post = p
                BY <4>1
            <4>5. VersionsAreTurns'
                BY <3>2, <4>2, <4>3, <4>4
            <4>6. \A v, w \in 1..Len(responses') :
                     responses'[v].post = responses'[w].post => v = w
                BY <3>2, <4>1, <4>2, <4>3, <4>4
            <4> QED BY <3>2, <4>1, <4>5, <4>6
        <3> QED BY <2>1, <3>1, <3>2, CreatesVersion
    <2>2. ASSUME NEW h \in Handlers, MarkAnswer(h)
          PROVE  OneVersionPerPost' /\ VersionsAreTurns'
        <3>1. handler[h].row \in CaseRow
            BY DEF TypeInv, TypeOK, Request
        <3>2. handler[h].row.draft \in Nat
            BY <3>1 DEF CaseRow
        <3>3. /\ responses' \in {responses, Answered(handler[h].row.draft)}
              /\ UNCHANGED turns
              /\ case'.version = case.version
            BY <2>2, MarksAnswer
        <3>4. /\ Len(Answered(handler[h].row.draft)) = Len(responses)
              /\ \A v \in 1..Len(responses) :
                    Answered(handler[h].row.draft)[v].post = responses[v].post
            BY <2>0, <3>2, AnsweredTyped
        <3>5. /\ Len(responses') = Len(responses)
              /\ \A v \in 1..Len(responses) : responses'[v].post = responses[v].post
            <4>1. CASE responses' = responses
                BY <4>1
            <4>2. CASE responses' = Answered(handler[h].row.draft)
                BY <3>4, <4>2
            <4> QED BY <3>3, <4>1, <4>2
        <3> QED BY <3>3, <3>5
    <2>3. ASSUME NEW h \in Handlers, StoreStep(h), ~CreateCase(h), ~MarkAnswer(h)
          PROVE  OneVersionPerPost' /\ VersionsAreTurns'
        BY <2>3, OthersKeep DEF StoreStep, Kept
    <2>4. CASE UNCHANGED <<case, turns, responses>>
        BY <2>4
    <2> QED BY <2>1, <2>2, <2>3, <2>4, StoreSteps
<1> QED BY <1>1, <1>2, TypeInductive, PTL DEF Spec

(* While a version has a published post, the gateway published it itself.  *)
PublishedByGateway == case.publishedPost # NoPost => case.reviewer = "techflow:auto"

(* Every transaction keeps the published post the gateway's own.           *)
LEMMA PublishedByGatewayInductive ==
    /\ Init => PublishedByGateway
    /\ TypeInv /\ PublishedByGateway /\ [Next]_vars => PublishedByGateway'
<1>1. Init => PublishedByGateway
    BY DEF Init, PublishedByGateway, NoCase
<1>2. ASSUME TypeInv, PublishedByGateway, [Next]_vars PROVE PublishedByGateway'
    <2>1. ASSUME NEW h \in Handlers, StoreStep(h) PROVE PublishedByGateway'
        BY <1>2, <2>1, CreatesVersion, MarksAnswer, OthersKeep
        DEF StoreStep, Kept, PublishedByGateway
    <2> QED BY <1>2, <2>1, StoreSteps DEF PublishedByGateway
<1> QED BY <1>1, <1>2

(* A published post is replaced only by a new version: what the gateway    *)
(* published itself is not published again (mark_community_auto_published).*)
THEOREM PublishedOnce == Spec => PublishedOncePerVersion
<1>1. TypeInv /\ PublishedByGateway /\ [Next]_vars
        => [case.publishedPost # NoPost /\ case'.publishedPost # case.publishedPost
              => case'.version = case.version + 1]_vars
    <2> SUFFICES ASSUME TypeInv, PublishedByGateway, [Next]_vars,
                        case.publishedPost # NoPost, case'.publishedPost # case.publishedPost
                 PROVE  case'.version = case.version + 1
        OBVIOUS
    <2>1. PICK h \in Handlers : StoreStep(h)
        BY StoreSteps
    <2>2. ~MarkAnswer(h)
        BY MarksAnswer DEF PublishedByGateway, Kept
    <2> QED BY <2>1, <2>2, CreatesVersion, OthersKeep DEF StoreStep, Kept
<1> QED BY <1>1, TypeInductive, PublishedByGatewayInductive, PTL DEF Spec, PublishedOncePerVersion

----------------------------------------------------------------------------
(* Why the published post is one of the case's answers: a request that is  *)
(* about to publish holds a version the case has, and once it knows a post *)
(* that post carries the marker of this version.                           *)
AnswerStep == {"lookupAnswer", "postAnswer", "markAnswer"}
Holds(r) ==
    /\ r.pc \in AnswerStep => r.row.version \in 1..case.version
    /\ r.pc = "markAnswer" => r.pub \in Marked(AnswerTag(r.row.version))
EmptyBefore == case.version = 0 => case = NoCase /\ turns = {}
AnswerInv ==
    EmptyBefore /\ (\A h \in Handlers : Holds(handler[h])) /\ PublishedPostIsAnAnswer

(* A step moves one request at most; most steps do not lead to publishing. *)
OnlyMoves(h) == \A g \in Handlers \ {h} : handler'[g] = handler[g]
Leaves(h) == OnlyMoves(h) /\ handler'[h].pc \notin AnswerStep

(* A request that ends leads to no publishing.                             *)
LEMMA EndLeaves ==
    ASSUME TypeInv, NEW h \in Handlers, End(h) PROVE Leaves(h)
BY DEF TypeInv, TypeOK, End, Idle, Leaves, OnlyMoves, AnswerStep

(* What a request that goes on holds, and that no other moves.             *)
LEMMA GotoHolds ==
    ASSUME TypeInv, NEW h \in Handlers, NEW pc, NEW row, NEW pub, Goto(h, pc, row, pub)
    PROVE  /\ OnlyMoves(h)
           /\ handler'[h].pc = pc /\ handler'[h].row = row /\ handler'[h].pub = pub
<1>1. handler' = [handler EXCEPT ![h] = [Idle EXCEPT !.pc = pc, !.row = row, !.pub = pub]]
    BY DEF Goto
<1>2. handler'[h] = [Idle EXCEPT !.pc = pc, !.row = row, !.pub = pub]
    BY <1>1 DEF TypeInv, TypeOK
<1>3. OnlyMoves(h)
    BY <1>1 DEF TypeInv, TypeOK, OnlyMoves
<1> QED BY <1>2, <1>3 DEF Idle

(* A request that begins holds no row yet, and no other moves.             *)
LEMMA BeginHolds ==
    ASSUME TypeInv, NEW h \in Handlers, NEW pc, NEW ev, Begin(h, pc, ev)
    PROVE  OnlyMoves(h) /\ handler'[h].pc = pc
<1>1. handler' = [handler EXCEPT ![h] = [Idle EXCEPT !.pc = pc, !.ev = ev]]
    BY DEF Begin
<1> QED BY <1>1 DEF TypeInv, TypeOK, OnlyMoves, Idle

(* A resolution event leads to no step that publishes an answer.           *)
LEMMA ContinueLeaves ==
    ASSUME TypeInv, NEW h \in Handlers, NEW pc \in ResolutionStep \cup {"end"}, NEW row,
           Continue(h, pc, row)
    PROVE  Leaves(h)
BY EndLeaves, GotoHolds DEF Continue, Leaves, AnswerStep, ResolutionStep

(* Where a resolution goes on after its transactions.                      *)
LEMMA NextStepsOfResolution ==
    ASSUME NEW row
    PROVE  AfterResolution(row) \in ResolutionStep \cup {"end"}
           /\ AfterKnowledge(row) \in ResolutionStep \cup {"end"}
BY DEF AfterResolution, AfterKnowledge, ResolutionStep

(* Posts and versions are only added, so what a request holds stays true.  *)
OnePostAtMost == forum' = forum \/ \E e \in PostRecord : forum' = Append(forum, e)
Grows == case'.version >= case.version /\ OnePostAtMost

(* A post that carries a marker carries it for good.                       *)
LEMMA MarkedGrows ==
    ASSUME TypeInv, Grows, NEW tag PROVE Marked(tag) \subseteq Marked(tag)'
<1>1. forum \in Seq(PostRecord) /\ Len(forum) \in Nat
    BY DEF TypeInv, TypeOK
<1>2. CASE forum' = forum
    BY <1>2 DEF Marked
<1>3. ASSUME NEW e \in PostRecord, forum' = Append(forum, e)
      PROVE  Marked(tag) \subseteq Marked(tag)'
    <2>1. Len(forum') = Len(forum) + 1 /\ \A i \in 1..Len(forum) : forum'[i] = forum[i]
        BY <1>1, <1>3, AppendProperties
    <2> QED BY <1>1, <2>1 DEF Marked
<1> QED BY <1>2, <1>3 DEF Grows, OnePostAtMost

(* What a request holds stays true while posts and versions are added.     *)
LEMMA HoldsKept ==
    ASSUME TypeInv, Grows, case'.version \in Nat, NEW r, Holds(r) PROVE Holds(r)'
<1>1. case.version \in Nat
    BY DEF TypeInv, TypeOK, CaseRow
<1>2. 1..case.version \subseteq 1..case'.version
    BY <1>1 DEF Grows, OnePostAtMost
<1> QED BY <1>2, MarkedGrows DEF Holds, AnswerTag

(* A transaction that publishes nothing keeps the published answer one.    *)
LEMMA PublishedKept ==
    ASSUME TypeInv, Grows, case'.version \in Nat, PublishedPostIsAnAnswer,
           Published_' => Published_ /\ case'.publishedPost = case.publishedPost
    PROVE  PublishedPostIsAnAnswer'
<1>1. case.version \in Nat
    BY DEF TypeInv, TypeOK, CaseRow
<1>2. 1..case.version \subseteq 1..case'.version
    BY <1>1 DEF Grows, OnePostAtMost
<1> QED BY <1>2, MarkedGrows DEF PublishedPostIsAnAnswer, AnswerTag

(* So does a step that leaves the store alone.                             *)
LEMMA StoreStays ==
    ASSUME TypeInv, AnswerInv, UNCHANGED <<case, turns>>, OnePostAtMost
    PROVE  Grows /\ EmptyBefore' /\ PublishedPostIsAnAnswer'
<1>1. case.version \in Nat
    BY DEF TypeInv, TypeOK, CaseRow
<1>2. Grows
    BY <1>1 DEF Grows
<1> QED BY <1>1, <1>2, PublishedKept DEF AnswerInv, EmptyBefore, Published_

(* The requests that leave for no publishing step.                         *)
LEMMA Leaving ==
    ASSUME TypeInv, NEW h \in Handlers,
           \/ RecordTurn(h) \/ MarkAnswer(h) \/ Fail(h)
           \/ \E i \in 1..Len(selections) : ReceiveResolution(h, i)
           \/ HandleResolution(h)
    PROVE  Leaves(h)
<1>1. CASE RecordTurn(h) \/ MarkAnswer(h) \/ Fail(h) \/ MarkSolution(h)
    BY <1>1, EndLeaves DEF RecordTurn, MarkAnswer, Fail, MarkSolution
<1>2. ASSUME NEW i \in 1..Len(selections), ReceiveResolution(h, i) PROVE Leaves(h)
    BY <1>2, BeginHolds DEF ReceiveResolution, Leaves, AnswerStep
<1>3. CASE SyncResolution(h)
    BY <1>3, EndLeaves, ContinueLeaves, NextStepsOfResolution, SyncCases
<1>4. CASE MarkKnowledge(h)
    BY <1>4, EndLeaves, ContinueLeaves, NextStepsOfResolution DEF MarkKnowledge
<1>5. CASE LookupKnowledge(h) \/ PostKnowledge(h)
    BY <1>5, GotoHolds DEF LookupKnowledge, PostKnowledge, LookupMarker, WriteMarked, Leaves,
                           AnswerStep
<1>6. CASE SelectSolution(h) \/ VerifySolution(h)
    BY <1>6, GotoHolds, EndLeaves DEF SelectSolution, VerifySolution, Leaves, AnswerStep
<1> QED BY <1>1, <1>2, <1>3, <1>4, <1>5, <1>6 DEF HandleResolution

(* The invariant after a step of request h, given what h holds then.       *)
LEMMA AnswerInvKept ==
    ASSUME TypeInv, TypeInv', AnswerInv, Grows, NEW h \in Handlers, OnlyMoves(h),
           Holds(handler[h])', EmptyBefore', PublishedPostIsAnAnswer'
    PROVE  AnswerInv'
<1>1. case'.version \in Nat
    BY DEF TypeInv, TypeOK, CaseRow
<1>2. ASSUME NEW g \in Handlers PROVE Holds(handler[g])'
    <2>1. CASE g = h
        BY <2>1
    <2>2. CASE g # h
        <3>1. Holds(handler[g])
            BY DEF AnswerInv
        <3>2. handler'[g] = handler[g]
            BY <2>2 DEF OnlyMoves
        <3>3. ASSUME NEW r, r = handler[g] PROVE Holds(r)'
            BY <1>1, <3>1, <3>3, HoldsKept
        <3> QED BY <3>2, <3>3 DEF Holds, Marked
    <2> QED BY <2>1, <2>2
<1> QED BY <1>2 DEF AnswerInv

(* A step that leads to no publishing keeps the invariant.                 *)
LEMMA LeavesKeeps ==
    ASSUME TypeInv, TypeInv', AnswerInv, Grows, NEW h \in Handlers, Leaves(h),
           EmptyBefore', PublishedPostIsAnAnswer'
    PROVE  AnswerInv'
<1>1. Holds(handler[h])'
    BY DEF Leaves, Holds, AnswerStep
<1> QED BY <1>1, AnswerInvKept DEF Leaves

(* A request that goes on to publish holds what it must.                   *)
LEMMA GotoAnswer ==
    ASSUME TypeInv, NEW h \in Handlers, NEW pc, NEW row, NEW pub, Goto(h, pc, row, pub),
           row.version \in 1..case'.version,
           NEW t, t = AnswerTag(row.version), pc = "markAnswer" => pub \in Marked(t)'
    PROVE  OnlyMoves(h) /\ Holds(handler[h])'
<1>1. /\ OnlyMoves(h)
      /\ handler'[h].pc = pc /\ handler'[h].row = row /\ handler'[h].pub = pub
    BY GotoHolds
<1> QED BY <1>1 DEF Holds, Marked, AnswerTag

(* The steps that lead to publishing.                                      *)
LEMMA ReceivePostKeeps ==
    ASSUME TypeInv, TypeInv', AnswerInv, NEW h \in Handlers, NEW p \in 1..Len(forum),
           ReceivePost(h, p)
    PROVE  AnswerInv'
<1>1. UNCHANGED <<forum, selections, case, turns, responses, events>>
    BY DEF ReceivePost, flarum, store
<1>2. Grows /\ EmptyBefore' /\ PublishedPostIsAnAnswer'
    BY <1>1, StoreStays DEF OnePostAtMost
<1>3. CASE AwaitsPublication /\ Goto(h, "lookupAnswer", AnswerPart(case), NoPost)
    <2>1. case.version \in Nat /\ case.version # 0
        BY <1>3 DEF AwaitsPublication, AnswerInv, EmptyBefore, NoCase, TypeInv, TypeOK, CaseRow
    <2>2. AnswerPart(case).version = case.version
        BY DEF AnswerPart, NoCase
    <2>3. Holds(handler[h])'
        BY <1>1, <1>3, <2>1, <2>2, GotoHolds DEF Holds
    <2> QED BY <1>2, <1>3, <2>3, GotoHolds, AnswerInvKept
<1>4. CASE Leaves(h)
    BY <1>2, <1>4, LeavesKeeps
<1>5. ASSUME NEW ev, Begin(h, "record", ev) \/ Begin(h, "create", ev) PROVE Leaves(h)
    BY <1>5, BeginHolds DEF Leaves, AnswerStep
<1> QED BY <1>3, <1>4, <1>5, EndLeaves DEF ReceivePost

(* The version just drafted, or the one found, is the case's own.          *)
LEMMA CreateCaseKeeps ==
    ASSUME TypeInv, TypeInv', AnswerInv, NEW h \in Handlers, CreateCase(h) PROVE AnswerInv'
<1> DEFINE p == handler[h].ev.id
           row == IF case.version = 0 THEN NewCase(p) ELSE FollowUp(p)
<1>1. /\ case \in CaseRow /\ case' \in CaseRow /\ case.version \in Nat /\ p \in Nat
      /\ UNCHANGED forum
    BY DEF CreateCase, flarum, TypeInv, TypeOK, CaseRow, Request
<1>2. CASE UNCHANGED <<case, turns>> /\ Known(p)
           /\ Goto(h, "lookupAnswer", AnswerPart(case), NoPost)
    <2>1. case.version # 0
        BY <1>2 DEF AnswerInv, EmptyBefore, NoCase, NoTag, Known, PostKey
    <2>2. AnswerPart(case).version = case.version
        BY DEF AnswerPart, NoCase
    <2>3. Holds(handler[h])'
        BY <1>1, <1>2, <2>1, <2>2, GotoHolds DEF Holds
    <2>4. Grows /\ EmptyBefore' /\ PublishedPostIsAnAnswer'
        BY <1>1, <1>2, StoreStays DEF OnePostAtMost
    <2> QED BY <1>2, <2>3, <2>4, GotoHolds, AnswerInvKept
<1>3. CASE case' = row /\ Goto(h, "lookupAnswer", AnswerPart(row), NoPost)
    <2>1. row.version = case.version + 1 /\ row.state = "DRAFT_PENDING"
        BY <1>1, PublicationColumns
    <2>2. AnswerPart(row).version = row.version
        BY DEF AnswerPart, NoCase
    <2> HIDE DEF row
    <2>3. Holds(handler[h])'
        BY <1>1, <1>3, <2>1, <2>2, GotoHolds DEF Holds
    <2>4. Grows
        BY <1>1, <1>3, <2>1 DEF Grows, OnePostAtMost
    <2>5. EmptyBefore' /\ PublishedPostIsAnAnswer'
        BY <1>1, <1>3, <2>1 DEF EmptyBefore, PublishedPostIsAnAnswer, Published_
    <2> QED BY <1>3, <2>3, <2>4, <2>5, GotoHolds, AnswerInvKept
<1> QED BY <1>2, <1>3 DEF CreateCase, store

(* The post the search finds carries the marker of the held version.       *)
LEMMA LookupAnswerKeeps ==
    ASSUME TypeInv, TypeInv', AnswerInv, NEW h \in Handlers, LookupAnswer(h) PROVE AnswerInv'
<1>1. UNCHANGED <<forum, case, turns>> /\ handler[h].pc = "lookupAnswer"
    BY DEF LookupAnswer, LookupMarker, flarum, store, At
<1>2. Grows /\ EmptyBefore' /\ PublishedPostIsAnAnswer'
    BY <1>1, StoreStays DEF OnePostAtMost
<1>3. handler[h].row.version \in 1..case'.version
    BY <1>1 DEF AnswerInv, Holds, AnswerStep
<1>4. ASSUME NEW row, row = handler[h].row, NEW t, t = AnswerTag(row.version)
      PROVE  OnlyMoves(h) /\ Holds(handler[h])'
    <2>1. /\ Marked(AnswerTag(handler[h].row.version)) = Marked(t)
          /\ Marked(t)' = Marked(t)
        BY <1>1, <1>4 DEF Marked
    <2>2. ASSUME NEW i \in Marked(t), Goto(h, "markAnswer", row, i)
          PROVE  OnlyMoves(h) /\ Holds(handler[h])'
        BY <1>3, <1>4, <2>1, <2>2, GotoAnswer
    <2>3. ASSUME Goto(h, "postAnswer", row, NoPost)
          PROVE  OnlyMoves(h) /\ Holds(handler[h])'
        BY <1>3, <1>4, <2>3, GotoAnswer
    <2> QED BY <1>4, <2>1, <2>2, <2>3 DEF LookupAnswer, LookupMarker
<1> QED BY <1>2, <1>4, AnswerInvKept

(* The post just written carries the marker of the held version.           *)
LEMMA PostAnswerKeeps ==
    ASSUME TypeInv, TypeInv', AnswerInv, NEW h \in Handlers, PostAnswer(h) PROVE AnswerInv'
<1>1. handler[h].pc = "postAnswer" /\ UNCHANGED <<case, turns>>
    BY DEF PostAnswer, WriteMarked, store, At
<1>2. handler[h].row.version \in 1..case.version
    BY <1>1 DEF AnswerInv, Holds, AnswerStep
<1>3. case.version \in Nat /\ forum \in Seq(PostRecord) /\ Len(forum) \in Nat
    BY DEF TypeInv, TypeOK, CaseRow
<1>4. SUFFICES ASSUME NEW row, row = handler[h].row, NEW t, t = AnswerTag(row.version),
                      NEW e, e = PostOf("ASSISTANT_SELF", t)
               PROVE  AnswerInv'
    OBVIOUS
<1>5. forum' = Append(forum, e) /\ Goto(h, "markAnswer", row, Len(forum) + 1)
    BY <1>4 DEF PostAnswer, WriteMarked
<1>6. e \in PostRecord /\ e.reason = "ASSISTANT_SELF" /\ e.tag = t
    <2>1. row.version \in Nat
        BY <1>2, <1>3, <1>4
    <2> QED BY <1>4, <2>1, TagsTyped DEF PostOf, PostRecord, Reasons
<1>7. Grows
    BY <1>1, <1>3, <1>5, <1>6 DEF Grows, OnePostAtMost
<1>8. EmptyBefore' /\ PublishedPostIsAnAnswer'
    BY <1>1, <1>3, <1>7, PublishedKept DEF AnswerInv, EmptyBefore, Published_
<1>9. Len(forum) + 1 \in Marked(t)'
    <2>1. /\ Len(forum') = Len(forum) + 1 /\ forum'[Len(forum) + 1] = e
        BY <1>3, <1>5, <1>6, AppendProperties
    <2> QED BY <1>3, <1>6, <2>1 DEF Marked
<1>10. OnlyMoves(h) /\ Holds(handler[h])'
    BY <1>1, <1>2, <1>4, <1>5, <1>9, GotoAnswer
<1> QED BY <1>7, <1>8, <1>10, AnswerInvKept

(* The post marked as published is the one the request holds.              *)
LEMMA MarkAnswerKeeps ==
    ASSUME TypeInv, TypeInv', AnswerInv, NEW h \in Handlers, MarkAnswer(h) PROVE AnswerInv'
<1>1. UNCHANGED forum /\ handler[h].pc = "markAnswer"
    BY DEF MarkAnswer, flarum, At
<1>2. /\ handler[h].row.version \in 1..case.version
      /\ handler[h].pub \in Marked(AnswerTag(handler[h].row.version))
    BY <1>1 DEF AnswerInv, Holds, AnswerStep
<1>3. case'.version = case.version /\ case.version \in Nat
    BY MarksAnswer DEF TypeInv, TypeOK, CaseRow
<1>4. Grows /\ EmptyBefore'
    BY <1>1, <1>2, <1>3 DEF Grows, OnePostAtMost, EmptyBefore
<1>5. PublishedPostIsAnAnswer'
    <2>1. CASE Kept(case')
        BY <1>3, <1>4, <2>1, PublishedKept DEF AnswerInv, Published_, Kept
    <2>2. CASE case'.publishedPost = handler[h].pub
        <3>1. ASSUME NEW v, v = handler[h].row.version
              PROVE  case'.publishedPost \in Marked(AnswerTag(v))'
            BY <1>1, <1>2, <2>2, <3>1 DEF Marked, AnswerTag
        <3> QED BY <1>2, <1>3, <3>1 DEF PublishedPostIsAnAnswer
    <2> QED BY <2>1, <2>2, MarksAnswer
<1> QED BY <1>4, <1>5, Leaving, LeavesKeeps

(* The other transactions leave the publication alone, and an absent case. *)
LEMMA OthersKeepAnswer ==
    ASSUME TypeInv, TypeInv', AnswerInv, NEW h \in Handlers, Leaves(h), OnePostAtMost,
           \/ RecordTurn(h) \/ SyncResolution(h) \/ MarkKnowledge(h) \/ MarkSolution(h)
           \/ UNCHANGED <<case, turns>>
    PROVE  AnswerInv'
<1>1. Kept(case')
    BY OthersKeep DEF Kept
<1>2. case.version \in Nat
    BY DEF TypeInv, TypeOK, CaseRow
<1>3. Grows
    BY <1>1, <1>2 DEF Grows, OnePostAtMost, Kept
<1>4. PublishedPostIsAnAnswer'
    BY <1>1, <1>2, <1>3, PublishedKept DEF AnswerInv, Published_, Kept
<1>5. EmptyBefore'
    <2> SUFFICES ASSUME case.version = 0 PROVE UNCHANGED <<case, turns>>
        BY <1>1 DEF AnswerInv, EmptyBefore, Kept
    <2>1. case.conversation = "ANALYZING"
        BY DEF AnswerInv, EmptyBefore, NoCase
    <2> QED BY <2>1 DEF RecordTurn, SyncResolution, MarkKnowledge, KnowledgeReady, MarkSolution,
                        store
<1> QED BY <1>3, <1>4, <1>5, LeavesKeeps

(* What people do on the forum keeps the invariant.                        *)
LEMMA ForumKeeps ==
    ASSUME TypeInv, TypeInv', AnswerInv, Forum \/ UNCHANGED vars PROVE AnswerInv'
<1>1. UNCHANGED <<case, turns, handler>>
    BY DEF Forum, HumanPost, SelectBest, store, vars
<1>2. OnePostAtMost
    <2>1. \A reason \in Comments : PostOf(reason, NoTag) \in PostRecord
        BY CommentsAssumption, ConstantsTyped DEF PostOf, PostRecord, Reasons
    <2> QED BY <2>1 DEF Forum, HumanPost, SelectBest, vars, OnePostAtMost
<1>3. Grows /\ EmptyBefore' /\ PublishedPostIsAnAnswer' /\ case'.version \in Nat
    BY <1>1, <1>2, StoreStays DEF TypeInv, TypeOK, CaseRow
<1>4. ASSUME NEW g \in Handlers PROVE Holds(handler[g])'
    <2>1. ASSUME NEW r, r = handler[g] PROVE Holds(r)'
        BY <1>3, <2>1, HoldsKept DEF AnswerInv
    <2> QED BY <1>1, <2>1 DEF Holds, Marked
<1> QED BY <1>3, <1>4 DEF AnswerInv

(* Every step keeps what the requests hold and what the case is published  *)
(* with.                                                                   *)
LEMMA AnswerInductive ==
    /\ Init => AnswerInv
    /\ TypeInv /\ TypeInv' /\ AnswerInv /\ [Next]_vars => AnswerInv'
<1>1. Init => AnswerInv
    BY DEF Init, AnswerInv, EmptyBefore, Holds, Idle, AnswerStep, PublishedPostIsAnAnswer,
           Published_, NoCase
<1>2. TypeInv /\ TypeInv' /\ AnswerInv /\ [Next]_vars => AnswerInv'
    <2> SUFFICES ASSUME TypeInv, TypeInv', AnswerInv, [Next]_vars PROVE AnswerInv'
        OBVIOUS
    <2>1. CASE Forum \/ UNCHANGED vars
        BY <2>1, ForumKeeps
    <2>2. ASSUME NEW h \in Handlers, HandlePost(h) PROVE AnswerInv'
        <3>1. CASE RecordTurn(h)
            BY <3>1, Leaving, OthersKeepAnswer DEF RecordTurn, flarum, OnePostAtMost
        <3> QED BY <2>2, <3>1, ReceivePostKeeps, CreateCaseKeeps, LookupAnswerKeeps,
                   PostAnswerKeeps, MarkAnswerKeeps DEF HandlePost
    <2>3. ASSUME NEW h \in Handlers, HandleResolution(h) PROVE AnswerInv'
        <3>1. \/ SyncResolution(h) \/ MarkKnowledge(h) \/ MarkSolution(h)
              \/ UNCHANGED <<case, turns>>
            BY <2>3 DEF HandleResolution, ReceiveResolution, LookupKnowledge, PostKnowledge,
                        LookupMarker, WriteMarked, SelectSolution, VerifySolution, store
        <3>2. ASSUME PostKnowledge(h) PROVE OnePostAtMost
            <4>1. PostOf("ASSISTANT_SELF", KnowledgeTag(handler[h].row.resolvedPost))
                    \in PostRecord
                <5>1. handler[h].row \in CaseRow
                    BY DEF TypeInv, TypeOK, Request
                <5>2. handler[h].row.resolvedPost \in Nat
                    BY <5>1 DEF CaseRow
                <5> QED BY <5>2, TagsTyped DEF PostOf, PostRecord, Reasons
            <4> QED BY <3>2, <4>1 DEF PostKnowledge, WriteMarked, OnePostAtMost
        <3>3. ASSUME ~PostKnowledge(h) PROVE OnePostAtMost
            BY <2>3, <3>3 DEF HandleResolution, ReceiveResolution, SyncResolution,
               LookupKnowledge, LookupMarker, MarkKnowledge, SelectSolution, VerifySolution,
               MarkSolution, flarum, OnePostAtMost
        <3> QED BY <2>3, <3>1, <3>2, <3>3, Leaving, OthersKeepAnswer
    <2>4. ASSUME NEW h \in Handlers, Fail(h) PROVE AnswerInv'
        BY <2>4, Leaving, OthersKeepAnswer DEF Fail, flarum, store, OnePostAtMost
    <2> QED BY <2>1, <2>2, <2>3, <2>4 DEF Next
<1> QED BY <1>1, <1>2

(* What the case calls its published answer is one of its answers.         *)
THEOREM PublishedIsAnAnswer == Spec => []PublishedPostIsAnAnswer
<1>1. AnswerInv => PublishedPostIsAnAnswer
    BY DEF AnswerInv
<1> QED BY <1>1, AnswerInductive, TypeInductive, PTL DEF Spec

----------------------------------------------------------------------------
(* One request at a time.  What a request holds of the case is still so    *)
(* when it writes, and no marker appears between its search and its post.  *)
(* With two requests neither is so (see community_duplicate_answer).       *)
Solo == \A g, h \in Handlers : g = h

KnowledgeStep == {"lookupKnowledge", "postKnowledge", "markKnowledge"}
Marker(r) == IF r.pc \in AnswerStep THEN AnswerTag(r.row.version)
             ELSE KnowledgeTag(r.row.resolvedPost)
HoldsLast(r) ==
    /\ r.pc \in AnswerStep => r.row.version = case.version
    /\ r.pc \in KnowledgeStep => r.row.resolvedPost = case.resolvedPost
    /\ r.pc \in {"markAnswer", "markKnowledge"} => r.pub \in Marked(Marker(r))
    /\ r.pc \in {"postAnswer", "postKnowledge"} => Marked(Marker(r)) = {}
MarkedByAssistant ==
    \A i \in 1..Len(forum) : forum[i].tag # NoTag => forum[i].reason = "ASSISTANT_SELF"
SoloInv ==
    /\ MarkedByAssistant /\ MarkersAreUnique
    /\ PublishedPostIsCurrent /\ KnowledgeMatchesSource
    /\ \A h \in Handlers : HoldsLast(handler[h])

LEMMA InitSolo == Init => SoloInv
<1> SUFFICES ASSUME Init PROVE SoloInv
    OBVIOUS
<1>1. Len(forum) = 1 /\ forum[1].tag = NoTag
    BY DEF Init, PostOf
<1>2. \A h \in Handlers : handler[h].pc = "idle"
    BY DEF Init, Idle
<1>3. case.state = "DRAFT_PENDING" /\ case.kbPost = NoPost
    BY DEF Init, NoCase
<1> QED BY <1>1, <1>2, <1>3 DEF SoloInv, MarkedByAssistant, MarkersAreUnique, HoldsLast,
           PublishedPostIsCurrent, KnowledgeMatchesSource, Published_, AnswerStep, KnowledgeStep

(* Markers are tags of their own.                                          *)
LEMMA MarkersAreTags ==
    ASSUME NEW n PROVE AnswerTag(n) # NoTag /\ KnowledgeTag(n) # NoTag
BY DEF AnswerTag, KnowledgeTag, NoTag

LEMMA MarkedStays == ASSUME UNCHANGED forum, NEW t PROVE Marked(t)' = Marked(t)
BY DEF Marked

(* The columns of the knowledge post: cleared together, or as they were.   *)
KnowledgeKept(r) ==
    r.kbPost = NoPost \/ (r.kbPost = case.kbPost /\ r.kbSource = case.kbSource)

LEMMA KnowledgeColumns ==
    ASSUME TypeInv, NEW h \in Handlers,
           \/ RecordTurn(h) \/ CreateCase(h) \/ MarkAnswer(h)
           \/ SyncResolution(h) \/ MarkSolution(h)
    PROVE  KnowledgeKept(case')
<1>0. case \in CaseRow
    BY DEF TypeInv, TypeOK
<1>1. CASE RecordTurn(h)
    BY <1>0, <1>1 DEF RecordTurn, WithoutResolution, store, CaseRow, KnowledgeKept
<1>2. CASE CreateCase(h)
    <2>1. PICK p \in Nat : case' \in {case, NewCase(p), FollowUp(p)}
        BY <1>2 DEF CreateCase, store, TypeInv, TypeOK, Request
    <2>2. NewCase(p).kbPost = NoPost
        BY DEF NewCase, NoCase
    <2>3. KnowledgeKept(FollowUp(p))
        <3>1. /\ WithoutResolution(case) \in CaseRow
              /\ WithoutResolution(case).kbPost = NoPost
            BY <1>0, WithoutResolutionTyped DEF WithoutResolution, CaseRow
        <3>2. CASE case.conversation = "RESOLVED"
            BY <1>0, <3>1, <3>2 DEF FollowUp, CaseRow, KnowledgeKept
        <3>3. CASE case.conversation # "RESOLVED"
            BY <1>0, <3>3 DEF FollowUp, CaseRow, KnowledgeKept
        <3> QED BY <3>2, <3>3
    <2> QED BY <2>1, <2>2, <2>3 DEF KnowledgeKept
<1>3. CASE MarkAnswer(h)
    BY <1>0, <1>3 DEF MarkAnswer, Published, store, CaseRow, KnowledgeKept
<1>4. CASE SyncResolution(h)
    <2>1. case' = case \/ case' = SyncRow(h)
        BY <1>4, SyncCases
    <2>2. KnowledgeKept(SyncRow(h))
        BY <1>0 DEF SyncRow, Resolution, Confirmed, Resolved, UnderReview, Reopened,
                    WithoutResolution, CaseRow, KnowledgeKept
    <2> QED BY <2>1, <2>2 DEF KnowledgeKept
<1>5. CASE MarkSolution(h)
    BY <1>0, <1>5 DEF MarkSolution, store, CaseRow, KnowledgeKept
<1> QED BY <1>1, <1>2, <1>3, <1>4, <1>5

(* The published post, and the knowledge post, while the forum stays.      *)
LEMMA CurrentKept ==
    ASSUME SoloInv, UNCHANGED forum, Kept(case') \/ case'.state # "PUBLISHED"
    PROVE  PublishedPostIsCurrent'
<1>1. CASE case'.state # "PUBLISHED"
    BY <1>1 DEF PublishedPostIsCurrent, Published_
<1>2. CASE Kept(case')
    BY <1>2, MarkedStays DEF SoloInv, PublishedPostIsCurrent, Published_, Kept, AnswerTag
<1> QED BY <1>1, <1>2

LEMMA SourceKept ==
    ASSUME SoloInv, UNCHANGED forum, KnowledgeKept(case') PROVE KnowledgeMatchesSource'
<1>1. CASE case'.kbPost = NoPost
    BY <1>1 DEF KnowledgeMatchesSource
<1>2. CASE case'.kbPost = case.kbPost /\ case'.kbSource = case.kbSource
    BY <1>2, MarkedStays DEF SoloInv, KnowledgeMatchesSource, KnowledgeTag
<1> QED BY <1>1, <1>2 DEF KnowledgeKept

(* What a step of the one request has to show when it posts nothing.       *)
LEMMA NothingPosted ==
    ASSUME Solo, SoloInv, NEW h \in Handlers, UNCHANGED forum,
           Kept(case') \/ case'.state # "PUBLISHED", KnowledgeKept(case'),
           HoldsLast(handler[h])'
    PROVE  SoloInv'
<1>1. MarkedByAssistant' /\ MarkersAreUnique'
    BY DEF SoloInv, MarkedByAssistant, MarkersAreUnique
<1>2. PublishedPostIsCurrent' /\ KnowledgeMatchesSource'
    BY CurrentKept, SourceKept
<1>3. \A g \in Handlers : g = h
    BY DEF Solo
<1> QED BY <1>1, <1>2, <1>3 DEF SoloInv

LEMMA PassiveHolds ==
    ASSUME NEW h, handler'[h].pc \notin AnswerStep \cup KnowledgeStep
    PROVE  HoldsLast(handler[h])'
BY DEF HoldsLast, AnswerStep, KnowledgeStep

LEMMA EndIsPassive ==
    ASSUME TypeInv, NEW h \in Handlers, End(h) PROVE HoldsLast(handler[h])'
<1>1. handler'[h].pc = "idle"
    BY DEF TypeInv, TypeOK, End, Idle
<1> QED BY <1>1, PassiveHolds DEF AnswerStep, KnowledgeStep

LEMMA BeginIsPassive ==
    ASSUME TypeInv, NEW h \in Handlers, NEW pc \in {"record", "create", "sync"}, NEW ev,
           Begin(h, pc, ev)
    PROVE  HoldsLast(handler[h])'
<1>1. handler'[h].pc = pc
    BY BeginHolds
<1> QED BY <1>1, PassiveHolds DEF AnswerStep, KnowledgeStep

LEMMA GotoIsPassive ==
    ASSUME TypeInv, NEW h \in Handlers, NEW pc \in {"select", "verify", "markSolution"},
           NEW row, NEW pub, Goto(h, pc, row, pub)
    PROVE  HoldsLast(handler[h])'
<1>1. handler'[h].pc = pc
    BY GotoHolds
<1> QED BY <1>1, PassiveHolds DEF AnswerStep, KnowledgeStep

(* The search for the marker, of an answer or of a knowledge post.         *)
LEMMA LookupsHold ==
    ASSUME TypeInv, SoloInv, NEW h \in Handlers, LookupAnswer(h) \/ LookupKnowledge(h)
    PROVE  HoldsLast(handler[h])' /\ UNCHANGED <<forum, case>>
<1>1. UNCHANGED <<forum, case>>
    BY DEF LookupAnswer, LookupKnowledge, LookupMarker, flarum, store
<1>2. PICK row : row = handler[h].row
    OBVIOUS
<1>3. CASE LookupAnswer(h)
    <2>1. row.version = case.version
        BY <1>2, <1>3 DEF LookupAnswer, LookupMarker, At, SoloInv, HoldsLast, AnswerStep
    <2>2. PICK t : t = AnswerTag(row.version)
        OBVIOUS
    <2>3. PICK pc, pub : /\ Goto(h, pc, row, pub)
                         /\ \/ pc = "markAnswer" /\ pub \in Marked(t)
                            \/ pc = "postAnswer" /\ Marked(t) = {}
        BY <1>2, <1>3, <2>2 DEF LookupAnswer, LookupMarker
    <2>4. handler'[h].pc = pc /\ handler'[h].row = row /\ handler'[h].pub = pub
        BY <2>3, GotoHolds
    <2>5. Marked(t)' = Marked(t)
        BY <1>1, MarkedStays
    <2>6. Marker(handler[h])' = t
        BY <2>2, <2>3, <2>4 DEF Marker, AnswerStep, AnswerTag
    <2>7. Marked(Marker(handler[h]))' = Marked(t)
        BY <2>5, <2>6 DEF Marked
    <2> QED BY <1>1, <2>1, <2>3, <2>4, <2>7 DEF HoldsLast, KnowledgeStep
<1>4. CASE LookupKnowledge(h)
    <2>1. row.resolvedPost = case.resolvedPost
        BY <1>2, <1>4 DEF LookupKnowledge, LookupMarker, At, SoloInv, HoldsLast, KnowledgeStep
    <2>2. PICK t : t = KnowledgeTag(row.resolvedPost)
        OBVIOUS
    <2>3. PICK pc, pub : /\ Goto(h, pc, row, pub)
                         /\ \/ pc = "markKnowledge" /\ pub \in Marked(t)
                            \/ pc = "postKnowledge" /\ Marked(t) = {}
        BY <1>2, <1>4, <2>2 DEF LookupKnowledge, LookupMarker
    <2>4. handler'[h].pc = pc /\ handler'[h].row = row /\ handler'[h].pub = pub
        BY <2>3, GotoHolds
    <2>5. Marked(t)' = Marked(t)
        BY <1>1, MarkedStays
    <2>6. Marker(handler[h])' = t
        BY <2>2, <2>3, <2>4 DEF Marker, AnswerStep, KnowledgeTag
    <2>7. Marked(Marker(handler[h]))' = Marked(t)
        BY <2>5, <2>6 DEF Marked
    <2> QED BY <1>1, <2>1, <2>3, <2>4, <2>7 DEF HoldsLast, AnswerStep
<1> QED BY <1>1, <1>3, <1>4

(* A resolution goes on with the row it wrote or found.                    *)
LEMMA ContinueHolds ==
    ASSUME TypeInv, NEW h \in Handlers, NEW row,
           NEW pc \in {"lookupKnowledge", "select", "end"},
           Continue(h, pc, KnowledgePart(row)), row.resolvedPost = case'.resolvedPost
    PROVE  HoldsLast(handler[h])'
<1>1. CASE pc = "end"
    BY <1>1, EndIsPassive DEF Continue
<1>2. CASE pc # "end"
    <2>1. PICK part : part = KnowledgePart(row)
        OBVIOUS
    <2>2. Goto(h, pc, part, NoPost) /\ part.resolvedPost = case'.resolvedPost
        BY <1>2, <2>1 DEF Continue, KnowledgePart, NoCase
    <2>3. handler'[h].pc = pc /\ handler'[h].row = part
        BY <2>2, GotoHolds
    <2> QED BY <1>2, <2>2, <2>3 DEF HoldsLast, AnswerStep, KnowledgeStep
<1> QED BY <1>1, <1>2

LEMMA ReceiveSolo ==
    ASSUME TypeInv, Solo, SoloInv, NEW h \in Handlers,
           \/ \E p \in 1..Len(forum) : ReceivePost(h, p)
           \/ \E i \in 1..Len(selections) : ReceiveResolution(h, i)
    PROVE  SoloInv'
<1>1. UNCHANGED <<forum, case>>
    BY DEF ReceivePost, ReceiveResolution, flarum, store
<1>2. CASE Goto(h, "lookupAnswer", AnswerPart(case), NoPost)
    <2>1. PICK row : row = AnswerPart(case)
        OBVIOUS
    <2>2. row.version = case.version
        BY <2>1 DEF AnswerPart, NoCase
    <2>3. handler'[h].pc = "lookupAnswer" /\ handler'[h].row = row
        BY <1>2, <2>1, GotoHolds
    <2>4. HoldsLast(handler[h])'
        BY <1>1, <2>2, <2>3 DEF HoldsLast, AnswerStep, KnowledgeStep
    <2> QED BY <1>1, <2>4, NothingPosted DEF Kept, KnowledgeKept
<1>3. CASE \/ End(h)
           \/ \E ev : Begin(h, "record", ev) \/ Begin(h, "create", ev) \/ Begin(h, "sync", ev)
    <2>1. HoldsLast(handler[h])'
        BY <1>3, EndIsPassive, BeginIsPassive
    <2> QED BY <1>1, <2>1, NothingPosted DEF Kept, KnowledgeKept
<1> QED BY <1>2, <1>3 DEF ReceivePost, ReceiveResolution

LEMMA CreateSolo ==
    ASSUME TypeInv, Solo, SoloInv, NEW h \in Handlers, CreateCase(h)
    PROVE  SoloInv'
<1>1. UNCHANGED forum /\ KnowledgeKept(case')
    BY KnowledgeColumns DEF CreateCase, flarum
<1>2. Kept(case') \/ case'.state # "PUBLISHED"
    BY CreatesVersion DEF Kept
<1>3. PICK row : /\ Goto(h, "lookupAnswer", row, NoPost)
                 /\ row.version = case'.version
    <2>1. \A r : AnswerPart(r).version = r.version
        BY DEF AnswerPart, NoCase
    <2> QED BY <2>1 DEF CreateCase, store
<1>4. handler'[h].pc = "lookupAnswer" /\ handler'[h].row = row
    BY <1>3, GotoHolds
<1>5. HoldsLast(handler[h])'
    BY <1>3, <1>4 DEF HoldsLast, AnswerStep, KnowledgeStep
<1> QED BY <1>1, <1>2, <1>5, NothingPosted

LEMMA MarkAnswerSolo ==
    ASSUME TypeInv, Solo, SoloInv, NEW h \in Handlers, MarkAnswer(h) PROVE SoloInv'
<1>1. UNCHANGED forum /\ KnowledgeKept(case') /\ HoldsLast(handler[h])'
    BY KnowledgeColumns, EndIsPassive DEF MarkAnswer, flarum
<1>2. CASE Kept(case')
    BY <1>1, <1>2, NothingPosted
<1>3. CASE case'.publishedPost = handler[h].pub
    <2>1. PICK t : t = AnswerTag(handler[h].row.version)
        OBVIOUS
    <2>2. /\ handler[h].pc = "markAnswer" /\ handler[h].row.version = case.version
          /\ handler[h].pub \in Marked(t)
        BY <2>1 DEF MarkAnswer, At, SoloInv, HoldsLast, Marker, AnswerStep
    <2>3. Marked(t)' = Marked(t) /\ case'.version = case.version
        BY <1>1, MarkedStays, MarksAnswer
    <2>4. AnswerTag(case.version)' = t
        BY <2>1, <2>2, <2>3 DEF AnswerTag
    <2>5. Marked(AnswerTag(case.version))' = Marked(t)'
        BY <2>4 DEF Marked
    <2>6. PublishedPostIsCurrent'
        BY <1>3, <2>2, <2>3, <2>5 DEF PublishedPostIsCurrent
    <2>7. KnowledgeMatchesSource'
        BY <1>1, SourceKept
    <2>8. MarkedByAssistant' /\ MarkersAreUnique'
        BY <1>1 DEF SoloInv, MarkedByAssistant, MarkersAreUnique
    <2>9. \A g \in Handlers : g = h
        BY DEF Solo
    <2> QED BY <1>1, <2>6, <2>7, <2>8, <2>9 DEF SoloInv
<1> QED BY <1>2, <1>3, MarksAnswer

LEMMA SyncSolo ==
    ASSUME TypeInv, Solo, SoloInv, NEW h \in Handlers, SyncResolution(h) PROVE SoloInv'
<1>1. UNCHANGED forum /\ Kept(case') /\ KnowledgeKept(case')
    BY KnowledgeColumns, OthersKeep, SyncCases
<1>2. \A r : AfterResolution(r) \in {"lookupKnowledge", "select", "end"}
    BY DEF AfterResolution
<1>3. End(h) \/ Continue(h, AfterResolution(case'), KnowledgePart(case'))
    BY SyncCases
<1>4. HoldsLast(handler[h])'
    <2>1. PICK row : row = case'
        OBVIOUS
    <2>2. End(h) \/ Continue(h, AfterResolution(row), KnowledgePart(row))
        BY <1>3, <2>1
    <2> QED BY <1>2, <2>1, <2>2, EndIsPassive, ContinueHolds
<1> QED BY <1>1, <1>4, NothingPosted

(* The knowledge post is recorded for the resolution it was written for.   *)
LEMMA MarkKnowledgeSolo ==
    ASSUME TypeInv, Solo, SoloInv, NEW h \in Handlers, MarkKnowledge(h) PROVE SoloInv'
<1>1. UNCHANGED forum /\ Kept(case') /\ case \in CaseRow
    BY OthersKeep DEF MarkKnowledge, flarum, TypeInv, TypeOK
<1>2. HoldsLast(handler[h])'
    <2>1. \A r : AfterKnowledge(r) \in {"lookupKnowledge", "select", "end"}
        BY DEF AfterKnowledge
    <2>2. PICK row : row = case'
        OBVIOUS
    <2>3. End(h) \/ Continue(h, AfterKnowledge(row), KnowledgePart(row))
        BY <2>2 DEF MarkKnowledge, store
    <2> QED BY <2>1, <2>2, <2>3, EndIsPassive, ContinueHolds
<1>3. CASE case' = case
    BY <1>1, <1>2, <1>3, NothingPosted DEF KnowledgeKept
<1>4. CASE case' # case
    <2>1. PICK t : t = KnowledgeTag(handler[h].row.resolvedPost)
        OBVIOUS
    <2>2. /\ handler[h].pc = "markKnowledge" /\ handler[h].pub \in Marked(t)
          /\ handler[h].row.resolvedPost = case.resolvedPost
        BY <2>1 DEF MarkKnowledge, At, SoloInv, HoldsLast, Marker, AnswerStep, KnowledgeStep
    <2>3. case'.kbPost = handler[h].pub /\ case'.kbSource = case.resolvedPost
        BY <1>1, <1>4 DEF MarkKnowledge, store, CaseRow
    <2>4. KnowledgeTag(case.kbSource)' = t
        BY <2>1, <2>2, <2>3 DEF KnowledgeTag
    <2>5. Marked(KnowledgeTag(case.kbSource))' = Marked(t)
        BY <1>1, <2>4 DEF Marked
    <2>6. KnowledgeMatchesSource'
        BY <2>2, <2>3, <2>5 DEF KnowledgeMatchesSource
    <2>7. PublishedPostIsCurrent'
        BY <1>1, CurrentKept
    <2>8. MarkedByAssistant' /\ MarkersAreUnique'
        BY <1>1 DEF SoloInv, MarkedByAssistant, MarkersAreUnique
    <2>9. \A g \in Handlers : g = h
        BY DEF Solo
    <2> QED BY <1>2, <2>6, <2>7, <2>8, <2>9 DEF SoloInv
<1> QED BY <1>3, <1>4

LEMMA OtherStepsSolo ==
    ASSUME TypeInv, Solo, SoloInv, NEW h \in Handlers,
           \/ RecordTurn(h) \/ LookupAnswer(h) \/ LookupKnowledge(h) \/ SelectSolution(h)
           \/ VerifySolution(h) \/ MarkSolution(h) \/ Fail(h)
    PROVE  SoloInv'
<1>1. UNCHANGED forum
    BY DEF RecordTurn, LookupAnswer, LookupKnowledge, LookupMarker, SelectSolution,
           VerifySolution, MarkSolution, Fail, flarum
<1>2. CASE RecordTurn(h) \/ MarkSolution(h)
    <2>1. Kept(case') /\ KnowledgeKept(case')
        BY <1>2, OthersKeep, KnowledgeColumns
    <2>2. HoldsLast(handler[h])'
        BY <1>2, EndIsPassive DEF RecordTurn, MarkSolution
    <2> QED BY <1>1, <2>1, <2>2, NothingPosted
<1>3. CASE LookupAnswer(h) \/ LookupKnowledge(h)
    BY <1>1, <1>3, LookupsHold, NothingPosted DEF Kept, KnowledgeKept
<1>4. CASE SelectSolution(h) \/ VerifySolution(h) \/ Fail(h)
    <2>1. case' = case
        BY <1>4 DEF SelectSolution, VerifySolution, Fail, store
    <2>2. HoldsLast(handler[h])'
        BY <1>4, EndIsPassive, GotoIsPassive DEF SelectSolution, VerifySolution, Fail
    <2> QED BY <1>1, <2>1, <2>2, NothingPosted DEF Kept, KnowledgeKept
<1> QED BY <1>2, <1>3, <1>4

(* A post is added: a person's carries no marker, the assistant's one that *)
(* there was not.                                                          *)
LEMMA PostAdded ==
    ASSUME TypeInv, SoloInv, NEW e \in PostRecord, forum' = Append(forum, e),
           \/ e.tag = NoTag
           \/ e.tag # NoTag /\ e.reason = "ASSISTANT_SELF" /\ Marked(e.tag) = {},
           case' = case
    PROVE  /\ MarkedByAssistant' /\ MarkersAreUnique'
           /\ PublishedPostIsCurrent' /\ KnowledgeMatchesSource'
           /\ \A t : t # e.tag /\ t # NoTag => Marked(t)' = Marked(t)
           /\ e.tag # NoTag => Len(forum) + 1 \in Marked(e.tag)'
<1>1. forum \in Seq(PostRecord) /\ Len(forum) \in Nat
    BY DEF TypeInv, TypeOK
<1>2. PICK n \in Nat : n = Len(forum) + 1
    BY <1>1
<1>3. /\ Len(forum') = n /\ forum'[n] = e /\ \A i \in 1..Len(forum) : forum'[i] = forum[i]
      /\ 1..n = 1..Len(forum) \cup {n} /\ n \notin 1..Len(forum)
    BY <1>1, <1>2, AppendProperties
<1>4. MarkedByAssistant'
    BY <1>3 DEF SoloInv, MarkedByAssistant
<1>5. MarkersAreUnique'
    <2>1. \A i \in 1..Len(forum) : e.tag # NoTag => forum[i].tag # e.tag
        BY DEF SoloInv, MarkedByAssistant, Marked
    <2> QED BY <1>3, <2>1 DEF SoloInv, MarkersAreUnique
<1>6. Grows
    <2>1. case.version \in Nat
        BY DEF TypeInv, TypeOK, CaseRow
    <2> QED BY <2>1 DEF Grows, OnePostAtMost
<1>7. PublishedPostIsCurrent' /\ KnowledgeMatchesSource'
    BY <1>6, MarkedGrows DEF SoloInv, PublishedPostIsCurrent, KnowledgeMatchesSource, Published_,
       AnswerTag, KnowledgeTag
<1>8. ASSUME NEW t, t # e.tag, t # NoTag PROVE Marked(t)' = Marked(t)
    BY <1>3, <1>8 DEF Marked
<1>9. e.tag # NoTag => n \in Marked(e.tag)'
    BY <1>3 DEF Marked
<1> QED BY <1>2, <1>4, <1>5, <1>7, <1>8, <1>9

LEMMA PostsSolo ==
    ASSUME TypeInv, Solo, SoloInv, NEW h \in Handlers, PostAnswer(h) \/ PostKnowledge(h)
    PROVE  SoloInv'
<1>0. PICK row \in CaseRow : row = handler[h].row
    BY DEF TypeInv, TypeOK, Request
<1>1. PICK t : row = handler[h].row /\ t = Marker(handler[h])
    BY <1>0
<1>2. PICK next :
        /\ next = IF PostAnswer(h) THEN "markAnswer" ELSE "markKnowledge"
        /\ forum' = Append(forum, PostOf("ASSISTANT_SELF", t))
        /\ Goto(h, next, row, Len(forum) + 1) /\ UNCHANGED case
        /\ PostAnswer(h) => /\ t = AnswerTag(row.version) /\ row.version = case.version
                             /\ handler[h].pc = "postAnswer"
        /\ ~PostAnswer(h) => /\ t = KnowledgeTag(row.resolvedPost)
                              /\ row.resolvedPost = case.resolvedPost
        /\ Marked(t) = {}
    BY <1>1 DEF PostAnswer, PostKnowledge, WriteMarked, At, store, SoloInv, HoldsLast,
       Marker, AnswerStep, KnowledgeStep
<1>3. PICK e : e = PostOf("ASSISTANT_SELF", t)
    OBVIOUS
<1>4. e \in PostRecord /\ e.tag = t /\ e.reason = "ASSISTANT_SELF" /\ t # NoTag
    <2>1. row.version \in Nat /\ row.resolvedPost \in Nat
        BY DEF CaseRow
    <2> QED BY <1>2, <1>3, <2>1, TagsTyped, MarkersAreTags DEF PostOf, PostRecord, Reasons
<1>5. /\ MarkedByAssistant' /\ MarkersAreUnique'
      /\ PublishedPostIsCurrent' /\ KnowledgeMatchesSource'
      /\ Len(forum) + 1 \in Marked(t)'
    BY <1>2, <1>3, <1>4, PostAdded
<1>6. /\ handler'[h].pc = next /\ handler'[h].row = row
      /\ handler'[h].pub = Len(forum) + 1
    BY <1>2, GotoHolds
<1>7. Marker(handler[h])' = t
    BY <1>2, <1>6 DEF Marker, AnswerStep, AnswerTag, KnowledgeTag
<1>8. Marked(Marker(handler[h]))' = Marked(t)'
    BY <1>7 DEF Marked
<1>9. HoldsLast(handler[h])'
    BY <1>2, <1>5, <1>6, <1>8 DEF HoldsLast, AnswerStep, KnowledgeStep
<1>10. \A g \in Handlers : g = h
    BY DEF Solo
<1> QED BY <1>5, <1>9, <1>10 DEF SoloInv

LEMMA ForumSolo ==
    ASSUME TypeInv, SoloInv, Forum \/ UNCHANGED vars PROVE SoloInv'
<1>1. UNCHANGED <<case, handler>>
    BY DEF Forum, HumanPost, SelectBest, store, vars
<1>2. CASE UNCHANGED forum
    BY <1>1, <1>2 DEF SoloInv, MarkedByAssistant, MarkersAreUnique, PublishedPostIsCurrent,
       KnowledgeMatchesSource, Published_, HoldsLast, Marker, Marked, AnswerTag, KnowledgeTag
<1>3. ASSUME NEW reason \in Comments, forum' = Append(forum, PostOf(reason, NoTag))
      PROVE  SoloInv'
    <2>0. PICK e : e = PostOf(reason, NoTag)
        OBVIOUS
    <2>1. e \in PostRecord /\ e.tag = NoTag
        BY <2>0, CommentsAssumption, ConstantsTyped DEF PostOf, PostRecord, Reasons
    <2>2. /\ MarkedByAssistant' /\ MarkersAreUnique'
          /\ PublishedPostIsCurrent' /\ KnowledgeMatchesSource'
          /\ \A t : t # NoTag => Marked(t)' = Marked(t)
        BY <1>1, <1>3, <2>0, <2>1, PostAdded
    <2>3. ASSUME NEW h \in Handlers PROVE HoldsLast(handler[h])'
        <3>1. PICK t : t = Marker(handler[h])
            OBVIOUS
        <3>2. t # NoTag /\ Marker(handler[h])' = t
            BY <1>1, <3>1, MarkersAreTags DEF Marker, AnswerTag, KnowledgeTag
        <3>3. Marked(Marker(handler[h]))' = Marked(t)
            BY <2>2, <3>2 DEF Marked
        <3> QED BY <1>1, <3>1, <3>3 DEF SoloInv, HoldsLast
    <2> QED BY <2>2, <2>3 DEF SoloInv
<1> QED BY <1>2, <1>3 DEF Forum, HumanPost, SelectBest, vars

LEMMA SoloStep ==
    ASSUME TypeInv, Solo, SoloInv, [Next]_vars PROVE SoloInv'
BY ForumSolo, ReceiveSolo, CreateSolo, MarkAnswerSolo, SyncSolo, MarkKnowledgeSolo,
   OtherStepsSolo, PostsSolo DEF Next, HandlePost, HandleResolution

(* One request at a time, repeated and cut off at will: a marker is        *)
(* written once, however long the discussion gets.                         *)
THEOREM MarkedOnce == ASSUME Solo PROVE Spec => []MarkersAreUnique
<1>1. SoloInv => MarkersAreUnique
    BY DEF SoloInv
<1>2. TypeInv /\ SoloInv /\ [Next]_vars => SoloInv'
    BY SoloStep
<1> QED BY InitSolo, <1>1, <1>2, TypeInductive, PTL DEF Spec

(* The published post then is the answer of the current version.           *)
THEOREM PublishedIsCurrent == ASSUME Solo PROVE Spec => []PublishedPostIsCurrent
<1>1. SoloInv => PublishedPostIsCurrent
    BY DEF SoloInv
<1>2. TypeInv /\ SoloInv /\ [Next]_vars => SoloInv'
    BY SoloStep
<1> QED BY InitSolo, <1>1, <1>2, TypeInductive, PTL DEF Spec

(* And the knowledge post was written for the answer on record.            *)
THEOREM KnowledgeIsOfItsSource == ASSUME Solo PROVE Spec => []KnowledgeMatchesSource
<1>1. SoloInv => KnowledgeMatchesSource
    BY DEF SoloInv
<1>2. TypeInv /\ SoloInv /\ [Next]_vars => SoloInv'
    BY SoloStep
<1> QED BY InitSolo, <1>1, <1>2, TypeInductive, PTL DEF Spec
----------------------------------------------------------------------------
(* The tests' store next to the deployed one, one request at a time.  The  *)
(* calls are answered alike because of what the deployed rows never show:  *)
(* a draft that is not the last response, a publication recorded for a     *)
(* version that does not carry it, a key or a source without its event.    *)
DraftOnRecord ==
    /\ case.version > 0 => responses[case.version].answer = case.draft
    /\ \A h \in Handlers : handler[h].pc \in AnswerStep => handler[h].row.draft = case.draft
AnswersRecorded ==
    /\ \A n \in Nat : AnswerTag(n) \in events => n <= case.version
    /\ AnswerTag(case.version) \in events => case.reviewer = "techflow:auto"
KeyIsOfATurn == case.key \in {NoTag} \cup {PostKey(p) : p \in turns}
SourceRecorded == case.kbPost # NoPost => KnowledgeTag(case.kbSource) \in events
RowInv == DraftOnRecord /\ AnswersRecorded /\ KeyIsOfATurn /\ SourceRecorded

CaseInv == TypeInv /\ AnswerInv /\ SoloInv /\ OneVersionPerPost

LEMMA InitRow == Init => RowInv
BY DEF Init, RowInv, DraftOnRecord, AnswersRecorded, KeyIsOfATurn, SourceRecorded, NoCase, Idle,
       AnswerStep, NoPost

(* What each transaction notes: the answer of a version only when it was   *)
(* published.                                                              *)
LEMMA EventsAdded ==
    ASSUME NEW h \in Handlers, StoreStep(h)
    PROVE  /\ events \subseteq events'
           /\ \A n : AnswerTag(n) \in events' \ events =>
                        MarkAnswer(h) /\ AnswerTag(n) = AnswerTag(handler[h].row.version)
<1>1. ASSUME RecordTurn(h) \/ CreateCase(h) PROVE events' \in {events, events \cup {PostKey(handler[h].ev.id)}}
    BY <1>1 DEF RecordTurn, CreateCase, store
<1>2. ASSUME MarkAnswer(h) PROVE events' \in {events, events \cup {AnswerTag(handler[h].row.version)}}
    BY <1>2 DEF MarkAnswer, store
<1>3. ASSUME MarkKnowledge(h)
      PROVE  events' \in {events, events \cup {KnowledgeTag(handler[h].row.resolvedPost)}}
    BY <1>3 DEF MarkKnowledge, store
<1>4. ASSUME MarkSolution(h)
      PROVE  events' \in {events, events \cup {SolutionKey(handler[h].row.kbPost)}}
    BY <1>4 DEF MarkSolution, store
<1>5. ASSUME SyncResolution(h)
      PROVE  \E k \in {<<"verified", handler[h].ev.id>>, <<"unset", 0>>,
                       <<"resolution", handler[h].ev.id>>} :
                events' \in {events, events \cup {k}}
    BY <1>5, SyncCases DEF SyncKey, ResolutionKey
<1> QED BY <1>1, <1>2, <1>3, <1>4, <1>5
        DEF StoreStep, AnswerTag, PostKey, KnowledgeTag, SolutionKey

(* The draft and the key are CreateCase's; a mark writes the draft held.   *)
LEMMA DraftColumns ==
    ASSUME TypeInv, NEW h \in Handlers
    PROVE  /\ \/ RecordTurn(h) \/ SyncResolution(h) \/ MarkKnowledge(h) \/ MarkSolution(h)
              => case'.draft = case.draft /\ case'.key = case.key
           /\ MarkAnswer(h) => /\ case'.key = case.key
                               /\ case'.draft \in {case.draft, handler[h].row.draft}
<1>0. case \in CaseRow
    BY DEF TypeInv, TypeOK
<1>1. CASE RecordTurn(h)
    BY <1>0, <1>1 DEF RecordTurn, WithoutResolution, store, CaseRow
<1>2. CASE SyncResolution(h)
    <2>1. case' = case \/ case' = SyncRow(h)
        BY <1>2, SyncCases
    <2>2. SyncRow(h).draft = case.draft /\ SyncRow(h).key = case.key
        BY <1>0 DEF SyncRow, Resolution, Confirmed, Resolved, UnderReview, Reopened,
                    WithoutResolution, CaseRow
    <2> QED BY <2>1, <2>2
<1>3. CASE MarkKnowledge(h) \/ MarkSolution(h)
    BY <1>0, <1>3 DEF MarkKnowledge, MarkSolution, store, CaseRow
<1>4. MarkAnswer(h) => /\ case'.key = case.key
                       /\ case'.draft \in {case.draft, handler[h].row.draft}
    BY <1>0 DEF MarkAnswer, Published, store, CaseRow
<1> QED BY <1>1, <1>2, <1>3, <1>4

(* The requests that go on to publish hold the draft on record.            *)
LEMMA DraftHeld ==
    ASSUME TypeInv, Solo, RowInv, NEW h \in Handlers, HandlePost(h) \/ HandleResolution(h) \/ Fail(h)
    PROVE  handler'[h].pc \in AnswerStep => handler'[h].row.draft = case'.draft
<1>1. CASE \/ RecordTurn(h) \/ MarkAnswer(h) \/ Fail(h) \/ HandleResolution(h)
    BY <1>1, Leaving DEF Leaves
<1>2. ASSUME NEW p \in 1..Len(forum), ReceivePost(h, p)
      PROVE  handler'[h].pc \in AnswerStep => handler'[h].row.draft = case'.draft
    <2>1. UNCHANGED case
        BY <1>2 DEF ReceivePost, store
    <2>2. CASE Leaves(h)
        BY <2>2 DEF Leaves
    <2>3. CASE Goto(h, "lookupAnswer", AnswerPart(case), NoPost)
        <3>1. PICK row : row = AnswerPart(case)
            OBVIOUS
        <3>2. row.draft = case.draft
            BY <3>1 DEF AnswerPart, NoCase
        <3>3. handler'[h].row = row
            BY <2>3, <3>1, GotoHolds
        <3> QED BY <2>1, <3>2, <3>3
    <2>4. ASSUME NEW ev, Begin(h, "record", ev) \/ Begin(h, "create", ev) PROVE Leaves(h)
        BY <2>4, BeginHolds DEF Leaves, AnswerStep
    <2> QED BY <1>2, <2>2, <2>3, <2>4, EndLeaves DEF ReceivePost
<1>3. CASE CreateCase(h)
    <2>1. PICK row : Goto(h, "lookupAnswer", row, NoPost) /\ row.draft = case'.draft
        <3>1. \A r : AnswerPart(r).draft = r.draft
            BY DEF AnswerPart, NoCase
        <3> QED BY <1>3, <3>1 DEF CreateCase, store
    <2>2. handler'[h].row = row
        BY <2>1, GotoHolds
    <2> QED BY <2>1, <2>2
<1>4. CASE LookupAnswer(h) \/ PostAnswer(h)
    <2>1. PICK pc, row : row = handler[h].row /\ handler[h].pc \in AnswerStep /\ UNCHANGED case
                         /\ \E pub : Goto(h, pc, row, pub)
        BY <1>4 DEF LookupAnswer, PostAnswer, LookupMarker, WriteMarked, At, AnswerStep, store
    <2>2. handler'[h].row = row
        BY <2>1, GotoHolds
    <2> QED BY <2>1, <2>2 DEF RowInv, DraftOnRecord
<1> QED BY <1>1, <1>2, <1>3, <1>4 DEF HandlePost

(* A new version answers its own post.                                     *)
LEMMA CreateRow ==
    ASSUME CaseInv, Solo, RowInv, NEW h \in Handlers, CreateCase(h) PROVE RowInv'
<1> DEFINE p == handler[h].ev.id
<1>0. /\ case \in CaseRow /\ case.version \in Nat /\ p \in Nat
      /\ responses \in Seq([post : Nat, answer : Nat]) /\ Len(responses) = case.version
      /\ \A g \in Handlers : g = h
    BY DEF CaseInv, TypeInv, TypeOK, CaseRow, Request, OneVersionPerPost, Solo
<1>1. handler'[h].pc \in AnswerStep => handler'[h].row.draft = case'.draft
    BY DraftHeld DEF HandlePost, CaseInv
<1>2. events \subseteq events' /\ \A n : AnswerTag(n) \in events' => AnswerTag(n) \in events
    <2>1. ~MarkAnswer(h)
        BY DEF CreateCase, MarkAnswer, At
    <2> QED BY <2>1, EventsAdded DEF StoreStep
<1>3. CASE UNCHANGED <<case, turns, responses>>
    BY <1>0, <1>1, <1>2, <1>3 DEF RowInv, DraftOnRecord, AnswersRecorded, KeyIsOfATurn,
       SourceRecorded, AnswerTag, PostKey, KnowledgeTag
<1>4. CASE /\ case' = IF case.version = 0 THEN NewCase(p) ELSE FollowUp(p)
           /\ turns' = turns \cup {p}
           /\ responses' = Append(responses, [post |-> p, answer |-> p])
    <2>1. case'.draft = p /\ case'.key = PostKey(p) /\ case'.version = case.version + 1
        <3>1. CASE case.version = 0
            BY <1>0, <1>4, <3>1 DEF NewCase, NoCase
        <3>2. CASE case.version # 0
            <4>1. WithoutResolution(case) \in CaseRow /\ WithoutResolution(case).version = case.version
                BY <1>0, WithoutResolutionTyped DEF WithoutResolution, CaseRow
            <4> QED BY <1>0, <1>4, <3>2, <4>1 DEF FollowUp, CaseRow
        <3> QED BY <3>1, <3>2
    <2>2. responses'[case.version + 1] = [post |-> p, answer |-> p]
        <3>1. [post |-> p, answer |-> p] \in [post : Nat, answer : Nat]
            BY <1>0
        <3> QED BY <1>0, <1>4, <3>1, AppendProperties
    <2>3. DraftOnRecord'
        BY <1>0, <1>1, <2>1, <2>2 DEF DraftOnRecord
    <2>4. AnswersRecorded'
        <3>1. PICK v \in Nat : v = case.version
            BY <1>0
        <3>2. \A n \in Nat : AnswerTag(n) \in events' => n <= v
            BY <1>2, <3>1 DEF RowInv, AnswersRecorded
        <3>3. v + 1 \in Nat /\ ~(v + 1 <= v)
            BY <3>1
        <3>4. AnswerTag(v + 1) \notin events'
            BY <3>2, <3>3
        <3>5. AnswerTag(case.version)' = AnswerTag(v + 1)
            BY <2>1, <3>1 DEF AnswerTag
        <3>6. \A n \in Nat : AnswerTag(n)' \in events' => n <= v + 1
            BY <3>1, <3>2 DEF AnswerTag
        <3> QED BY <2>1, <3>1, <3>4, <3>5, <3>6 DEF AnswersRecorded
    <2>5. KeyIsOfATurn'
        BY <1>4, <2>1 DEF KeyIsOfATurn
    <2>6. SourceRecorded'
        BY <1>2, KnowledgeColumns DEF CaseInv, RowInv, SourceRecorded, KnowledgeKept, KnowledgeTag
    <2> QED BY <2>3, <2>4, <2>5, <2>6 DEF RowInv
<1> QED BY <1>3, <1>4 DEF CreateCase, store

(* One request at a time marks the answer of the version it drafted.       *)
LEMMA MarkHolds ==
    ASSUME CaseInv, RowInv, NEW h \in Handlers, MarkAnswer(h)
    PROVE  LET r == handler[h].row IN
           /\ r.version = case.version /\ r.draft = case.draft
           /\ case.version \in 1..Len(responses) /\ Len(responses) = case.version
           /\ responses[case.version].answer = case.draft
<1>1. /\ handler[h].pc = "markAnswer" /\ handler[h].row.version = case.version
      /\ handler[h].row.draft = case.draft /\ handler[h].row.version \in 1..case.version
    BY DEF MarkAnswer, At, CaseInv, SoloInv, HoldsLast, AnswerStep, AnswerInv, Holds, RowInv,
           DraftOnRecord
<1>2. case.version \in Nat /\ Len(responses) = case.version
    BY DEF CaseInv, TypeInv, TypeOK, CaseRow, OneVersionPerPost
<1> QED BY <1>1, <1>2 DEF RowInv, DraftOnRecord

(* The response that takes an answer it has stays as it is.                *)
LEMMA AnsweredAgain ==
    ASSUME responses \in Seq([post : Nat, answer : Nat]), NEW a \in Nat,
           case.version \in 1..Len(responses)
    PROVE  /\ Answered(a)[case.version].answer = a
           /\ responses[case.version].answer = a => Answered(a) = responses
<1> DEFINE S == [post : Nat, answer : Nat]
           e == [responses[case.version] EXCEPT !.answer = a]
<1>1. responses[case.version] \in S
    BY ElementTyped
<1>2. e \in S /\ e.answer = a /\ (responses[case.version].answer = a => e = responses[case.version])
    BY <1>1
<1>3. Answered(a) = [responses EXCEPT ![case.version] = e]
    BY DEF Answered
<1>4. responses = [i \in 1..Len(responses) |-> responses[i]]
    OBVIOUS
<1> HIDE DEF S, e
<1>5. Answered(a)[case.version] = e
    BY <1>3, <1>4
<1>6. ASSUME e = responses[case.version] PROVE Answered(a) = responses
    BY <1>3, <1>4, <1>6
<1> QED BY <1>2, <1>5, <1>6

LEMMA MarkAnswerRow ==
    ASSUME CaseInv, Solo, RowInv, NEW h \in Handlers, MarkAnswer(h) PROVE RowInv'
<1>0. /\ case \in CaseRow /\ case.version \in Nat /\ case.draft \in Nat
      /\ responses \in Seq([post : Nat, answer : Nat])
      /\ \A g \in Handlers : g = h
    BY DEF CaseInv, TypeInv, TypeOK, CaseRow, Solo
<1>1. PICK r : r = handler[h].row
    OBVIOUS
<1>2. /\ r.version = case.version /\ r.draft = case.draft
      /\ case.version \in 1..Len(responses) /\ responses[case.version].answer = case.draft
    BY <1>1, MarkHolds
<1>3. UNCHANGED turns /\ case'.version = case.version /\ case'.draft = case.draft
      /\ case'.key = case.key
    BY <1>1, <1>2, MarksAnswer, DraftColumns DEF CaseInv
<1>4. responses' = responses
    BY <1>0, <1>1, <1>2, AnsweredAgain, MarksAnswer DEF CaseInv
<1>5. DraftOnRecord'
    <2>1. handler'[h].pc \in AnswerStep => handler'[h].row.draft = case'.draft
        BY DraftHeld DEF HandlePost, CaseInv
    <2> QED BY <1>0, <1>2, <1>3, <1>4, <2>1 DEF DraftOnRecord
<1>6. events \subseteq events' /\ \A n : AnswerTag(n) \in events' \ events => AnswerTag(n) = AnswerTag(r.version)
    BY <1>1, EventsAdded DEF StoreStep
<1>7. AnswersRecorded'
    <2>1. \A n \in Nat : AnswerTag(n) \in events' => n <= case.version
        BY <1>0, <1>2, <1>6 DEF RowInv, AnswersRecorded, AnswerTag
    <2>2. AnswerTag(case.version) \in events' => case'.reviewer = "techflow:auto"
        <3>1. CASE AnswerTag(case.version) \in events
            BY <3>1, MarksAnswer DEF RowInv, AnswersRecorded, CaseInv, Kept
        <3>2. CASE case' = Published(r.draft, handler[h].pub)
            BY <1>0, <3>2 DEF Published, CaseRow
        <3>3. CASE UNCHANGED events
            BY <3>1, <3>3
        <3> QED BY <1>1, <1>2, <3>1, <3>2, <3>3 DEF MarkAnswer, store
    <2>3. AnswerTag(case.version)' = AnswerTag(case.version)
        BY <1>3 DEF AnswerTag
    <2> QED BY <1>3, <2>1, <2>2, <2>3 DEF AnswersRecorded, AnswerTag
<1>8. KeyIsOfATurn'
    BY <1>3 DEF RowInv, KeyIsOfATurn, PostKey
<1>9. SourceRecorded'
    BY <1>6, KnowledgeColumns DEF CaseInv, RowInv, SourceRecorded, KnowledgeKept, KnowledgeTag
<1> QED BY <1>5, <1>7, <1>8, <1>9 DEF RowInv

LEMMA OthersRow ==
    ASSUME CaseInv, Solo, RowInv, NEW h \in Handlers,
           RecordTurn(h) \/ SyncResolution(h) \/ MarkKnowledge(h) \/ MarkSolution(h)
    PROVE  RowInv'
<1>0. case \in CaseRow /\ \A g \in Handlers : g = h
    BY DEF CaseInv, TypeInv, TypeOK, Solo
<1>1. /\ Kept(case') /\ UNCHANGED responses /\ turns \subseteq turns'
      /\ case'.draft = case.draft /\ case'.key = case.key
    BY OthersKeep, DraftColumns DEF CaseInv
<1>2. events \subseteq events' /\ \A n : AnswerTag(n) \in events' => AnswerTag(n) \in events
    <2>1. ~MarkAnswer(h)
        BY SyncCases DEF RecordTurn, MarkKnowledge, MarkSolution, MarkAnswer, At
    <2> QED BY <2>1, EventsAdded DEF StoreStep
<1>3. DraftOnRecord'
    <2>1. handler'[h].pc \in AnswerStep => handler'[h].row.draft = case'.draft
        BY DraftHeld DEF HandlePost, HandleResolution, CaseInv
    <2> QED BY <1>0, <1>1, <2>1 DEF RowInv, DraftOnRecord, Kept
<1>4. AnswersRecorded'
    BY <1>1, <1>2 DEF RowInv, AnswersRecorded, AnswerTag, Kept
<1>5. KeyIsOfATurn'
    BY <1>1 DEF RowInv, KeyIsOfATurn, PostKey
<1>6. SourceRecorded'
    <2>1. CASE KnowledgeKept(case')
        BY <1>2, <2>1 DEF RowInv, SourceRecorded, KnowledgeKept, KnowledgeTag
    <2>2. CASE MarkKnowledge(h) /\ case' # case
        <3>1. PICK r : r = handler[h].row
            OBVIOUS
        <3>2. r.resolvedPost = case.resolvedPost
            BY <2>2, <3>1 DEF MarkKnowledge, At, CaseInv, SoloInv, HoldsLast, KnowledgeStep
        <3>3. case'.kbSource = case.resolvedPost /\ KnowledgeTag(r.resolvedPost) \in events'
            BY <1>0, <2>2, <3>1 DEF MarkKnowledge, store, CaseRow
        <3> QED BY <3>2, <3>3 DEF SourceRecorded, KnowledgeTag
    <2>3. CASE case' = case
        BY <2>1, <2>3 DEF KnowledgeKept
    <2> QED BY <2>1, <2>2, <2>3, KnowledgeColumns DEF CaseInv
<1> QED BY <1>3, <1>4, <1>5, <1>6 DEF RowInv

LEMMA RowStep ==
    ASSUME CaseInv, Solo, RowInv, [Next]_vars PROVE RowInv'
<1>1. CASE \E h \in Handlers : StoreStep(h)
    BY <1>1, CreateRow, MarkAnswerRow, OthersRow DEF StoreStep
<1>2. CASE UNCHANGED <<case, turns, responses, events>>
    <2>1. ASSUME NEW h \in Handlers, handler'[h].pc \in AnswerStep
          PROVE  handler'[h].row.draft = case'.draft
        <3>1. CASE UNCHANGED handler
            BY <1>2, <2>1, <3>1 DEF RowInv, DraftOnRecord
        <3>2. CASE UNCHANGED vars \/ Forum
            BY <3>1, <3>2 DEF vars, Forum, HumanPost, SelectBest
        <3> QED BY <2>1, <3>2, DraftHeld DEF Next, Solo, CaseInv
    <2> QED BY <1>2, <2>1 DEF RowInv, DraftOnRecord, AnswersRecorded, KeyIsOfATurn, SourceRecorded,
       AnswerTag, PostKey, KnowledgeTag
<1> QED BY <1>1, <1>2, StoreSteps

(* What the tests' store holds: the case but for its key, and an answer to *)
(* every event that the deployed store notes of a resolution.              *)
Bare(row) == [row EXCEPT !.key = NoTag]
NotedTwice == {"resolution", "verified", "unset", "kb"}
Held(answers) ==
    [case |-> Bare(case), turns |-> turns, responses |-> responses, answers |-> answers]
HeldInv ==
    ~parted => /\ memory = Held(memory.answers)
               /\ \A k \in events : k[1] \in NotedTwice => \E a \in memory.answers : a.key = k

(* A row with the columns of another is that row but for the key.          *)
Agree(r, s) ==
    /\ r.version = s.version /\ r.state = s.state /\ r.conversation = s.conversation
    /\ r.draft = s.draft /\ r.reviewer = s.reviewer /\ r.publishedPost = s.publishedPost
    /\ r.lastSeen = s.lastSeen /\ r.resolvedPost = s.resolvedPost /\ r.kbPost = s.kbPost
    /\ r.kbSource = s.kbSource /\ r.kbSelected = s.kbSelected
LEMMA SameRow ==
    ASSUME NEW r \in CaseRow, NEW s \in CaseRow, r.key = NoTag, Agree(r, s)
    PROVE  r = Bare(s)
BY ConstantsTyped DEF CaseRow, Agree, Bare

LEMMA BareTyped ==
    ASSUME NEW r \in CaseRow PROVE Bare(r) \in CaseRow /\ Bare(r).key = NoTag /\ Agree(Bare(r), r)
BY ConstantsTyped DEF CaseRow, Agree, Bare

LEMMA InitHeld == TwinInit => HeldInv
<1> SUFFICES ASSUME TwinInit PROVE HeldInv
    OBVIOUS
<1>1. Bare(NoCase) = NoCase
    BY ConstantsTyped, SameRow DEF NoCase, Agree
<1>2. /\ case = NoCase /\ turns = {} /\ responses = <<>> /\ events = {}
      /\ memory = [case |-> NoCase, turns |-> {}, responses |-> <<>>, answers |-> {}]
    BY DEF TwinInit, Init, EmptyMemory
<1>3. memory.answers = {}
    BY <1>2
<1>4. memory = Held(memory.answers)
    BY <1>1, <1>2, <1>3 DEF Held
<1> QED BY <1>2, <1>4 DEF HeldInv

LEMMA WithoutResolutionInTyped ==
    ASSUME NEW r \in CaseRow
    PROVE  /\ WithoutResolutionIn(r) \in CaseRow /\ WithoutResolutionIn(r).key = r.key
           /\ Agree(WithoutResolutionIn(r), WithoutResolution(r))
BY DEF WithoutResolutionIn, WithoutResolution, CaseRow, NoPost, Agree

(* The invariant after a call that both answered.                          *)
LEMMA HeldAfter ==
    ASSUME NEW A, NEW row \in CaseRow, case' \in CaseRow, row.key = NoTag, Agree(row, case'),
           memory' = [case |-> row, turns |-> turns', responses |-> responses', answers |-> A],
           \A k \in events' : k[1] \in NotedTwice => \E a \in A : a.key = k
    PROVE  HeldInv'
<1>1. row = Bare(case')
    BY SameRow
<1>2. Bare(case)' = Bare(case')
    BY DEF Bare
<1> QED BY <1>1, <1>2 DEF HeldInv, Held

(* And after one that changed nothing.                                     *)
LEMMA HeldStays ==
    ASSUME HeldInv, ~parted, UNCHANGED <<memory, case, turns, responses>>,
           \A k \in events' : k \in events \/ k[1] \notin NotedTwice
                              \/ \E a \in memory.answers : a.key = k
    PROVE  HeldInv'
BY DEF HeldInv, Held, Bare

(* record_community_turn.                                                  *)
LEMMA RecordHeld ==
    ASSUME CaseInv, CaseInv', HeldInv, ~parted, NEW h \in Handlers, RecordTurn(h),
           memory' = RecordTurnIn(handler[h].ev.id)
    PROVE  HeldInv'
<1> DEFINE p == handler[h].ev.id
<1>0. case \in CaseRow /\ case' \in CaseRow /\ p \in Nat
    BY DEF CaseInv, TypeInv, TypeOK, Request
<1>1. PICK A, B : /\ A = memory.answers /\ B = Bare(case)
                  /\ memory = [case |-> B, turns |-> turns, responses |-> responses, answers |-> A]
                  /\ \A k \in events : k[1] \in NotedTwice => \E a \in A : a.key = k
    BY DEF HeldInv, Held
<1>2. B \in CaseRow /\ B.key = NoTag /\ Agree(B, case)
    BY <1>0, <1>1, BareTyped
<1>3. CASE UNCHANGED store /\ (case.version = 0 \/ p \in turns)
    <2>1. memory' = memory
        BY <1>1, <1>2, <1>3 DEF RecordTurnIn, Agree
    <2> QED BY <1>3, <2>1, HeldStays DEF store
<1>4. CASE case.version > 0 /\ p \notin turns
    <2>1. /\ turns' = turns \cup {p} /\ UNCHANGED responses
          /\ events' = events \cup {PostKey(p)}
        BY <1>4 DEF RecordTurn
    <2>2. \A k \in events' : k[1] \in NotedTwice => \E a \in A : a.key = k
        BY <1>1, <2>1 DEF PostKey, NotedTwice
    <2>3. PICK row : row = [(IF B.conversation = "RESOLVED" /\ forum[p].reason = "REQUESTER_AUTO"
                             THEN [WithoutResolutionIn(B) EXCEPT !.conversation = "ANALYZING"]
                             ELSE B) EXCEPT !.lastSeen = p]
        OBVIOUS
    <2>4. memory' = [case |-> row, turns |-> turns', responses |-> responses', answers |-> A]
        <3>1. memory.case = B /\ memory.turns = turns
            BY <1>1
        <3>2. ~(B.version = 0 \/ p \in turns)
            BY <1>0, <1>2, <1>4 DEF Agree, CaseRow
        <3>3. memory' = [memory EXCEPT !.case = row, !.turns = turns \cup {p}]
            BY <2>3, <3>1, <3>2 DEF RecordTurnIn
        <3>4. PICK m : m = [memory EXCEPT !.case = row]
            OBVIOUS
        <3>5. m = [case |-> row, turns |-> turns, responses |-> responses, answers |-> A]
            BY <1>1, <3>4
        <3>6. PICK T : T = turns'
            OBVIOUS
        <3>7. memory' = [m EXCEPT !.turns = T]
            BY <2>1, <3>3, <3>4, <3>6
        <3>8. memory' = [case |-> row, turns |-> T, responses |-> responses, answers |-> A]
            BY <3>5, <3>7
        <3> QED BY <2>1, <3>6, <3>8
    <2>5. row \in CaseRow /\ row.key = NoTag
        BY ZenonT(30), <1>0, <1>2, <2>3, WithoutResolutionInTyped DEF CaseRow
    <2>6. Agree(row, case')
        <3>1. B.conversation = case.conversation
            BY <1>2 DEF Agree
        <3>2. CASE case.conversation = "RESOLVED" /\ forum[p].reason = "REQUESTER_AUTO"
            <4>1. row = [[WithoutResolutionIn(B) EXCEPT !.conversation = "ANALYZING"] EXCEPT !.lastSeen = p]
                BY <2>3, <3>1, <3>2
            <4>2. case' = [WithoutResolution([case EXCEPT !.lastSeen = p])
                             EXCEPT !.conversation = "ANALYZING"]
                BY <1>4, <3>2 DEF RecordTurn
            <4> QED BY <1>0, <1>2, <4>1, <4>2 DEF WithoutResolutionIn, WithoutResolution, CaseRow, Agree
        <3>3. CASE ~(case.conversation = "RESOLVED" /\ forum[p].reason = "REQUESTER_AUTO")
            <4>1. row = [B EXCEPT !.lastSeen = p]
                BY <2>3, <3>1, <3>3
            <4>2. case' = [case EXCEPT !.lastSeen = p]
                BY <1>4, <3>3 DEF RecordTurn
            <4> QED BY <1>0, <1>2, <4>1, <4>2 DEF CaseRow, Agree
        <3> QED BY <3>2, <3>3
    <2> QED BY <1>0, <2>2, <2>4, <2>5, <2>6, HeldAfter
<1> QED BY <1>0, <1>3, <1>4 DEF RecordTurn, CaseRow

(* create_community_case: the two know the same posts, and the columns of  *)
(* a first and of a later version come out alike.                          *)
LEMMA CreateHeld ==
    ASSUME CaseInv, CaseInv', RowInv, HeldInv, ~parted, NEW h \in Handlers, CreateCase(h),
           memory' = CreateCaseIn(handler[h].ev.id)
    PROVE  HeldInv'
<1>0. PICK p \in Nat : p = handler[h].ev.id
    BY DEF CaseInv, TypeInv, TypeOK, Request
<1>1. PICK A, B : /\ A = memory.answers /\ B = Bare(case)
                  /\ memory = [case |-> B, turns |-> turns, responses |-> responses, answers |-> A]
                  /\ \A k \in events : k[1] \in NotedTwice => \E a \in A : a.key = k
    BY DEF HeldInv, Held
<1>2. B \in CaseRow /\ B.key = NoTag /\ Agree(B, case) /\ case' \in CaseRow
    BY <1>1, BareTyped DEF CaseInv, TypeInv, TypeOK
<1>3. Known(p) <=> p \in turns
    BY DEF Known, RowInv, KeyIsOfATurn, PostKey, NoTag
<1>4. CASE p \in turns
    <2>1. memory' = memory
        BY <1>0, <1>1, <1>4 DEF CreateCaseIn
    <2>2. UNCHANGED store
        BY <1>0, <1>3, <1>4 DEF CreateCase
    <2> QED BY <2>1, <2>2, HeldStays DEF store
<1>5. CASE p \notin turns
    <2>1. PICK kept : kept = IF B.conversation = "RESOLVED" THEN WithoutResolutionIn(B) ELSE B
        OBVIOUS
    <2>2. PICK b : b = [kept EXCEPT !.version = @ + 1, !.state = "DRAFT_PENDING",
                                    !.conversation = "ANALYZING", !.draft = p,
                                    !.reviewer = "NULL", !.publishedPost = NoPost,
                                    !.lastSeen = p]
        OBVIOUS
    <2>3. PICK e : e = [post |-> p, answer |-> p]
        OBVIOUS
    <2>4. /\ case' = IF case.version = 0 THEN NewCase(p) ELSE FollowUp(p)
          /\ turns' = turns \cup {p} /\ responses' = Append(responses, e)
          /\ events' \in {events, events \cup {PostKey(p)}}
        BY <1>0, <1>3, <1>5, <2>3 DEF CreateCase
    <2>5. PICK new : new = IF case.version = 0 THEN NewCase(p) ELSE FollowUp(p)
        OBVIOUS
    <2>6. b \in CaseRow /\ b.key = NoTag /\ Agree(b, new)
        <3>0. case \in CaseRow /\ B.version \in Nat /\ B.conversation = case.conversation
            <4>1. case \in CaseRow
                BY DEF CaseInv, TypeInv, TypeOK
            <4>2. B.version \in Nat
                BY <1>2 DEF CaseRow
            <4> QED BY <1>2, <4>1, <4>2 DEF Agree
        <3>1. kept \in CaseRow /\ kept.key = NoTag /\ kept.version = B.version
            BY <1>2, <2>1, WithoutResolutionInTyped DEF WithoutResolutionIn, CaseRow
        <3>2. PICK v \in Nat : v = B.version + 1
            BY <3>0
        <3>3. b = [kept EXCEPT !.version = v, !.state = "DRAFT_PENDING", !.conversation = "ANALYZING",
                               !.draft = p, !.reviewer = "NULL", !.publishedPost = NoPost, !.lastSeen = p]
            BY <2>2, <3>1, <3>2
        <3>4. NoPost \in Nat
            BY DEF NoPost
        <3>5. b \in CaseRow /\ b.key = NoTag
            BY <3>1, <3>3, <3>4 DEF CaseRow
        <3>6. CASE case.version = 0
            <4>1. case = NoCase /\ new = NewCase(p)
                BY <2>5, <3>6 DEF CaseInv, AnswerInv, EmptyBefore
            <4>2. B.conversation = "ANALYZING"
                BY <3>0, <4>1 DEF NoCase
            <4>3. kept = B
                BY <2>1, <4>2
            <4>4. v = 1
                BY <1>2, <3>0, <3>2, <3>6 DEF Agree
            <4>5. b = [B EXCEPT !.version = 1, !.state = "DRAFT_PENDING", !.conversation = "ANALYZING",
                                !.draft = p, !.reviewer = "NULL", !.publishedPost = NoPost, !.lastSeen = p]
                BY <3>3, <4>3, <4>4
            <4>6. /\ B.resolvedPost = NoPost /\ B.kbPost = NoPost /\ B.kbSource = NoPost
                  /\ B.kbSelected = FALSE
                BY <1>2, <4>1 DEF NoCase, Agree
            <4>7. /\ new.version = 1 /\ new.state = "DRAFT_PENDING" /\ new.conversation = "ANALYZING"
                  /\ new.draft = p /\ new.reviewer = "NULL" /\ new.publishedPost = NoPost
                  /\ new.lastSeen = p /\ new.resolvedPost = NoPost /\ new.kbPost = NoPost
                  /\ new.kbSource = NoPost /\ new.kbSelected = FALSE
                BY <4>1 DEF NewCase, NoCase
            <4> QED BY <1>2, <4>5, <4>6, <4>7 DEF Agree, CaseRow
        <3>7. CASE case.version # 0
            <4>1. PICK old : old = IF case.conversation = "RESOLVED" THEN WithoutResolution(case) ELSE case
                OBVIOUS
            <4>2. old \in CaseRow /\ Agree(kept, old)
                <5>1. CASE case.conversation = "RESOLVED"
                    <6>1. old = WithoutResolution(case) /\ kept = WithoutResolutionIn(B)
                        BY <2>1, <3>0, <4>1, <5>1
                    <6> QED BY ZenonT(30), <1>2, <3>0, <6>1, WithoutResolutionTyped
                            DEF WithoutResolutionIn, WithoutResolution, CaseRow, Agree
                <5>2. CASE case.conversation # "RESOLVED"
                    BY <1>2, <2>1, <3>0, <4>1, <5>2
                <5> QED BY <5>1, <5>2
            <4>3. new = [old EXCEPT !.state = "DRAFT_PENDING", !.conversation = "ANALYZING",
                            !.version = @ + 1, !.draft = p, !.reviewer = "NULL",
                            !.publishedPost = NoPost, !.lastSeen = p, !.key = PostKey(p)]
                BY <2>5, <3>7, <4>1 DEF FollowUp
            <4>4. old.version + 1 = v
                BY <3>1, <3>2, <4>2 DEF Agree
            <4>5. new = [old EXCEPT !.state = "DRAFT_PENDING", !.conversation = "ANALYZING",
                            !.version = v, !.draft = p, !.reviewer = "NULL",
                            !.publishedPost = NoPost, !.lastSeen = p, !.key = PostKey(p)]
                BY <4>3, <4>4
            <4>6. /\ new.version = v /\ new.state = "DRAFT_PENDING"
                  /\ new.conversation = "ANALYZING" /\ new.draft = p /\ new.reviewer = "NULL"
                  /\ new.publishedPost = NoPost /\ new.lastSeen = p
                  /\ new.resolvedPost = old.resolvedPost /\ new.kbPost = old.kbPost
                  /\ new.kbSource = old.kbSource /\ new.kbSelected = old.kbSelected
                BY <4>2, <4>5 DEF CaseRow
            <4>7. Agree(b, new)
                BY <3>1, <3>3, <4>2, <4>6 DEF Agree, CaseRow
            <4> QED BY <3>5, <4>7
        <3> QED BY <3>5, <3>6, <3>7
    <2>7. memory' = [case |-> b, turns |-> turns', responses |-> responses', answers |-> A]
        <3>1. memory.case = B /\ memory.turns = turns /\ memory.responses = responses
            BY <1>1
        <3>2. PICK T, R : T = turns' /\ R = responses'
            OBVIOUS
        <3>3. memory' = [memory EXCEPT !.case = b, !.turns = T, !.responses = R]
            BY <1>0, <1>5, <2>1, <2>2, <2>3, <2>4, <3>1, <3>2 DEF CreateCaseIn
        <3>4. PICK m : m = [memory EXCEPT !.case = b]
            OBVIOUS
        <3>5. m = [case |-> b, turns |-> turns, responses |-> responses, answers |-> A]
            BY <1>1, <3>4
        <3>6. PICK n : n = [m EXCEPT !.turns = T]
            OBVIOUS
        <3>7. n = [case |-> b, turns |-> T, responses |-> responses, answers |-> A]
            BY <3>5, <3>6
        <3>8. memory' = [n EXCEPT !.responses = R]
            BY <3>3, <3>4, <3>6
        <3>9. memory' = [case |-> b, turns |-> T, responses |-> R, answers |-> A]
            BY <3>7, <3>8
        <3> QED BY <3>2, <3>9
    <2>8. \A k \in events' : k[1] \in NotedTwice => \E a \in A : a.key = k
        BY <1>1, <2>4 DEF PostKey, NotedTwice
    <2> QED BY <1>2, <2>4, <2>5, <2>6, <2>7, <2>8, HeldAfter
<1> QED BY <1>4, <1>5

(* mark_community_auto_published: where the deployed store knows the event *)
(* the other finds the answer published, or may not publish it again.      *)
LEMMA MarkAnswerHeld ==
    ASSUME CaseInv, CaseInv', RowInv, HeldInv, ~parted, NEW h \in Handlers, MarkAnswer(h),
           memory' = MarkAnswerIn(handler[h].row.draft, handler[h].pub)
    PROVE  HeldInv'
<1>0. /\ case \in CaseRow /\ case' \in CaseRow /\ case.draft \in Nat
      /\ responses \in Seq([post : Nat, answer : Nat])
    BY DEF CaseInv, TypeInv, TypeOK, CaseRow
<1>1. PICK A, B : /\ A = memory.answers /\ B = Bare(case)
                  /\ memory = [case |-> B, turns |-> turns, responses |-> responses, answers |-> A]
                  /\ \A k \in events : k[1] \in NotedTwice => \E a \in A : a.key = k
    BY DEF HeldInv, Held
<1>2. B \in CaseRow /\ B.key = NoTag /\ Agree(B, case)
    BY <1>0, <1>1, BareTyped
<1>3. PICK d, post : d = handler[h].row.draft /\ post = handler[h].pub
    OBVIOUS
<1>4. /\ d = case.draft /\ handler[h].row.version = case.version
      /\ case.version \in 1..Len(responses) /\ Len(responses) = case.version
      /\ responses[case.version].answer = d
    BY <1>3, MarkHolds
<1>5. PICK R : R = Answered(d)
    OBVIOUS
<1>6. R = responses
    BY <1>0, <1>4, <1>5, AnsweredAgain
<1>7. ASSUME NEW b, [memory EXCEPT !.case = b,
                              !.responses[Len(memory.responses)].answer = d] = memory'
      PROVE  memory' = [case |-> b, turns |-> turns, responses |-> responses, answers |-> A]
    <2>1. memory.responses = responses /\ Len(memory.responses) = case.version
        BY <1>1, <1>4
    <2>2. memory' = [memory EXCEPT !.case = b, !.responses = R]
        BY <1>5, <1>7, <2>1 DEF Answered
    <2>3. PICK m : m = [memory EXCEPT !.case = b]
        OBVIOUS
    <2>4. m = [case |-> b, turns |-> turns, responses |-> responses, answers |-> A]
        BY <1>1, <2>3
    <2>5. memory' = [m EXCEPT !.responses = R]
        BY <2>2, <2>3
    <2> QED BY <1>6, <2>4, <2>5
<1>8. CASE B.state = "PUBLISHED" /\ B.publishedPost = post
    <2>1. UNCHANGED store
        BY <1>2, <1>3, <1>4, <1>8 DEF MarkAnswer, Agree
    <2>2. memory' = [memory EXCEPT !.case = [B EXCEPT !.draft = d],
                                   !.responses[Len(memory.responses)].answer = d]
        <3>1. memory.case = B
            BY <1>1
        <3> QED BY <1>3, <1>8, <3>1 DEF MarkAnswerIn
    <2>3. PICK b : b = [B EXCEPT !.draft = d]
        OBVIOUS
    <2>4. b \in CaseRow /\ b.key = NoTag /\ Agree(b, case)
        BY <1>0, <1>2, <1>4, <2>3 DEF CaseRow, Agree
    <2>5. memory' = [case |-> b, turns |-> turns, responses |-> responses, answers |-> A]
        BY <1>7, <2>2, <2>3
    <2> QED BY <1>0, <1>1, <2>1, <2>4, <2>5, HeldAfter DEF store
<1>9. CASE ~(B.state = "PUBLISHED" /\ B.publishedPost = post)
    <2>0. memory.case = B /\ B.state = case.state /\ B.reviewer = case.reviewer
          /\ B.publishedPost = case.publishedPost
        BY <1>1, <1>2 DEF Agree
    <2>1. CASE ~MayAutoPublish
        <3>1. memory' = memory
            BY <1>3, <1>9, <2>0, <2>1 DEF MarkAnswerIn, MayAutoPublish
        <3>2. UNCHANGED store
            BY <1>3, <1>9, <2>0, <2>1 DEF MarkAnswer
        <3> QED BY <3>1, <3>2, HeldStays DEF store
    <2>2. CASE MayAutoPublish
        <3>1. AnswerTag(case.version) \notin events
            BY <2>2 DEF RowInv, AnswersRecorded, MayAutoPublish
        <3>2. /\ case' = Published(d, post) /\ responses' = Answered(d) /\ UNCHANGED turns
              /\ events' = events \cup {AnswerTag(case.version)}
            BY <1>3, <1>4, <1>9, <2>0, <2>2, <3>1 DEF MarkAnswer
        <3>3. PICK b : b = [B EXCEPT !.state = "PUBLISHED", !.reviewer = "techflow:auto",
                                     !.draft = d, !.publishedPost = post,
                                     !.conversation = "WAITING_RESOLUTION"]
            OBVIOUS
        <3>4. memory' = [memory EXCEPT !.case = b,
                                       !.responses[Len(memory.responses)].answer = d]
            BY <1>3, <1>9, <2>0, <2>2, <3>3 DEF MarkAnswerIn, MayAutoPublish
        <3>5. memory' = [case |-> b, turns |-> turns', responses |-> responses', answers |-> A]
            BY <1>5, <1>6, <1>7, <3>2, <3>4
        <3>6. post \in Nat
            BY <1>3 DEF CaseInv, TypeInv, TypeOK, Request
        <3>7. b \in CaseRow /\ b.key = NoTag /\ Agree(b, case')
            BY ZenonT(30), <1>0, <1>2, <1>4, <3>2, <3>3, <3>6 DEF Published, CaseRow, Agree
        <3>8. \A k \in events' : k[1] \in NotedTwice => \E a \in A : a.key = k
            BY <1>1, <3>2 DEF AnswerTag, NotedTwice
        <3> QED BY <1>0, <3>5, <3>7, <3>8, HeldAfter
    <2> QED BY <2>1, <2>2
<1> QED BY <1>8, <1>9

(* sync_community_resolution: the row comes out alike.                     *)
LEMMA ResolutionAgrees ==
    ASSUME case \in CaseRow, NEW B \in CaseRow, memory.case = B, B.key = NoTag, Agree(B, case),
           NEW s \in Selection, NEW admin \in BOOLEAN
    PROVE  /\ ResolutionIn(s, admin) \in CaseRow /\ ResolutionIn(s, admin).key = NoTag
           /\ Agree(ResolutionIn(s, admin), Resolution(s, admin))
<1>0. s.post \in Nat /\ B.kbPost = case.kbPost /\ B.conversation = case.conversation
    BY DEF Selection, Agree
<1>1. PICK b : b = ResolutionIn(s, admin)
    OBVIOUS
<1>2. PICK c : c = Resolution(s, admin)
    OBVIOUS
<1>3. CASE s.post # NoPost /\ s.post = case.kbPost
    <2>1. b = [B EXCEPT !.conversation = "RESOLVED", !.kbSelected = TRUE]
        BY <1>0, <1>1, <1>3 DEF ResolutionIn
    <2>2. c = [case EXCEPT !.conversation = "RESOLVED", !.kbSelected = TRUE]
        BY <1>2, <1>3 DEF Resolution, Confirmed
    <2>3. b \in CaseRow /\ b.key = NoTag
        BY <2>1 DEF CaseRow
    <2>4. Agree(b, c)
        BY <2>1, <2>2 DEF CaseRow, Agree
    <2> QED BY <1>1, <1>2, <2>3, <2>4
<1>4. CASE s.post # NoPost /\ s.post # case.kbPost
    <2>0. PICK conv \in {"RESOLVED", "WAITING_RESOLUTION"} :
              conv = IF s.by = "REQUESTER" \/ admin THEN "RESOLVED" ELSE "WAITING_RESOLUTION"
        OBVIOUS
    <2>1. b = [B EXCEPT !.conversation = conv, !.resolvedPost = s.post, !.kbSelected = FALSE]
        BY <1>0, <1>1, <1>4, <2>0 DEF ResolutionIn
    <2>2. c = [case EXCEPT !.conversation = conv, !.resolvedPost = s.post, !.kbSelected = FALSE]
        BY <1>2, <1>4, <2>0 DEF Resolution, Resolved, UnderReview
    <2>3. b \in CaseRow /\ b.key = NoTag
        BY <1>0, <2>1 DEF CaseRow
    <2>4. Agree(b, c)
        BY <2>1, <2>2 DEF CaseRow, Agree
    <2> QED BY <1>1, <1>2, <2>3, <2>4
<1>5. CASE s.post = NoPost /\ case.conversation = "RESOLVED"
    <2>0. PICK d, e : d = WithoutResolutionIn(B) /\ e = WithoutResolution(case)
        OBVIOUS
    <2>1. b = [d EXCEPT !.conversation = "ANALYZING"]
        BY <1>0, <1>1, <1>5, <2>0 DEF ResolutionIn
    <2>2. c = [e EXCEPT !.conversation = "ANALYZING"]
        BY <1>2, <1>5, <2>0 DEF Resolution, Reopened
    <2>3. d \in CaseRow /\ e \in CaseRow /\ d.key = NoTag
        BY <2>0, WithoutResolutionInTyped, WithoutResolutionTyped
    <2>4. Agree(d, e)
        BY <2>0 DEF WithoutResolutionIn, WithoutResolution, CaseRow, Agree
    <2>5. b \in CaseRow /\ b.key = NoTag
        BY <2>1, <2>3 DEF CaseRow
    <2>6. Agree(b, c)
        BY <2>1, <2>2, <2>3, <2>4 DEF CaseRow, Agree
    <2> QED BY <1>1, <1>2, <2>5, <2>6
<1>6. CASE s.post = NoPost /\ case.conversation # "RESOLVED"
    BY <1>0, <1>6 DEF ResolutionIn, Resolution
<1> QED BY <1>3, <1>4, <1>5, <1>6

(* A call that MemoryStore has not answered yet.                           *)
LEMMA HeldRemembered ==
    ASSUME NEW A, NEW B, NEW m, NEW key, NEW row \in CaseRow, row.key = NoTag,
           case' \in CaseRow, Agree(row, case'), UNCHANGED <<turns, responses>>,
           m = [case |-> row, turns |-> turns, responses |-> responses, answers |-> A],
           memory' = Remember(m, key), events' \subseteq events \cup {key},
           \A k \in events : k[1] \in NotedTwice => \E a \in A : a.key = k
    PROVE  HeldInv'
<1>1. PICK a : a = [key |-> key, row |-> AnswerOf(m.case)]
    OBVIOUS
<1>2. memory' = [m EXCEPT !.answers = A \cup {a}]
    BY <1>1 DEF Remember
<1>3. memory' = [case |-> row, turns |-> turns', responses |-> responses', answers |-> A \cup {a}]
    BY <1>2
<1>4. a.key = key
    BY <1>1
<1>5. \A k \in events' : k[1] \in NotedTwice => \E x \in A \cup {a} : x.key = k
    BY <1>4
<1> QED BY <1>3, <1>5, HeldAfter

LEMMA SyncHeld ==
    ASSUME CaseInv, CaseInv', RowInv, HeldInv, ~parted, NEW h \in Handlers, SyncResolution(h),
           NEW s, s = selections[handler[h].ev.id],
           NEW admin, admin = handler[h].ev.admin,
           NEW key, key = (IF admin /\ s.by = "MODERATOR" THEN <<"verified", handler[h].ev.id>>
                           ELSE ResolutionKey(handler[h].ev.id)),
           IF memory.case.version > 0
           THEN Twice(key, Remember([memory EXCEPT !.case = ResolutionIn(s, admin)], key))
           ELSE Same(memory)
    PROVE  HeldInv'
<1>0. case \in CaseRow /\ case' \in CaseRow /\ s \in Selection /\ admin \in BOOLEAN
    <2>1. handler[h].ev.id \in 1..Len(selections) /\ selections \in Seq(Selection)
        BY SyncCases DEF CaseInv, TypeInv, TypeOK, SyncsASelection
    <2>2. s \in Selection
        BY <2>1, ElementTyped
    <2> QED BY <2>2 DEF CaseInv, TypeInv, TypeOK, Request
<1>1. PICK A, B : /\ A = memory.answers /\ B = Bare(case)
                  /\ memory = [case |-> B, turns |-> turns, responses |-> responses, answers |-> A]
                  /\ \A k \in events : k[1] \in NotedTwice => \E a \in A : a.key = k
    BY DEF HeldInv, Held
<1>2. B \in CaseRow /\ B.key = NoTag /\ Agree(B, case) /\ B.version = case.version
      /\ memory.case = B
    BY <1>0, <1>1, BareTyped DEF Agree
<1>3. /\ UNCHANGED <<turns, responses>> /\ events' \subseteq events \cup {key}
      /\ case.version = 0 => UNCHANGED <<case, events>>
      /\ key \notin events /\ case.version > 0 => case' = Resolution(s, admin)
    <2>1. key = SyncKey(h) /\ SyncRow(h) = Resolution(s, admin)
        BY DEF SyncKey, SyncRow
    <2>2. case.version = 0 \/ case.version > 0
        BY <1>0 DEF CaseRow
    <2> QED BY <2>1, <2>2, SyncCases
<1>4. key[1] \in NotedTwice
    BY DEF ResolutionKey, NotedTwice
<1>5. CASE case.version = 0
    <2>1. memory' = memory
        BY <1>2, <1>5 DEF Same
    <2> QED BY <1>3, <1>5, <2>1, HeldStays
<1>6. CASE case.version > 0 /\ Remembered(key) = {}
    <2>1. PICK b : b = ResolutionIn(s, admin)
        OBVIOUS
    <2>2. b \in CaseRow /\ b.key = NoTag /\ Agree(b, Resolution(s, admin))
        BY <1>0, <1>2, <2>1, ResolutionAgrees
    <2>3. key \notin events
        BY <1>1, <1>4, <1>6 DEF Remembered
    <2>4. PICK m : m = [memory EXCEPT !.case = b]
        OBVIOUS
    <2>5. m = [case |-> b, turns |-> turns, responses |-> responses, answers |-> A]
        BY <1>1, <2>4
    <2>6. memory' = Remember(m, key)
        BY <1>2, <1>6, <2>1, <2>4 DEF Twice, Same
    <2>7. case' = Resolution(s, admin)
        BY <1>3, <1>6, <2>3
    <2>8. b \in CaseRow /\ b.key = NoTag /\ Agree(b, case')
        BY <2>2, <2>7
    <2>9. case' \in CaseRow /\ UNCHANGED <<turns, responses>> /\ events' \subseteq events \cup {key}
        BY <1>0, <1>3
    <2>10. \A k \in events : k[1] \in NotedTwice => \E a \in A : a.key = k
        BY <1>1
    <2> QED BY <2>5, <2>6, <2>8, <2>9, <2>10, HeldRemembered
<1>7. CASE case.version > 0 /\ Remembered(key) # {}
    <2>1. CASE Untouched /\ case' = case
        <3>1. \E a \in memory.answers : a.key = key
            BY <1>7 DEF Remembered
        <3> QED BY <1>3, <2>1, <3>1, HeldStays DEF Untouched
    <2>2. CASE Differs
        BY <2>2 DEF Differs, HeldInv
    <2> QED BY <1>2, <1>7, <2>1, <2>2 DEF Twice
<1> QED BY SMTT(30), <1>0, <1>5, <1>6, <1>7 DEF CaseRow

(* mark_community_knowledge_published: a source is on record only with its *)
(* event, so a call that leaves the row of one as it is leaves the other.  *)
LEMMA MarkKnowledgeHeld ==
    ASSUME CaseInv, CaseInv', RowInv, HeldInv, ~parted, NEW h \in Handlers, MarkKnowledge(h),
           NEW tag, tag = KnowledgeTag(handler[h].row.resolvedPost),
           NEW recorded, recorded = KnowledgeIn(handler[h].pub),
           IF recorded = memory /\ Remembered(tag) = {} THEN Same(memory)
           ELSE Twice(tag, Remember(recorded, tag))
    PROVE  HeldInv'
<1>0. case \in CaseRow /\ case' \in CaseRow
    BY DEF CaseInv, TypeInv, TypeOK
<1>1. PICK A, B : /\ A = memory.answers /\ B = Bare(case)
                  /\ memory = [case |-> B, turns |-> turns, responses |-> responses, answers |-> A]
                  /\ \A k \in events : k[1] \in NotedTwice => \E a \in A : a.key = k
    BY DEF HeldInv, Held
<1>2. B \in CaseRow /\ B.key = NoTag /\ Agree(B, case) /\ memory.case = B
    BY <1>0, <1>1, BareTyped
<1>3. PICK post \in Nat : post = handler[h].pub
    BY DEF CaseInv, TypeInv, TypeOK, Request
<1>4. post # NoPost /\ tag = KnowledgeTag(case.resolvedPost)
    <2>1. PICK r : r = handler[h]
        OBVIOUS
    <2>2. r.pc = "markKnowledge" /\ HoldsLast(r)
        BY <2>1 DEF MarkKnowledge, At, CaseInv, SoloInv
    <2>3. r.pub \in Marked(Marker(r)) /\ r.row.resolvedPost = case.resolvedPost
        BY <2>2 DEF HoldsLast, KnowledgeStep
    <2>4. r.pub \in 1..Len(forum)
        BY <2>3 DEF Marked
    <2> QED BY <1>3, <2>1, <2>3, <2>4 DEF NoPost
<1>5. UNCHANGED <<turns, responses>> /\ events' \subseteq events \cup {tag}
    BY DEF MarkKnowledge, store
<1>6. CASE Remembered(tag) # {}
    <2>1. CASE Untouched /\ case' = case
        <3>1. \E a \in memory.answers : a.key = tag
            BY <1>6 DEF Remembered
        <3> QED BY <1>5, <2>1, <3>1, HeldStays DEF Untouched
    <2>2. CASE Differs
        BY <2>2 DEF Differs, HeldInv
    <2> QED BY <1>6, <2>1, <2>2 DEF Twice
<1>7. CASE Remembered(tag) = {} /\ ~KnowledgeReady
    <2>1. recorded = memory
        BY <1>2, <1>3, <1>7 DEF KnowledgeIn, KnowledgeReady, Agree
    <2>2. UNCHANGED store
        BY <1>7 DEF MarkKnowledge
    <2> QED BY <1>7, <2>1, <2>2, HeldStays DEF Same, store
<1>8. CASE Remembered(tag) = {} /\ KnowledgeReady
    <2>1. tag \notin events
        BY <1>1, <1>8 DEF Remembered, KnowledgeTag, NotedTwice
    <2>2. case' = [case EXCEPT !.kbPost = post, !.kbSource = case.resolvedPost, !.kbSelected = FALSE]
        BY <1>3, <1>8, <2>1 DEF MarkKnowledge
    <2>3. PICK b : b = [B EXCEPT !.kbPost = post, !.kbSource = B.resolvedPost, !.kbSelected = FALSE]
        OBVIOUS
    <2>4. recorded = [memory EXCEPT !.case = b]
        <3>1. recorded = [memory EXCEPT !.case.kbPost = post,
                                        !.case.kbSource = memory.case.resolvedPost,
                                        !.case.kbSelected = FALSE]
            BY <1>2, <1>3, <1>8 DEF KnowledgeIn, KnowledgeReady, Agree
        <3>2. PICK b1 : b1 = [B EXCEPT !.kbPost = post]
            OBVIOUS
        <3>3. PICK b2 : b2 = [b1 EXCEPT !.kbSource = B.resolvedPost]
            OBVIOUS
        <3>4. b = [b2 EXCEPT !.kbSelected = FALSE]
            BY <2>3, <3>2, <3>3
        <3>5. PICK m1 : m1 = [memory EXCEPT !.case = b1]
            OBVIOUS
        <3>6. m1 = [case |-> b1, turns |-> turns, responses |-> responses, answers |-> A]
            BY <1>1, <3>5
        <3>7. PICK m2 : m2 = [m1 EXCEPT !.case = b2]
            OBVIOUS
        <3>8. m2 = [case |-> b2, turns |-> turns, responses |-> responses, answers |-> A]
            BY <3>6, <3>7
        <3>9. recorded = [m2 EXCEPT !.case = b]
            <4>1. m1 = [memory EXCEPT !.case.kbPost = post]
                BY <1>2, <3>2, <3>5
            <4>2. m1.case = b1
                BY <3>6
            <4>3. m2 = [m1 EXCEPT !.case.kbSource = B.resolvedPost]
                BY <3>3, <3>7, <4>2
            <4>4. m2.case = b2
                BY <3>8
            <4> QED BY <1>2, <3>1, <3>4, <4>1, <4>3, <4>4
        <3>10. recorded = [case |-> b, turns |-> turns, responses |-> responses, answers |-> A]
            BY <3>8, <3>9
        <3>11. [memory EXCEPT !.case = b]
                 = [case |-> b, turns |-> turns, responses |-> responses, answers |-> A]
            <4>1. PICK m : m = [memory EXCEPT !.case = b]
                OBVIOUS
            <4> QED BY <1>1, <4>1
        <3> QED BY <3>10, <3>11
    <2>5. recorded = [case |-> b, turns |-> turns, responses |-> responses, answers |-> A]
        BY <1>1, <2>4
    <2>6. b \in CaseRow /\ b.key = NoTag /\ Agree(b, case')
        <3>1. PICK src \in Nat : src = case.resolvedPost
            BY <1>0 DEF CaseRow
        <3>2. B.resolvedPost = src
            BY <1>2, <3>1 DEF Agree
        <3>3. b = [B EXCEPT !.kbPost = post, !.kbSource = src, !.kbSelected = FALSE]
            BY <2>3, <3>2
        <3>4. case' = [case EXCEPT !.kbPost = post, !.kbSource = src, !.kbSelected = FALSE]
            BY <2>2, <3>1
        <3>5. b \in CaseRow /\ b.key = NoTag
            BY <1>2, <3>3 DEF CaseRow
        <3>6. Agree(b, case')
            BY <1>0, <1>2, <3>3, <3>4 DEF CaseRow, Agree
        <3> QED BY <3>5, <3>6
    <2>7. recorded # memory
        <3>1. SUFFICES ASSUME b = B PROVE FALSE
            BY <1>1, <2>5
        <3>2. case.kbPost = post /\ case.kbSource = case.resolvedPost
            <4>1. PICK src : src = B.resolvedPost
                OBVIOUS
            <4>2. B = [B EXCEPT !.kbPost = post, !.kbSource = src, !.kbSelected = FALSE]
                BY <2>3, <3>1, <4>1
            <4>3. B.kbPost = post /\ B.kbSource = src
                BY <1>2, <4>2 DEF CaseRow
            <4> QED BY <1>2, <4>1, <4>3 DEF Agree
        <3> QED BY <1>4, <2>1, <3>2 DEF RowInv, SourceRecorded
    <2>8. memory' = Remember(recorded, tag)
        BY <1>8, <2>7 DEF Twice, Same
    <2> QED BY <1>0, <1>1, <1>5, <2>5, <2>6, <2>8, HeldRemembered
<1> QED BY <1>6, <1>7, <1>8

(* mark_community_knowledge_solution_selected.                             *)
LEMMA MarkSolutionHeld ==
    ASSUME CaseInv, CaseInv', RowInv, HeldInv, ~parted, NEW h \in Handlers, MarkSolution(h),
           memory' = IF SolutionKey(handler[h].row.kbPost) \in events THEN memory
                     ELSE SolutionIn(handler[h].pub)
    PROVE  HeldInv'
<1>0. case \in CaseRow /\ case' \in CaseRow
    BY DEF CaseInv, TypeInv, TypeOK
<1>1. PICK A, B : /\ A = memory.answers /\ B = Bare(case)
                  /\ memory = [case |-> B, turns |-> turns, responses |-> responses, answers |-> A]
                  /\ \A k \in events : k[1] \in NotedTwice => \E a \in A : a.key = k
    BY DEF HeldInv, Held
<1>2. B \in CaseRow /\ B.key = NoTag /\ Agree(B, case) /\ memory.case = B
    BY <1>0, <1>1, BareTyped
<1>3. PICK post : post = handler[h].pub
    OBVIOUS
<1>4. PICK key : key = SolutionKey(handler[h].row.kbPost)
    OBVIOUS
<1>5. PICK ready : ready = (/\ case.conversation = "RESOLVED" /\ case.kbPost # NoPost
                            /\ case.kbPost = post)
    OBVIOUS
<1>6. CASE key \in events \/ ~ready
    <2>1. UNCHANGED store
        BY <1>3, <1>4, <1>5, <1>6 DEF MarkSolution
    <2>2. memory' = memory
        BY <1>2, <1>3, <1>4, <1>5, <1>6 DEF SolutionIn, Agree
    <2> QED BY <2>1, <2>2, HeldStays DEF store
<1>7. CASE key \notin events /\ ready
    <2>1. /\ case' = [case EXCEPT !.kbSelected = TRUE] /\ events' = events \cup {key}
          /\ UNCHANGED <<turns, responses>>
        BY <1>3, <1>4, <1>5, <1>7 DEF MarkSolution
    <2>2. PICK b : b = [B EXCEPT !.kbSelected = TRUE]
        OBVIOUS
    <2>3. memory' = [memory EXCEPT !.case = b]
        BY <1>2, <1>3, <1>4, <1>5, <1>7, <2>2 DEF SolutionIn, Agree
    <2>4. memory' = [case |-> b, turns |-> turns', responses |-> responses', answers |-> A]
        BY <1>1, <2>1, <2>3
    <2>5. b \in CaseRow /\ b.key = NoTag /\ Agree(b, case')
        BY ZenonT(30), <1>0, <1>2, <2>1, <2>2 DEF CaseRow, Agree
    <2>6. \A k \in events' : k[1] \in NotedTwice => \E a \in A : a.key = k
        BY <1>1, <1>4, <2>1 DEF SolutionKey, NotedTwice
    <2> QED BY <1>0, <2>4, <2>5, <2>6, HeldAfter
<1> QED BY <1>6, <1>7

(* A call of either store is made of both.                                 *)
LEMMA CallHeld ==
    ASSUME CaseInv, CaseInv', RowInv, HeldInv, ~parted, NEW h \in Handlers, TwinStep(h)
    PROVE  HeldInv'
<1>1. CASE RecordTurn(h) /\ Same(RecordTurnIn(handler[h].ev.id))
    BY <1>1, RecordHeld DEF Same
<1>2. CASE CreateCase(h) /\ Same(CreateCaseIn(handler[h].ev.id))
    BY <1>2, CreateHeld DEF Same
<1>3. CASE MarkAnswer(h) /\ Same(MarkAnswerIn(handler[h].row.draft, handler[h].pub))
    BY <1>3, MarkAnswerHeld DEF Same
<1>4. CASE /\ SyncResolution(h)
           /\ LET ev == handler[h].ev
                  s == selections[ev.id]
                  key == IF ev.kind # "resolution" THEN NoTag
                         ELSE IF ev.admin /\ s.by = "MODERATOR" THEN <<"verified", ev.id>>
                         ELSE ResolutionKey(ev.id)
              IN IF memory.case.version > 0
                 THEN Twice(key, Remember([memory EXCEPT !.case = ResolutionIn(s, ev.admin)], key))
                 ELSE Same(memory)
    <2>1. handler[h].ev.kind = "resolution"
        BY <1>4, SyncCases DEF CaseInv, TypeInv, SyncsASelection
    <2>2. PICK s, admin : s = selections[handler[h].ev.id] /\ admin = handler[h].ev.admin
        OBVIOUS
    <2>3. PICK key : key = IF admin /\ s.by = "MODERATOR" THEN <<"verified", handler[h].ev.id>>
                           ELSE ResolutionKey(handler[h].ev.id)
        OBVIOUS
    <2>4. IF memory.case.version > 0
          THEN Twice(key, Remember([memory EXCEPT !.case = ResolutionIn(s, admin)], key))
          ELSE Same(memory)
        BY <1>4, <2>1, <2>2, <2>3
    <2> QED BY <1>4, <2>2, <2>3, <2>4, SyncHeld
<1>5. CASE /\ MarkKnowledge(h)
           /\ LET tag == KnowledgeTag(handler[h].row.resolvedPost)
                  recorded == KnowledgeIn(handler[h].pub)
              IN IF recorded = memory /\ Remembered(tag) = {} THEN Same(memory)
                 ELSE Twice(tag, Remember(recorded, tag))
    <2>1. PICK tag, recorded : /\ tag = KnowledgeTag(handler[h].row.resolvedPost)
                               /\ recorded = KnowledgeIn(handler[h].pub)
        OBVIOUS
    <2>2. IF recorded = memory /\ Remembered(tag) = {} THEN Same(memory)
          ELSE Twice(tag, Remember(recorded, tag))
        BY <1>5, <2>1
    <2> QED BY <1>5, <2>1, <2>2, MarkKnowledgeHeld
<1>6. CASE /\ MarkSolution(h)
           /\ IF SolutionKey(handler[h].row.kbPost) \in events THEN Same(memory)
              ELSE Same(SolutionIn(handler[h].pub))
    BY <1>6, MarkSolutionHeld DEF Same
<1> QED BY <1>1, <1>2, <1>3, <1>4, <1>5, <1>6 DEF TwinStep

(* The comparison adds nothing to what the deployed store does.            *)
LEMMA TwinIsNext == ASSUME [TwinNext]_twinVars PROVE [Next]_vars
<1>1. ASSUME NEW h \in Handlers, TwinStep(h) \/ CallsNoStore(h)
      PROVE  HandlePost(h) \/ HandleResolution(h) \/ Fail(h)
    BY <1>1 DEF TwinStep, CallsNoStore, HandlePost, HandleResolution
<1> QED BY <1>1 DEF TwinNext, twinVars, Next

LEMMA HeldStep ==
    ASSUME CaseInv, CaseInv', RowInv, HeldInv, [TwinNext]_twinVars PROVE HeldInv'
<1>1. CASE parted
    BY <1>1 DEF TwinNext, twinVars, OnTheForum, Untouched, Differs, HeldInv
<1>2. CASE ~parted
    <2>1. CASE UNCHANGED twinVars
        <3>1. UNCHANGED <<memory, case, turns, responses, events>>
            BY <2>1 DEF twinVars, vars
        <3> QED BY <1>2, <3>1, HeldStays
    <2>2. ASSUME Forum \/ \E h \in Handlers : CallsNoStore(h), OnTheForum PROVE HeldInv'
        <3>1. UNCHANGED store
            BY <2>2 DEF Forum, HumanPost, SelectBest, CallsNoStore, ReceivePost, ReceiveResolution,
               LookupAnswer, LookupKnowledge, LookupMarker, PostAnswer, PostKnowledge, WriteMarked,
               SelectSolution, VerifySolution, Fail
        <3>2. CASE Untouched
            BY <1>2, <3>1, <3>2, HeldStays DEF store, Untouched
        <3>3. CASE Differs
            BY <3>3 DEF Differs, HeldInv
        <3> QED BY <2>2, <3>2, <3>3 DEF OnTheForum
    <2> QED BY <1>2, <2>1, <2>2, CallHeld DEF TwinNext
<1> QED BY <1>1, <1>2

(* The tests run on the case of the service: through every sequence of     *)
(* requests, repetitions and failures, until the two answer differently.   *)
THEOREM TestsHoldTheSameCase == ASSUME Solo PROVE TwinSpec => []MemoryCaseAgrees
<1>1. TwinInit => Init
    BY DEF TwinInit
<1>2. [TwinNext]_twinVars => [Next]_vars
    BY TwinIsNext
<1>3. TwinSpec => Spec
    BY <1>1, <1>2, PTL DEF TwinSpec, Spec
<1>4. TypeInv /\ SoloInv /\ [Next]_vars => SoloInv'
    BY SoloStep
<1>5. Spec => []CaseInv
    BY <1>4, InitSolo, TypeInductive, AnswerInductive, AnsweredOnce, PTL DEF Spec, CaseInv
<1>6. CaseInv /\ RowInv /\ [Next]_vars => RowInv'
    BY RowStep
<1>7. CaseInv /\ CaseInv' /\ RowInv /\ HeldInv /\ [TwinNext]_twinVars => HeldInv'
    BY HeldStep
<1>8. HeldInv => MemoryCaseAgrees
    <2> SUFFICES ASSUME HeldInv, ~parted
                 PROVE  /\ memory.case = [case EXCEPT !.key = NoTag]
                        /\ memory.turns = turns /\ memory.responses = responses
        BY DEF MemoryCaseAgrees
    <2>1. PICK A, B : /\ B = Bare(case)
                      /\ memory = [case |-> B, turns |-> turns, responses |-> responses,
                                   answers |-> A]
        BY DEF HeldInv, Held
    <2> QED BY <2>1 DEF Bare
<1> QED BY <1>1, <1>2, <1>3, <1>5, <1>6, <1>7, <1>8, InitRow, InitHeld, PTL DEF TwinSpec
====

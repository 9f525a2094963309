-------------------------- MODULE CommunityReview --------------------------
(***************************************************************************)
(* A case of the deployment that holds answers for review.  The gateway    *)
(* writes each draft as a post of the restricted assistant, which Flarum   *)
(* keeps private until a moderator approves it; reconcile, which every     *)
(* poll of the forum calls, writes what is missing and records what the    *)
(* moderators did.  The flow community-assist decides a draft by its       *)
(* version instead, and publishes it as a new post.                        *)
(*                                                                         *)
(* Automatic publication excludes all of this (config.py:161) and is       *)
(* CommunityCase.  An answer is known by the version of its draft.         *)
(***************************************************************************)
EXTENDS Integers, Sequences, FiniteSets

CONSTANTS
    MaxDrafts,  \* bound: drafts of the case
    MaxThread,  \* bound: the assistant's posts
    MaxBreaks   \* bound: calls broken off by a failure or a stop

ASSUME ReviewAssumption ==
    MaxDrafts \in Nat \ {0} /\ MaxThread \in Nat /\ MaxBreaks \in Nat

(* Bound: one call of each kind at a time.  The handler of a post makes    *)
(* drafts, the poller reconciles, and the flow publishes.                  *)
Calls == {"handler", "poller", "flow"}

VARIABLES
    draft,      \* the row of community_case
    thread,     \* the assistant's posts: [marker, answer, status]
    events,     \* idempotency keys of community_case_event
    call,       \* by call: where it is and what it has read
    judged,     \* history: a moderator or a reviewer approved the draft
    overtaken,  \* history: a draft was made while another call was under way
    breaks      \* calls broken off

reviewVars == <<draft, thread, events, call, judged, overtaken, breaks>>

----------------------------------------------------------------------------
NewDraft(v) ==
    [state |-> "DRAFT_PENDING", version |-> v, approvals |-> 0, post |-> 0,
     published |-> 0]
NoCall == [pc |-> "idle", version |-> 0, approval |-> 0, post |-> 0]

ReviewInit ==
    /\ draft = NewDraft(0)
    /\ thread = <<>>
    /\ events = {}
    /\ call = [c \in Calls |-> NoCall]
    /\ judged = FALSE /\ overtaken = FALSE /\ breaks = 0

ReviewMarker(v) == [kind |-> "review", number |-> v]
ApprovalMarker(n) == [kind |-> "approval", number |-> n]
AnswerPost(marker, v, status) == [marker |-> marker, answer |-> v, status |-> status]
PostsMarked(marker) ==
    { p \in DOMAIN thread : thread[p].marker = marker /\ thread[p].status # "GONE" }

At(c, pc) == call[c].pc = pc
Continue(c, new) == call' = [call EXCEPT ![c] = new]
End(c) == Continue(c, NoCall)
history == <<judged, overtaken, breaks>>

----------------------------------------------------------------------------
Full == Len(thread) >= MaxThread

(* Fault: the row of the follow-up keeps the post of the draft before.     *)
CreateDraft_KeepsPost ==
    /\ At("handler", "idle") /\ draft.version < MaxDrafts
    /\ draft' = [NewDraft(draft.version + 1) EXCEPT !.post = draft.post]
    /\ Continue("handler", [NoCall EXCEPT !.pc = "lookup", !.version = draft.version + 1])
    /\ judged' = FALSE
    /\ overtaken' = (overtaken \/ \E d \in Calls : ~At(d, "idle"))
    /\ UNCHANGED <<thread, events, breaks>>

(* A question or a follow-up has been answered: the row starts over, and   *)
(* the request goes on to write the post for review.                       *)
CreateDraft ==
    /\ At("handler", "idle") /\ draft.version < MaxDrafts
    /\ draft' = NewDraft(draft.version + 1)
    /\ Continue("handler", [NoCall EXCEPT !.pc = "lookup", !.version = draft.version + 1])
    /\ judged' = FALSE
    /\ overtaken' = (overtaken \/ \E d \in Calls : ~At(d, "idle"))
    /\ UNCHANGED <<thread, events, breaks>>

Checking(p) == [NoCall EXCEPT !.pc = "check", !.post = p]

(* Fault: reconcile looks at the posts only, not at the cases without one. *)
Reconcile_OnlyAttached ==
    /\ At("poller", "idle") /\ draft.state = "DRAFT_PENDING" /\ draft.post # 0
    /\ Continue("poller", Checking(draft.post))
    /\ UNCHANGED <<draft, thread, events, history>>

(* reconcile reads the cases that wait: without a post, or with one.       *)
Reconcile ==
    /\ At("poller", "idle") /\ draft.version > 0
    /\ draft.state = "DRAFT_PENDING"
    /\ Continue("poller", IF draft.post # 0 THEN Checking(draft.post)
               ELSE [NoCall EXCEPT !.pc = "lookup", !.version = draft.version])
    /\ UNCHANGED <<draft, thread, events, history>>

(* publish_review_reply.  A post that is public already is an error, and   *)
(* the call leaves the case.                                               *)
LookupReview(c) ==
    /\ At(c, "lookup")
    /\ LET found == PostsMarked(ReviewMarker(call[c].version)) IN
       \/ /\ found = {}
          /\ Continue(c, [call[c] EXCEPT !.pc = "write"])
       \/ \E p \in found :
             IF thread[p].status = "PUBLIC" THEN End(c)
             ELSE Continue(c, [call[c] EXCEPT !.pc = "attach", !.post = p])
    /\ UNCHANGED <<draft, thread, events, history>>

WriteReview(c) ==
    /\ At(c, "write") /\ ~Full
    /\ thread' = Append(thread, AnswerPost(ReviewMarker(call[c].version), call[c].version, "HELD"))
    /\ Continue(c, [call[c] EXCEPT !.pc = "attach", !.post = Len(thread) + 1])
    /\ UNCHANGED <<draft, events, history>>

(* attach_community_review: the row takes the post, whatever version it is *)
(* of by now, unless it has another.  reconcile goes on with the row's.    *)
AttachReview(c) ==
    LET key == <<"review-post", call[c].version>>
        checked(p) == IF c = "poller" /\ p # 0 THEN Checking(p) ELSE NoCall
    IN
    /\ At(c, "attach")
    /\ \/ /\ key \in events
          /\ Continue(c, checked(draft.post))
          /\ UNCHANGED <<draft, events>>
       \/ /\ key \notin events /\ draft.post \notin {0, call[c].post}
          /\ End(c)
          /\ UNCHANGED <<draft, events>>
       \/ /\ key \notin events /\ draft.post \in {0, call[c].post}
          /\ draft' = [draft EXCEPT !.post = call[c].post]
          /\ events' = events \cup {key}
          /\ Continue(c, checked(call[c].post))
    /\ UNCHANGED <<thread, history>>

(* review_post_is_approved, and what becomes of it.                        *)
CheckReview ==
    /\ At("poller", "check")
    /\ LET status == thread[call["poller"].post].status IN
       \/ status = "PUBLIC" /\ Continue("poller", [call["poller"] EXCEPT !.pc = "approved"])
       \/ status = "GONE" /\ Continue("poller", [call["poller"] EXCEPT !.pc = "missing"])
       \/ status = "HELD" /\ End("poller")
    /\ UNCHANGED <<draft, thread, events, history>>

MarkApproved ==
    LET key == <<"approved", call["poller"].post>> IN
    /\ At("poller", "approved")
    /\ IF key \notin events /\ draft.post # 0 /\ draft.state = "DRAFT_PENDING"
       THEN /\ draft' = [draft EXCEPT !.state = "PUBLISHED", !.approvals = @ + 1,
                                      !.published = draft.post]
            /\ events' = events \cup {key}
       ELSE UNCHANGED <<draft, events>>
    /\ End("poller")
    /\ UNCHANGED <<thread, history>>

MarkMissing ==
    LET key == <<"missing", call["poller"].post>> IN
    /\ At("poller", "missing")
    /\ IF key \notin events /\ draft.state = "DRAFT_PENDING"
       THEN /\ draft' = [draft EXCEPT !.state = "REJECTED"]
            /\ events' = events \cup {key}
       ELSE UNCHANGED <<draft, events>>
    /\ End("poller")
    /\ UNCHANGED <<thread, history>>

----------------------------------------------------------------------------
(* decide_community_case: the reviewer names the version he read.          *)
Decide(v, state) ==
    /\ draft.state = "DRAFT_PENDING" /\ v = draft.version
    /\ draft' = [draft EXCEPT !.state = state, !.approvals = @ + 1]
    /\ judged' = (judged \/ state = "APPROVED")
    /\ UNCHANGED <<thread, events, call, overtaken, breaks>>

(* publish_community_case: what is approved is posted under the number of  *)
(* its approval, or found under it.                                        *)
Publish ==
    /\ At("flow", "idle") /\ draft.state = "APPROVED"
    /\ Continue("flow", [NoCall EXCEPT !.pc = "find", !.version = draft.version,
                              !.approval = draft.approvals])
    /\ UNCHANGED <<draft, thread, events, history>>

LookupApproval ==
    /\ At("flow", "find")
    /\ LET found == PostsMarked(ApprovalMarker(call["flow"].approval)) IN
       \/ found = {} /\ Continue("flow", [call["flow"] EXCEPT !.pc = "reply"])
       \/ \E p \in found : Continue("flow", [NoCall EXCEPT !.pc = "mark", !.post = p])
    /\ UNCHANGED <<draft, thread, events, history>>

Reply ==
    /\ At("flow", "reply") /\ ~Full
    /\ thread' = Append(thread, AnswerPost(ApprovalMarker(call["flow"].approval), call["flow"].version, "PUBLIC"))
    /\ Continue("flow", [NoCall EXCEPT !.pc = "mark", !.post = Len(thread) + 1])
    /\ UNCHANGED <<draft, events, history>>

(* mark_community_published.                                               *)
MarkPublished ==
    /\ At("flow", "mark")
    /\ draft' = IF draft.state = "APPROVED"
                THEN [draft EXCEPT !.state = "PUBLISHED", !.published = call["flow"].post]
                ELSE draft
    /\ End("flow")
    /\ UNCHANGED <<thread, events, history>>

----------------------------------------------------------------------------
(* Moderators on the forum approve what is held, or delete it.             *)
Moderate(p, status) ==
    /\ thread[p].status = "HELD"
    /\ thread' = [thread EXCEPT ![p].status = status]
    /\ judged' = (judged \/ (status = "PUBLIC" /\ thread[p].answer = draft.version))
    /\ UNCHANGED <<draft, events, call, overtaken, breaks>>

(* The forum refuses, or the gateway stops: the call is over.  What fails  *)
(* is logged, and nothing is taken back.                                   *)
BreakCall(c) ==
    /\ ~At(c, "idle") /\ breaks < MaxBreaks
    /\ breaks' = breaks + 1
    /\ End(c)
    /\ UNCHANGED <<draft, thread, events, judged, overtaken>>

CallStep(c) ==
    \/ LookupReview(c) \/ WriteReview(c) \/ AttachReview(c)
    \/ c = "poller" /\ (CheckReview \/ MarkApproved \/ MarkMissing)
    \/ c = "flow" /\ (LookupApproval \/ Reply \/ MarkPublished)

ReviewNext ==
    \/ CreateDraft \/ Reconcile \/ Publish
    \/ \E c \in Calls : CallStep(c) \/ BreakCall(c)
    \/ \E v \in 1..MaxDrafts, state \in {"APPROVED", "REJECTED"} : Decide(v, state)
    \/ \E p \in DOMAIN thread, status \in {"PUBLIC", "GONE"} : Moderate(p, status)

(* Every poll of the forum calls reconcile, and a call goes on.            *)
ReviewFairness ==
    /\ WF_reviewVars(Reconcile)
    /\ \A c \in Calls : WF_reviewVars(CallStep(c))

ReviewSpec == ReviewInit /\ [][ReviewNext]_reviewVars /\ ReviewFairness

----------------------------------------------------------------------------
(* Properties.                                                             *)

(* Every variable of the review has its type.                              *)
ReviewTypeOK ==
    /\ draft \in [state : {"DRAFT_PENDING", "APPROVED", "REJECTED", "PUBLISHED"},
                  version : 0..MaxDrafts, approvals : 0..1, post : Nat, published : Nat]
    /\ draft.post <= Len(thread) /\ draft.published <= Len(thread)
    /\ thread \in Seq([marker : [kind : {"review", "approval"}, number : 0..MaxDrafts],
                       answer : 1..MaxDrafts, status : {"HELD", "PUBLIC", "GONE"}])
    /\ events \subseteq {"review-post", "approved", "missing"} \X Nat
    /\ \A c \in Calls : /\ call[c].version \in 0..MaxDrafts /\ call[c].approval \in 0..1
                        /\ call[c].post <= Len(thread)
                        /\ call[c].pc \in {"idle", "lookup", "write", "attach", "check",
                                           "approved", "missing", "find", "reply", "mark"}
    /\ judged \in BOOLEAN /\ overtaken \in BOOLEAN /\ breaks \in 0..MaxBreaks

(* A case is published on the strength of a person's approval of that very *)
(* draft, on the forum or by the flow, and never of an earlier one, unless *)
(* a follow-up came in between two steps of a call.                        *)
PublishedIsJudged ==
    draft.state = "PUBLISHED" /\ ~overtaken => judged

(* A draft that waits gets the post its reviewers are to read, whatever    *)
(* call was broken off, unless somebody makes that post public before the  *)
(* case has taken note of it: then the lookup refuses it for good.         *)
EveryDraftIsReviewed ==
    \A v \in 1..MaxDrafts :
       draft.version = v ~>
          \/ draft.version # v \/ draft.state # "DRAFT_PENDING" \/ draft.post # 0
          \/ \E p \in PostsMarked(ReviewMarker(v)) : thread[p].status = "PUBLIC"
          \/ Full

(* What a published case names as its answer is the answer of its version: *)
(* the answer a reviewer approved is the one that is published             *)
(* (docs/plans/issue-21-community-assist-design.md:88-89).                 *)
ApprovedAnswerIsPublished ==
    draft.state = "PUBLISHED" /\ ~overtaken =>
        thread[draft.published].answer = draft.version
============================================================================

-------------------------- MODULE CommunityPoller --------------------------
(***************************************************************************)
(* The Community poller (scripts/poll_flarum.py) and one discussion it     *)
(* watches.  A poll reads the state file, asks the forum and the gateway,  *)
(* submits what is new or overdue to the webhook of the flow, and writes   *)
(* the file after each submission and at its end.  Between two of its      *)
(* requests people and the gateway go on, and it may stop at any of them.  *)
(*                                                                         *)
(* The webhook accepts an event before anything is done with it: the flow  *)
(* may lose it, hold it, or hand it to the gateway after a later one.  The *)
(* gateway is what CommunityCase lets a poller see of it.                  *)
(***************************************************************************)
EXTENDS Integers, Sequences, FiniteSets, FiniteSetsExt, Functions

CONSTANTS
    MaxHuman,  \* bound: posts people write
    MaxPosts,  \* bound: posts of the discussion, the assistant's included
    MaxUpsets  \* bound: best-answer changes and edits of people, and faults

ASSUME BoundsAssumption ==
    MaxHuman \in Nat \ {0} /\ MaxPosts \in Nat \ {0} /\ MaxUpsets \in Nat

VARIABLES
    posts,   \* the discussion: who wrote each post, and is it there
    best,    \* its best answer, when it was selected, the last selection's time
    flow,    \* events the webhook accepted
    gw,      \* the gateway's case
    file,    \* the state file, as far as it is about this discussion
    work,    \* what the poll under way has made of it
    poll,    \* the poll under way
    spent    \* what is spent of MaxUpsets, and whether a post was edited

forum == <<posts, best>>
poller == <<file, work, poll>>
vars == <<posts, best, flow, gw, file, work, poll, spent>>

----------------------------------------------------------------------------
Visible == { p \in 1..Len(posts) : posts[p].status = "VISIBLE" }
Asks(p) == posts[p].by = "REQUESTER"
PostBy(who) == [by |-> who, status |-> "VISIBLE"]

(* What the list of discussions tells of it, and the snapshots keep.       *)
Summary == [count |-> Cardinality(Visible), post |-> best.post, at |-> best.at]
NoSnapshot == [count |-> 0, post |-> 0, at |-> 0]

(* with: earlier posts whose text the event carries.                       *)
PostEvent(p, with) == [kind |-> "post", post |-> p, at |-> 0, with |-> with]
ResolutionEvent(pick) ==
    [kind |-> "resolution", post |-> pick.post, at |-> pick.at, with |-> {}]

(* What the poller asks the case for; kbSource is the answer its knowledge *)
(* post was written from, heard are the best answers on record.  read and  *)
(* finished remember whose text the gateway has been given, and which      *)
(* resolutions it has carried through.                                     *)
NoCase == [turns |-> {}, lastSeen |-> 0, published |-> FALSE, resolved |-> FALSE,
           source |-> 0, kb |-> 0, kbSource |-> 0, selected |-> FALSE,
           heard |-> {}, read |-> {}, finished |-> {}]
Known == gw.lastSeen # 0

NoFile == [seen |-> {}, pending |-> << >>, asked |-> {}, retired |-> {},
           snap |-> NoSnapshot]
Idle == [pc |-> "idle", list |-> NoSnapshot, todo |-> {}, shown |-> {},
         events |-> {}, hold |-> FALSE, settled |-> FALSE]

Init ==
    /\ posts = << PostBy("REQUESTER") >>
    /\ best = [post |-> 0, at |-> 0, last |-> 0]
    /\ flow = {}
    /\ gw = NoCase
    /\ file = NoFile
    /\ work = NoFile
    /\ poll = Idle
    /\ spent = [upsets |-> 0, edited |-> FALSE]

Spend(edited) ==
    /\ spent.upsets < MaxUpsets
    /\ spent' = [upsets |-> spent.upsets + 1, edited |-> spent.edited \/ edited]

(* Something fails or is lost.                                             *)
Fault == Spend(FALSE)

----------------------------------------------------------------------------
(* People.  The first post cannot be hidden apart from its discussion.     *)

Write(who) ==
    /\ Len(posts) < MaxPosts
    /\ Cardinality({ p \in 1..Len(posts) : posts[p].by # "ASSISTANT" }) < MaxHuman
    /\ posts' = Append(posts, PostBy(who))
    /\ UNCHANGED <<best, flow, gw, poller, spent>>

Selected(p) == [post |-> p, at |-> best.last + 1, last |-> best.last + 1]

Pick(p) ==
    /\ p \in Visible \ {best.post}
    /\ best' = Selected(p)
    /\ Spend(FALSE)
    /\ UNCHANGED <<posts, flow, gw, poller>>

Unpick ==
    /\ best.post # 0
    /\ best' = [best EXCEPT !.post = 0, !.at = 0]
    /\ Spend(FALSE)
    /\ UNCHANGED <<posts, flow, gw, poller>>

Edit(p, from, to) ==
    /\ p # 1 /\ posts[p].status = from
    /\ posts' = [posts EXCEPT ![p].status = to]
    /\ Spend(TRUE)
    /\ UNCHANGED <<best, flow, gw, poller>>

----------------------------------------------------------------------------
(* The gateway.  Its steps are those of CommunityCase that a poller can    *)
(* tell from each other.  A request it has begun may stop at any step, and *)
(* is taken up again by a repetition of its event.                         *)

New(e) == e.post \notin gw.turns
Readable(e) == posts[e.post].status = "VISIBLE"
Received(e) ==
    [gw EXCEPT !.turns = @ \cup {e.post}, !.lastSeen = e.post,
               !.read = @ \cup {e.post} \cup e.with]
WithoutResolution(case) ==
    [case EXCEPT !.resolved = FALSE, !.source = 0, !.kb = 0, !.kbSource = 0,
                 !.selected = FALSE]

(* A post that asks for no answer, and one that does: its answer is on     *)
(* record, but not published yet.                                          *)
RecordPost(e) ==
    /\ New(e) /\ Readable(e) /\ ~Asks(e.post) /\ Known
    /\ gw' = Received(e)

AnswerPost(e) ==
    /\ New(e) /\ Readable(e) /\ Asks(e.post)
    /\ LET case == [Received(e) EXCEPT !.published = FALSE]
       IN gw' = IF gw.resolved THEN WithoutResolution(case) ELSE case

(* Nothing is done: a repetition, a discussion without a case, or a post   *)
(* that is not visible any more.                                           *)
RefusePost(e) ==
    /\ ~New(e) \/ ~Readable(e) \/ (~Asks(e.post) /\ ~Known)
    /\ UNCHANGED gw

(* A best answer resolves the case, unless nobody entitled selected it;    *)
(* selecting the knowledge post confirms the resolution.                   *)
Settled(case) ==
    IF case.resolved /\ case.kb # 0 /\ case.selected
    THEN [case EXCEPT !.finished = @ \cup {case.source, case.kb}] ELSE case

Heard(e) == [post |-> e.post, at |-> e.at] \in gw.heard
Resolution(e, authority) ==
    IF e.post = gw.kb
    THEN Settled([gw EXCEPT !.resolved = TRUE, !.selected = TRUE])
    ELSE [gw EXCEPT !.resolved = authority, !.source = e.post, !.selected = FALSE]
Altered(case, e) ==
    \/ case.resolved # gw.resolved \/ case.source # gw.source
    \/ e.post = gw.kb /\ ~gw.selected
Record(case, e) ==
    IF Altered(case, e) THEN [case EXCEPT !.heard = @ \cup {[post |-> e.post, at |-> e.at]}]
    ELSE case

Resolve(e) ==
    /\ e.post # 0 /\ Known /\ ~Heard(e)
    /\ \E authority \in BOOLEAN : gw' = Record(Resolution(e, authority), e)

Reopen(e) ==
    /\ e.post = 0 /\ gw.resolved /\ ~Heard(e)
    /\ gw' = Record(WithoutResolution(gw), e)

RefuseResolution(e) ==
    /\ Heard(e) \/ ~Known \/ (e.post = 0 /\ ~gw.resolved)
    /\ UNCHANGED gw

Handle(e) ==
    /\ IF e.kind = "post"
       THEN RecordPost(e) \/ AnswerPost(e) \/ RefusePost(e)
       ELSE Resolve(e) \/ Reopen(e) \/ RefuseResolution(e)
    /\ flow' = flow \ {e}
    /\ UNCHANGED <<forum, poller, spent>>

PublishAnswer ==
    /\ Known /\ ~gw.published
    /\ Len(posts) < MaxPosts
    /\ posts' = Append(posts, PostBy("ASSISTANT"))
    /\ gw' = [gw EXCEPT !.published = TRUE, !.resolved = FALSE]
    /\ UNCHANGED <<best, flow, poller, spent>>

(* The knowledge post is written, and made the best answer instead.        *)
WriteKnowledge ==
    /\ gw.resolved /\ gw.source \notin {0, gw.kbSource}
    /\ Len(posts) < MaxPosts
    /\ posts' = Append(posts, PostBy("ASSISTANT"))
    /\ gw' = [gw EXCEPT !.kb = Len(posts) + 1, !.kbSource = gw.source,
                        !.selected = FALSE]
    /\ UNCHANGED <<best, flow, poller, spent>>

SelectKnowledge ==
    /\ gw.resolved /\ gw.kb # 0 /\ gw.kbSource = gw.source /\ ~gw.selected
    /\ gw' = Settled([gw EXCEPT !.selected = TRUE])
    /\ best' = Selected(gw.kb)
    /\ UNCHANGED <<posts, flow, poller, spent>>

(* The flow loses the event, or the gateway fails.                         *)
Lose(e) ==
    /\ flow' = flow \ {e}
    /\ Fault
    /\ UNCHANGED <<forum, gw, poller>>

Gateway == \/ \E e \in flow : Handle(e) \/ Lose(e)
           \/ PublishAnswer \/ WriteKnowledge \/ SelectKnowledge

----------------------------------------------------------------------------
(* A poll.                                                                 *)

(* The file is replaced by rename: it is the old one or the new one.       *)
Finish(result) == file' = result /\ work' = result /\ poll' = Idle

(* The confirmations waited for become overdue.                            *)
TimePasses ==
    /\ poll.pc = "idle"
    /\ \E p \in DOMAIN file.pending : ~file.pending[p].due
    /\ file' = [file EXCEPT !.pending =
                   [p \in DOMAIN @ |-> [@[p] EXCEPT !.due = TRUE]]]
    /\ work' = file'
    /\ UNCHANGED <<forum, flow, gw, poll, spent>>

(* Read the file and the list of discussions, and drop the resolutions     *)
(* whose answer is not the best one any more.                              *)
Current_All == file.asked       \* fault: obsolete resolutions are kept
Current == { pick \in file.asked : pick.post = best.post }

Discover ==
    /\ poll.pc = "idle"
    /\ work' = [file EXCEPT !.asked = Current]
    /\ poll' = [Idle EXCEPT !.pc = "confirm", !.list = Summary,
                            !.todo = DOMAIN file.pending]
    /\ UNCHANGED <<forum, flow, gw, file, spent>>

(* The pending posts, one after the other.                                 *)
Checks(p) == poll.pc = "confirm" /\ poll.todo # {} /\ p = Min(poll.todo)
Checked(p) == poll' = [poll EXCEPT !.todo = @ \ {p}]
Without(pending, done) == Restrict(pending, DOMAIN pending \ done)

(* gateway_post_is_confirmed, checkpoint_confirmed_post.                   *)
Confirmed_Published(p) ==   \* fault: not whether the case has reached the post
    work.pending[p].pub => gw.published
Confirmed(p) == gw.lastSeen >= p /\ (work.pending[p].pub => gw.published)

Checkpointed(p) ==
    LET done == {p} \cup work.pending[p].with
    IN [work EXCEPT !.seen = @ \cup done, !.pending = Without(@, done)]

ConfirmPost(p) ==
    /\ Checks(p) /\ Confirmed(p)
    /\ work' = Checkpointed(p)
    /\ Checked(p)
    /\ UNCHANGED <<forum, flow, gw, file, spent>>

(* It is too early to look after the post, or the gateway does not answer. *)
LeavePost(p) ==
    /\ Checks(p)
    /\ \/ ~Confirmed(p) /\ ~work.pending[p].due /\ UNCHANGED spent
       \/ Fault
    /\ Checked(p)
    /\ UNCHANGED <<forum, flow, gw, file, work>>

(* retire_unavailable_pending_post: the second observation in a row that   *)
(* the post is gone retires it.  Any other answer starts again.            *)
Observed_Raw(p, status) ==      \* fault: whatever is observed is noted
    [work EXCEPT !.pending[p].missing = status]
Observed_Sticky(p, status) ==   \* fault: a post seen again is still missing
    IF status \notin {"HIDDEN", "NOT_FOUND"} THEN work
    ELSE IF work.pending[p].missing = status
    THEN [work EXCEPT !.pending = Without(@, {p}), !.retired = @ \cup {p}]
    ELSE [work EXCEPT !.pending[p].missing = status]
Observed(p, status) ==
    LET gone == status \in {"HIDDEN", "NOT_FOUND"}
    IN IF gone /\ work.pending[p].missing = status
       THEN [work EXCEPT !.pending = Without(@, {p}), !.retired = @ \cup {p}]
       ELSE [work EXCEPT !.pending[p].missing = IF gone THEN status ELSE "NONE"]

LookAfterPost(p) ==
    /\ Checks(p) /\ ~Confirmed(p)
    /\ \/ work' = Observed(p, posts[p].status) /\ UNCHANGED spent
       \/ work' = Observed(p, "UNKNOWN") /\ Fault
    /\ Checked(p)
    /\ UNCHANGED <<forum, flow, gw, file>>

(* gateway_resolution_is_confirmed.                                        *)
Finished(pick) ==
    gw.resolved /\ pick.post \in {gw.source, gw.kb} /\ gw.kb # 0 /\ gw.selected

ConfirmResolution(pick) ==
    /\ poll.pc = "confirm" /\ poll.todo = {}
    /\ pick \in work.asked /\ Finished(pick)
    /\ work' = [work EXCEPT !.asked = @ \ {pick}, !.snap.post = pick.post,
                            !.snap.at = pick.at]
    /\ poll' = [poll EXCEPT !.settled = TRUE]
    /\ UNCHANGED <<forum, flow, gw, file, spent>>

(* A discussion that looks as before is left alone; of any other the posts *)
(* are read, and whether it has a case.  A post that is pending waits until *)
(* it is overdue, and the discussion with it.                              *)
Changed == work.snap # poll.list
Awaited(p) ==
    /\ p \in DOMAIN work.pending
    /\ work.pending[p].missing # "NONE" \/ ~work.pending[p].due

Pass ==
    /\ poll.pc = "confirm" /\ poll.todo = {} /\ ~Changed
    /\ Finish(work)
    /\ UNCHANGED <<forum, flow, gw, spent>>

(* A retired post that is back is taken off the list.  One whose           *)
(* visibility cannot be told is passed over, and the discussion is not     *)
(* held back for it.                                                       *)
StillRetired(passed) == work.retired \ (Visible \ passed)

Visit ==
    /\ poll.pc = "confirm" /\ poll.todo = {} /\ Changed
    /\ \E passed \in SUBSET (work.retired \cap Visible) :
          LET open == Visible \ (work.seen \cup passed)
              awaited == { p \in open : Awaited(p) }
          IN /\ poll' = [poll EXCEPT !.pc = "events", !.events = open \ awaited,
                                     !.hold = awaited # {},
                                     !.shown = IF Known THEN {} ELSE Visible]
             /\ work' = [work EXCEPT !.retired = StillRetired(passed)]
             /\ IF passed = {} THEN UNCHANGED spent ELSE Fault
    /\ UNCHANGED <<forum, flow, gw, file>>

(* The posts in order.                                                     *)
Due(p) == poll.pc = "events" /\ poll.events # {} /\ p = Min(poll.events)
Pending(p) == p \in DOMAIN work.pending

(* Without a case a later post speaks for the earlier ones of people.      *)
Coalesced(p) ==
    IF p = 1 THEN {} ELSE { q \in poll.shown : q < p /\ posts[q].by # "ASSISTANT" }
Submitted(p) ==
    [pub |-> Asks(p), with |-> Coalesced(p), missing |-> "NONE", due |-> FALSE]
Accept(pending, p) ==
    [q \in DOMAIN pending \cup {p} |-> IF q = p THEN Submitted(p) ELSE pending[q]]

(* The webhook accepts the post; the file is written.                      *)
SubmitPost(p) ==
    /\ Due(p)
    /\ flow' = flow \cup {PostEvent(p, Coalesced(p))}
    /\ work' = [work EXCEPT !.pending = Accept(@, p)]
    /\ file' = work'
    /\ poll' = [poll EXCEPT !.events = @ \ {p}, !.hold = TRUE]
    /\ UNCHANGED <<forum, gw, spent>>

(* The webhook does not answer, though it may have accepted the post: the  *)
(* rest of the discussion waits for the next poll.                         *)
Failed_Handled(p) == [poll EXCEPT !.events = {}]     \* fault: it is not held back
Failed(p) == [poll EXCEPT !.events = {}, !.hold = TRUE]

FailPost(p) ==
    /\ Due(p)
    /\ flow' \in {flow, flow \cup {PostEvent(p, Coalesced(p))}}
    /\ work' = IF Pending(p) THEN [work EXCEPT !.pending[p].due = FALSE] ELSE work
    /\ file' = IF Pending(p) THEN work' ELSE file
    /\ poll' = Failed(p)
    /\ Fault
    /\ UNCHANGED <<forum, gw>>

(* All posts have been dealt with: the best answer, then the snapshot.     *)
AfterPosts == poll.pc = "events" /\ poll.events = {}
Moved == work.snap.post # poll.list.post \/ work.snap.at # poll.list.at
Asked == [post |-> poll.list.post, at |-> poll.list.at]

Hold ==
    /\ AfterPosts /\ poll.hold
    /\ Finish(work)
    /\ UNCHANGED <<forum, flow, gw, spent>>

Snapshot == poll.list

TakeSnapshot ==
    /\ AfterPosts /\ ~poll.hold /\ (Moved => poll.settled)
    /\ Finish([work EXCEPT !.snap = Snapshot])
    /\ UNCHANGED <<forum, flow, gw, spent>>

SubmitResolution ==
    /\ AfterPosts /\ ~poll.hold /\ Moved /\ ~poll.settled
    /\ flow' = flow \cup {ResolutionEvent(Asked)}
    /\ Finish([work EXCEPT !.asked = @ \cup {Asked}])
    /\ UNCHANGED <<forum, gw, spent>>

(* It is not overdue yet, or the webhook does not answer.                  *)
LeaveResolution ==
    /\ AfterPosts /\ ~poll.hold /\ Moved /\ ~poll.settled
    /\ \/ Asked \in work.asked /\ UNCHANGED <<flow, spent>>
       \/ flow' \in {flow, flow \cup {ResolutionEvent(Asked)}} /\ Fault
    /\ Finish(work)
    /\ UNCHANGED <<forum, gw>>

(* The poll ends with an exception, or the poller stops: what the file     *)
(* does not say is forgotten.                                              *)
Abort ==
    /\ poll.pc # "idle"
    /\ work' = file /\ poll' = Idle
    /\ Fault
    /\ UNCHANGED <<forum, flow, gw, file>>

----------------------------------------------------------------------------
PostId == 1..MaxPosts

Poll ==
    \/ Discover \/ Pass \/ Visit \/ Hold \/ TakeSnapshot
    \/ SubmitResolution \/ LeaveResolution
    \/ \E p \in PostId : \/ ConfirmPost(p) \/ LeavePost(p) \/ LookAfterPost(p)
                         \/ SubmitPost(p) \/ FailPost(p)
    \/ \E pick \in work.asked : ConfirmResolution(pick)

Next ==
    \/ \E who \in {"REQUESTER", "STAFF"} : Write(who)
    \/ \E p \in 1..Len(posts) :
          \/ Pick(p)
          \/ \E gone \in {"HIDDEN", "NOT_FOUND"} : Edit(p, "VISIBLE", gone)
          \/ Edit(p, "HIDDEN", "VISIBLE")
    \/ Unpick
    \/ Gateway \/ Poll \/ Abort \/ TimePasses

(* The poller polls again and again, time passes in between, and the flow  *)
(* delivers what it has accepted.                                          *)
Deliver(p) == \E e \in flow : e.kind = "post" /\ e.post = p /\ Handle(e)
Fairness ==
    /\ WF_vars(Poll)
    /\ SF_vars(TimePasses)
    /\ \A p \in PostId : WF_vars(Deliver(p))

Spec == Init /\ [][Next]_vars /\ Fairness

----------------------------------------------------------------------------
(* Properties.                                                             *)

EntryType == [pub : BOOLEAN, with : SUBSET PostId, due : BOOLEAN,
              missing : {"NONE", "HIDDEN", "NOT_FOUND"}]
SnapshotType == [count : Nat, post : Nat, at : Nat]
PickType == [post : Nat, at : Nat]
IsFile(f) ==
    /\ DOMAIN f = {"seen", "pending", "asked", "retired", "snap"}
    /\ f.seen \subseteq PostId /\ f.retired \subseteq PostId
    /\ DOMAIN f.pending \subseteq PostId
    /\ \A p \in DOMAIN f.pending : f.pending[p] \in EntryType
    /\ f.asked \subseteq PickType
    /\ f.snap \in SnapshotType

(* Every variable has its type.                                            *)
TypeOK ==
    /\ posts \in Seq([by : {"REQUESTER", "STAFF", "ASSISTANT"},
                      status : {"VISIBLE", "HIDDEN", "NOT_FOUND"}])
    /\ best \in [post : Nat, at : Nat, last : Nat]
    /\ flow \subseteq [kind : {"post", "resolution"}, post : Nat, at : Nat,
                       with : SUBSET PostId]
    /\ gw \in [turns : SUBSET PostId, lastSeen : Nat, published : BOOLEAN,
               resolved : BOOLEAN, source : Nat, kb : Nat, kbSource : Nat,
               selected : BOOLEAN, heard : SUBSET PickType,
               read : SUBSET PostId, finished : SUBSET PostId]
    /\ IsFile(file) /\ IsFile(work)
    /\ poll \in [pc : {"idle", "confirm", "events"}, list : SnapshotType,
                 todo : SUBSET PostId, shown : SUBSET PostId,
                 events : SUBSET PostId, hold : BOOLEAN, settled : BOOLEAN]
    /\ spent \in [upsets : Nat, edited : BOOLEAN]

(* A post is checkpointed only when the gateway has taken it or a later    *)
(* one of the discussion: never on the strength of the webhook's answer.   *)
CheckpointWasReached ==
    \A p \in file.seen : \E q \in gw.turns : q >= p

(* The poller skips a discussion that looks as it did at its last          *)
(* snapshot.  Until somebody hides or deletes a post, nothing is missed by *)
(* that, although the list and the posts are read at different times, the  *)
(* poll may stop anywhere, and a best answer may come and go.              *)
NothingOverlooked ==
    ~spent.edited /\ file.snap = Summary => Visible \subseteq file.seen

(* The snapshot takes over a best answer only when the gateway has carried *)
(* its resolution through, to the selection of the knowledge post.         *)
SnapshotFollowsResolution ==
    file.snap.post # 0 => file.snap.post \in gw.finished

(* Every post that stays visible is taken by the gateway or checkpointed,  *)
(* unless edits make the discussion look as it did before.                 *)
EveryPostIsTaken ==
    \A p \in PostId :
       p \in Visible ~> \/ p \in gw.turns \/ p \in file.seen \/ p \notin Visible
                        \/ spent.edited /\ file.snap = Summary

(* What is checkpointed has been accepted: the gateway has the post, or a  *)
(* later one that carried its text                                         *)
(* (docs/runbooks/epic4-service-continuity.md:24).                         *)
CheckpointIsAccepted == file.seen \subseteq gw.read
============================================================================

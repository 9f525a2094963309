------------------------ MODULE CommunityPollerProofs ------------------------
(***************************************************************************)
(* Theorems about CommunityPoller, for any number of posts, of people's    *)
(* changes and of faults.                                                  *)
(***************************************************************************)
EXTENDS CommunityPoller, FiniteSetTheorems, SequenceTheorems, WellFoundedInduction, TLAPS

PostType == [by : {"REQUESTER", "STAFF", "ASSISTANT"},
             status : {"VISIBLE", "HIDDEN", "NOT_FOUND"}]

(* Until somebody edits a post, all posts can be seen.                     *)
ForumOK ==
    /\ posts \in Seq(PostType) /\ Len(posts) \in PostId
    /\ best \in [post : 0..Len(posts), at : Nat, last : Nat]
    /\ spent \in [upsets : Nat, edited : BOOLEAN]
    /\ ~spent.edited => \A p \in 1..Len(posts) : posts[p].status = "VISIBLE"

(* Events are about posts that exist.                                      *)
EventsUpTo(n) ==
    [kind : {"post"}, post : 1..n, at : {0}, with : SUBSET PostId]
    \cup [kind : {"resolution"}, post : 0..n, at : Nat, with : {{}}]

(* The last post the gateway has taken is one it has; a resolution that is *)
(* carried through is remembered as such.                                  *)
CaseType == [turns : SUBSET PostId, lastSeen : 0..MaxPosts, published : BOOLEAN,
             resolved : BOOLEAN, source : 0..MaxPosts, kb : 0..MaxPosts,
             kbSource : 0..MaxPosts, selected : BOOLEAN, heard : SUBSET PickType,
             read : SUBSET PostId, finished : SUBSET PostId]
CaseFits(case) ==
    /\ case \in CaseType
    /\ case.lastSeen # 0 => case.lastSeen \in case.turns
    /\ case.kb # 0 => case.source # 0
    /\ case.resolved /\ case.kb # 0 /\ case.selected =>
           {case.source, case.kb} \subseteq case.finished

(* What a state file may say, of n posts of which the gateway has taken    *)
(* turns, and carried the resolutions finished through.  An event carries  *)
(* earlier posts only; until posts are edited none is retired, and what    *)
(* the snapshot counts is checkpointed.                                    *)
FileFits(f, n, turns, finished, edited) ==
    /\ IsFile(f)
    /\ DOMAIN f.pending \subseteq 1..n
    /\ \A p \in DOMAIN f.pending : f.pending[p].with \subseteq 1..(p - 1)
    /\ \A pick \in f.asked : pick.post \in 0..n
    /\ \A p \in f.seen : \E q \in turns : q >= p
    /\ f.snap.post # 0 => f.snap.post \in finished
    /\ ~edited => /\ f.retired = {} /\ f.snap.count <= n
                  /\ 1..f.snap.count \subseteq f.seen
Fits(f) == FileFits(f, Len(posts), gw.turns, gw.finished, spent.edited)

(* A poll looks for the resolutions of the best answer of its list only;   *)
(* until posts are edited, what its list counts is checkpointed or one of  *)
(* its events, unless the discussion is held back.                         *)
PollFits(now, f, n, edited) ==
    /\ now \in [pc : {"idle", "confirm", "events"}, list : SnapshotType,
                todo : SUBSET PostId, shown : SUBSET PostId,
                events : SUBSET (1..n), hold : BOOLEAN, settled : BOOLEAN]
    /\ now.list.post \in 0..n
    /\ now.todo \subseteq DOMAIN f.pending
    /\ now.pc = "idle" => now.todo = {}
    /\ now.pc # "idle" =>
           /\ \A pick \in f.asked : pick.post = now.list.post
           /\ now.settled => f.snap.post = now.list.post
           /\ ~edited => now.list.count <= n
    /\ ~edited /\ now.pc = "events" /\ ~now.hold =>
           1..now.list.count \subseteq f.seen \cup now.events

PollerInv ==
    /\ ForumOK
    /\ flow \subseteq EventsUpTo(Len(posts))
    /\ CaseFits(gw) /\ gw.kb <= Len(posts)
    /\ Fits(file) /\ Fits(work)
    /\ PollFits(poll, work, Len(posts), spent.edited)

----------------------------------------------------------------------------
(* The first n posts are n.                                                *)
LEMMA UpTo == ASSUME NEW n \in Nat PROVE IsFiniteSet(1..n) /\ Cardinality(1..n) = n
<1>1. 1 \in Int /\ n \in Int
  OBVIOUS
<1>2. /\ IsFiniteSet(1..n)
      /\ Cardinality(1..n) = IF 1 > n THEN 0 ELSE n - 1 + 1
  BY <1>1, FS_Interval
<1> QED BY <1>2

(* There is a least number in every set of posts.                          *)
LEMMA LeastIsOne ==
  ASSUME NEW S \in SUBSET PostId, S # {}
  PROVE  Min(S) \in S /\ \A q \in S : Min(S) <= q
<1> DEFINE Less == OpToRel(<, Nat)
<1>1. IsWellFoundedOn(Less, Nat)
  BY NatLessThanWellFounded
<1>2. \A m, n \in Nat : m < n => <<m, n>> \in Less
  BY DEF OpToRel
<1>3. S \subseteq Nat
  BY BoundsAssumption DEF PostId
<1> HIDE DEF Less
<1>4. PICK n \in S : \A m \in S : <<m, n>> \notin Less
  BY <1>1, <1>3, WFMin
<1>5. \A m \in S : n <= m
  <2>1. ASSUME NEW m \in S PROVE n <= m
    <3>1. m \in Nat /\ n \in Nat
      BY <1>3
    <3>2. ~(m < n)
      BY <1>2, <1>4, <3>1
    <3>3. QED
      BY <3>1, <3>2
  <2>2. QED
    BY <2>1
<1>6. QED
  BY <1>5 DEF Min

(* The list counts as many posts as can be seen; all of them, until        *)
(* somebody edits one.                                                     *)
LEMMA SummaryCounts ==
  ASSUME ForumOK
  PROVE  /\ Summary \in SnapshotType /\ Summary.post = best.post
         /\ Summary.count <= Len(posts)
         /\ ~spent.edited => Visible = 1..Len(posts) /\ Summary.count = Len(posts)
<1>1. Len(posts) \in Nat /\ best.post \in Nat /\ best.at \in Nat
  BY BoundsAssumption DEF ForumOK, PostId
<1>2. IsFiniteSet(1..Len(posts)) /\ Cardinality(1..Len(posts)) = Len(posts)
  BY <1>1, UpTo
<1>3. Visible \subseteq 1..Len(posts)
  BY DEF Visible
<1>4. Cardinality(Visible) \in Nat /\ Cardinality(Visible) <= Len(posts)
  BY <1>1, <1>2, <1>3, FS_Subset, FS_CardinalityType
<1>5. ~spent.edited => Visible = 1..Len(posts)
  BY DEF ForumOK, Visible
<1>6. QED
  BY <1>1, <1>2, <1>4, <1>5 DEF Summary, SnapshotType

(* What fits a file still does when posts are written, the gateway takes   *)
(* more of them and resolutions are carried through.                       *)
LEMMA FileStays ==
  ASSUME NEW f, NEW n \in Nat, NEW m \in Nat, n <= m,
         NEW turns, NEW more, turns \subseteq more,
         NEW finished, NEW further, finished \subseteq further,
         NEW edited \in BOOLEAN, NEW now \in BOOLEAN, edited => now,
         FileFits(f, n, turns, finished, edited)
  PROVE  FileFits(f, m, more, further, now)
<1>1. IsFile(f) /\ f.snap.count \in Nat
  BY DEF FileFits, IsFile, SnapshotType
<1>2. 1..n \subseteq 1..m /\ 0..n \subseteq 0..m
  OBVIOUS
<1>3. QED
  BY <1>1, <1>2 DEF FileFits

LEMMA PollStays ==
  ASSUME NEW n \in Nat, NEW m \in Nat, n <= m, NEW f,
         NEW edited \in BOOLEAN, NEW now \in BOOLEAN, edited => now,
         NEW it, PollFits(it, f, n, edited)
  PROVE  PollFits(it, f, m, now)
<1>1. 1..n \subseteq 1..m /\ 0..n \subseteq 0..m
  OBVIOUS
<1>2. it.list.count \in Nat
  BY DEF PollFits, SnapshotType
<1>3. it \in [pc : {"idle", "confirm", "events"}, list : SnapshotType,
              todo : SUBSET PostId, shown : SUBSET PostId,
              events : SUBSET (1..m), hold : BOOLEAN, settled : BOOLEAN]
  BY <1>1 DEF PollFits
<1>4. QED
  BY <1>1, <1>2, <1>3 DEF PollFits

(* A step of people or of the gateway leaves the poller to its view.       *)
LEMMA PollerUnmoved ==
  ASSUME PollerInv, UNCHANGED poller, ForumOK', flow' \subseteq flow,
         CaseFits(gw)', gw'.kb <= Len(posts'), Len(posts) <= Len(posts'), spent.edited => spent'.edited,
         gw.turns \subseteq gw'.turns, gw.finished \subseteq gw'.finished
  PROVE  PollerInv'
<1>1. Len(posts) \in Nat /\ Len(posts') \in Nat
  BY BoundsAssumption DEF PollerInv, ForumOK, PostId
<1>2. spent.edited \in BOOLEAN /\ spent'.edited \in BOOLEAN
  BY DEF PollerInv, ForumOK
<1>3. 1..Len(posts) \subseteq 1..Len(posts') /\ 0..Len(posts) \subseteq 0..Len(posts')
  BY <1>1
<1>4. EventsUpTo(Len(posts)) \subseteq EventsUpTo(Len(posts'))
  BY <1>3 DEF EventsUpTo
<1>5. Fits(file)' /\ Fits(work)'
  BY <1>1, <1>2, FileStays DEF PollerInv, Fits, poller
<1>6. PollFits(poll, work, Len(posts), spent.edited)'
  BY <1>1, <1>2, PollStays DEF PollerInv, poller
<1>7. QED
  BY <1>4, <1>5, <1>6 DEF PollerInv

----------------------------------------------------------------------------
(* People.                                                                 *)

LEMMA WrittenPostFits ==
  ASSUME ForumOK, Len(posts) < MaxPosts, NEW who \in {"REQUESTER", "STAFF", "ASSISTANT"},
         posts' = Append(posts, PostBy(who))
  PROVE  /\ posts' \in Seq(PostType) /\ Len(posts') = Len(posts) + 1
         /\ Len(posts') \in PostId
         /\ ~spent.edited => \A p \in 1..Len(posts') : posts'[p].status = "VISIBLE"
<1>1. PostBy(who) \in PostType /\ PostBy(who).status = "VISIBLE"
  BY DEF PostBy, PostType
<1>2. /\ posts' \in Seq(PostType) /\ Len(posts') = Len(posts) + 1
      /\ \A p \in 1..Len(posts) : posts'[p] = posts[p]
      /\ posts'[Len(posts) + 1] = PostBy(who)
  BY <1>1, AppendProperties DEF ForumOK
<1>3. Len(posts) \in Nat /\ Len(posts') \in PostId
  BY <1>2, BoundsAssumption DEF ForumOK, PostId
<1>4. ASSUME ~spent.edited, NEW p \in 1..Len(posts')
      PROVE  posts'[p].status = "VISIBLE"
  <2>1. p \in 1..Len(posts) \/ p = Len(posts) + 1
    BY <1>2, <1>3
  <2>2. QED
    BY <1>1, <1>2, <1>4, <2>1 DEF ForumOK
<1>5. QED
  BY <1>2, <1>3, <1>4

LEMMA PeopleKeep ==
  ASSUME PollerInv,
         \/ \E who \in {"REQUESTER", "STAFF"} : Write(who)
         \/ \E p \in 1..Len(posts) :
               \/ Pick(p)
               \/ \E gone \in {"HIDDEN", "NOT_FOUND"} : Edit(p, "VISIBLE", gone)
               \/ Edit(p, "HIDDEN", "VISIBLE")
         \/ Unpick
  PROVE  PollerInv'
<1>1. ForumOK /\ Len(posts) \in Nat /\ spent.upsets \in Nat /\ best.last + 1 \in Nat
  BY BoundsAssumption DEF PollerInv, ForumOK, PostId
<1>2. UNCHANGED <<flow, gw, poller>>
  BY DEF Write, Pick, Edit, Unpick
<1>3. ForumOK' /\ Len(posts) <= Len(posts') /\ (spent.edited => spent'.edited)
  <2>1. CASE \E who \in {"REQUESTER", "STAFF"} : Write(who)
    <3>1. PICK who \in {"REQUESTER", "STAFF"} : Write(who)
      BY <2>1
    <3>2. posts' = Append(posts, PostBy(who)) /\ UNCHANGED <<best, spent>> /\ Len(posts) < MaxPosts
      BY <3>1 DEF Write
    <3>3. QED
      BY <1>1, <3>2, WrittenPostFits DEF ForumOK
  <2>2. CASE \E p \in 1..Len(posts) : Pick(p)
    <3>1. PICK p \in 1..Len(posts) : Pick(p)
      BY <2>2
    <3>2. /\ best' = Selected(p) /\ UNCHANGED posts
          /\ spent' = [upsets |-> spent.upsets + 1, edited |-> spent.edited]
      BY <1>1, <3>1 DEF Pick, Spend, ForumOK
    <3>3. QED
      BY <1>1, <3>1, <3>2 DEF ForumOK, Selected
  <2>3. CASE Unpick
    <3>1. /\ best' = [best EXCEPT !.post = 0, !.at = 0] /\ UNCHANGED posts
          /\ spent' = [upsets |-> spent.upsets + 1, edited |-> spent.edited]
      BY <1>1, <2>3 DEF Unpick, Spend, ForumOK
    <3>2. /\ 0 \in 0..Len(posts) /\ 0 \in Nat
          /\ best \in [post : 0..Len(posts), at : Nat, last : Nat]
      BY <1>1 DEF ForumOK
    <3>3. best' \in [post : 0..Len(posts), at : Nat, last : Nat]
      BY <3>1, <3>2
    <3>4. QED
      BY <1>1, <3>1, <3>3 DEF ForumOK
  <2>4. ASSUME NEW p \in 1..Len(posts), NEW from, NEW to \in {"VISIBLE", "HIDDEN", "NOT_FOUND"},
               Edit(p, from, to)
        PROVE  ForumOK' /\ Len(posts) <= Len(posts') /\ (spent.edited => spent'.edited)
    <3>1. /\ posts' = [posts EXCEPT ![p] = [posts[p] EXCEPT !.status = to]] /\ UNCHANGED best
          /\ spent' = [upsets |-> spent.upsets + 1, edited |-> TRUE]
      BY <1>1, <2>4 DEF Edit, Spend, ForumOK
    <3>2. posts[p] \in PostType
      BY <1>1, LenProperties DEF ForumOK
    <3>3. [posts[p] EXCEPT !.status = to] \in PostType
      BY <3>2 DEF PostType
    <3>4. posts' \in Seq(PostType) /\ Len(posts') = Len(posts)
      BY <1>1, <3>1, <3>3, ExceptSeq DEF ForumOK
    <3>5. QED
      BY <1>1, <3>1, <3>4 DEF ForumOK
  <2>5. QED
    BY <2>1, <2>2, <2>3, <2>4
<1>4. CaseFits(gw)' /\ flow' \subseteq flow /\ gw.turns \subseteq gw'.turns
      /\ gw.finished \subseteq gw'.finished /\ UNCHANGED poller
      /\ gw'.kb = gw.kb /\ gw.kb <= Len(posts) /\ gw.kb \in Nat
  BY <1>2 DEF PollerInv, CaseFits, CaseType
<1>5. gw'.kb <= Len(posts')
  BY <1>1, <1>3, <1>4, BoundsAssumption DEF ForumOK, PostId
<1>6. QED
  BY <1>3, <1>4, <1>5, PollerUnmoved

----------------------------------------------------------------------------
(* The gateway.                                                            *)

LEMMA WithoutResolutionFits ==
  ASSUME NEW case \in CaseType, case.lastSeen # 0 => case.lastSeen \in case.turns
  PROVE  /\ CaseFits(WithoutResolution(case)) /\ WithoutResolution(case).kb = 0
         /\ WithoutResolution(case).turns = case.turns
         /\ WithoutResolution(case).finished = case.finished
<1> DEFINE done == WithoutResolution(case)
<1>1. 0 \in 0..MaxPosts
  BY BoundsAssumption
<1>2. done \in CaseType
  BY <1>1 DEF CaseType, WithoutResolution
<1>3. /\ done.turns = case.turns /\ done.finished = case.finished
      /\ done.lastSeen = case.lastSeen /\ done.kb = 0 /\ done.resolved = FALSE
  BY DEF CaseType, WithoutResolution
<1>4. QED
  BY <1>2, <1>3 DEF CaseFits

(* It has taken the post of an event, and perhaps reopened the case.       *)
LEMMA ReceivedFits ==
  ASSUME CaseFits(gw), NEW e, e.post \in PostId, e.with \in SUBSET PostId,
         \/ gw' = Received(e)
         \/ ~gw.resolved /\ gw' = [Received(e) EXCEPT !.published = FALSE]
         \/ gw' = WithoutResolution([Received(e) EXCEPT !.published = FALSE])
  PROVE  /\ CaseFits(gw)' /\ gw'.kb \in {gw.kb, 0}
         /\ gw.turns \subseteq gw'.turns /\ gw.finished \subseteq gw'.finished
<1> DEFINE new == Received(e)
           open == [new EXCEPT !.published = FALSE]
<1>1. PostId \subseteq 0..MaxPosts
  BY BoundsAssumption DEF PostId
<1>2. /\ new \in CaseType
      /\ new.turns = gw.turns \cup {e.post} /\ new.lastSeen = e.post
      /\ new.finished = gw.finished /\ new.kb = gw.kb /\ new.source = gw.source
      /\ new.resolved = gw.resolved /\ new.selected = gw.selected
  BY <1>1 DEF CaseFits, CaseType, Received
<1> HIDE DEF new
<1>3. /\ open \in CaseType
      /\ open.turns = new.turns /\ open.lastSeen = new.lastSeen
      /\ open.finished = new.finished /\ open.kb = new.kb /\ open.source = new.source
      /\ open.resolved = new.resolved /\ open.selected = new.selected
  BY <1>2 DEF CaseType
<1> HIDE DEF open
<1>4. CaseFits(new) /\ CaseFits(open)
  BY <1>2, <1>3 DEF CaseFits
<1>5. gw' = new \/ gw' = open \/ gw' = WithoutResolution(open)
  BY DEF new, open
<1>6. CaseFits(WithoutResolution(open)) /\ WithoutResolution(open).kb = 0
      /\ WithoutResolution(open).turns = open.turns
      /\ WithoutResolution(open).finished = open.finished
  BY <1>2, <1>3, WithoutResolutionFits
<1>7. QED
  BY <1>2, <1>3, <1>4, <1>5, <1>6

(* A case that is settled remembers its resolution.                        *)
LEMMA SettledFits ==
  ASSUME NEW case \in CaseType, case.kb # 0 => case.source # 0,
         case.lastSeen # 0 => case.lastSeen \in case.turns
  PROVE  /\ CaseFits(Settled(case)) /\ Settled(case).kb = case.kb
         /\ Settled(case).turns = case.turns
         /\ case.finished \subseteq Settled(case).finished
<1>1. case.source \in PostId \cup {0} /\ case.kb \in PostId \cup {0}
  BY BoundsAssumption DEF CaseType, PostId
<1>2. CASE case.resolved /\ case.kb # 0 /\ case.selected
  <2>1. Settled(case) = [case EXCEPT !.finished = @ \cup {case.source, case.kb}]
    BY <1>2 DEF Settled
  <2>2. {case.source, case.kb} \subseteq PostId
    BY <1>1, <1>2
  <2>3. Settled(case) \in CaseType
    BY <2>1, <2>2 DEF CaseType
  <2>4. QED
    BY <2>1, <2>3 DEF CaseFits, CaseType
<1>3. CASE ~(case.resolved /\ case.kb # 0 /\ case.selected)
  BY <1>3 DEF Settled, CaseFits
<1>4. QED
  BY <1>2, <1>3

(* What is on record of the best answers makes no difference to that.      *)
LEMMA RecordFits ==
  ASSUME NEW case, CaseFits(case), NEW e, e.post \in Nat, e.at \in Nat
  PROVE  /\ CaseFits(Record(case, e)) /\ Record(case, e).kb = case.kb
         /\ Record(case, e).turns = case.turns
         /\ Record(case, e).finished = case.finished
<1>1. [post |-> e.post, at |-> e.at] \in PickType
  BY DEF PickType
<1>2. CASE Record(case, e) = case
  BY <1>2
<1>3. CASE Record(case, e) = [case EXCEPT !.heard = @ \cup {[post |-> e.post, at |-> e.at]}]
  <2>1. Record(case, e) \in CaseType
    BY <1>1, <1>3 DEF CaseFits, CaseType
  <2>2. QED
    BY <1>3, <2>1 DEF CaseFits, CaseType
<1>4. QED
  BY <1>2, <1>3 DEF Record

LEMMA HandleKeeps == ASSUME PollerInv, NEW e \in flow, Handle(e) PROVE PollerInv'
<1>1. /\ e.post \in 0..Len(posts) /\ e.at \in Nat /\ e.with \in SUBSET PostId
      /\ e.kind = "post" => e.post \in PostId
      /\ Len(posts) \in PostId
  BY BoundsAssumption DEF PollerInv, EventsUpTo, ForumOK, PostId
<1>2. 0..Len(posts) \subseteq 0..MaxPosts
  BY <1>1, BoundsAssumption DEF PostId
<1>3. CaseFits(gw) /\ UNCHANGED <<forum, poller, spent>> /\ flow' \subseteq flow
  BY DEF PollerInv, Handle
<1>4. ForumOK'
  BY <1>3 DEF PollerInv, ForumOK, forum
<1> DEFINE Goal == CaseFits(gw)' /\ gw'.kb \in {gw.kb, 0} /\ gw.turns \subseteq gw'.turns
                   /\ gw.finished \subseteq gw'.finished
<1>5. ASSUME UNCHANGED gw
      PROVE  Goal
  BY <1>3, <1>5
<1>6. ASSUME e.kind = "post" /\ (RecordPost(e) \/ AnswerPost(e))
      PROVE  Goal
  <2>1. \/ gw' = Received(e)
        \/ ~gw.resolved /\ gw' = [Received(e) EXCEPT !.published = FALSE]
        \/ gw' = WithoutResolution([Received(e) EXCEPT !.published = FALSE])
    <3>1. gw.resolved \in BOOLEAN
      BY <1>3 DEF CaseFits, CaseType
    <3>2. QED
      BY <1>6, <3>1 DEF RecordPost, AnswerPost
  <2>2. QED
    BY <1>1, <1>3, <1>6, <2>1, ReceivedFits
<1>7. ASSUME e.post # 0 /\ \E authority \in BOOLEAN : gw' = Record(Resolution(e, authority), e)
      PROVE  Goal
  <2>1. PICK authority \in BOOLEAN : gw' = Record(Resolution(e, authority), e)
    BY <1>7
  <2> DEFINE case == Resolution(e, authority)
  <2>2. CaseFits(case) /\ case.kb = gw.kb /\ case.turns = gw.turns
        /\ gw.finished \subseteq case.finished
    <3>1. CASE e.post = gw.kb
      <4> DEFINE chosen == [gw EXCEPT !.resolved = TRUE, !.selected = TRUE]
      <4>1. /\ chosen \in CaseType /\ chosen.kb = gw.kb /\ chosen.source = gw.source
            /\ chosen.turns = gw.turns /\ chosen.lastSeen = gw.lastSeen
            /\ chosen.finished = gw.finished
        BY <1>3 DEF CaseFits, CaseType
      <4>2. case = Settled(chosen)
        BY <3>1 DEF Resolution
      <4> HIDE DEF chosen
      <4>3. CaseFits(Settled(chosen)) /\ Settled(chosen).kb = chosen.kb
            /\ Settled(chosen).turns = chosen.turns
            /\ chosen.finished \subseteq Settled(chosen).finished
        BY <1>3, <4>1, SettledFits DEF CaseFits
      <4>4. QED
        BY <4>1, <4>2, <4>3
    <3>2. CASE e.post # gw.kb
      <4>1. case = [gw EXCEPT !.resolved = authority, !.source = e.post, !.selected = FALSE]
        BY <3>2 DEF Resolution
      <4>2. e.post \in 0..MaxPosts
        BY <1>1, <1>2
      <4>3. case \in CaseType
        BY <1>3, <4>1, <4>2 DEF CaseFits, CaseType
      <4>4. /\ case.turns = gw.turns /\ case.finished = gw.finished
            /\ case.lastSeen = gw.lastSeen /\ case.kb = gw.kb /\ case.selected = FALSE /\ case.source = e.post
        BY <1>3, <4>1 DEF CaseFits, CaseType
      <4>5. QED
        BY <1>3, <1>7, <4>3, <4>4 DEF CaseFits
    <3>3. QED
      BY <3>1, <3>2
  <2> HIDE DEF case
  <2>3. e.post \in Nat
    BY <1>1
  <2>4. QED
    BY <1>1, <2>1, <2>2, <2>3, RecordFits DEF case
<1>8. ASSUME gw' = Record(WithoutResolution(gw), e)
      PROVE  Goal
  <2> DEFINE case == WithoutResolution(gw)
  <2>1. CaseFits(case) /\ case.kb = 0 /\ case.turns = gw.turns /\ case.finished = gw.finished
    BY <1>3, WithoutResolutionFits DEF CaseFits
  <2> HIDE DEF case
  <2>2. e.post \in Nat
    BY <1>1
  <2>3. QED
    BY <1>1, <1>8, <2>1, <2>2, RecordFits DEF case
<1>9. Goal
  BY <1>5, <1>6, <1>7, <1>8
     DEF Handle, RefusePost, Resolve, Reopen, RefuseResolution
<1>10. UNCHANGED poller /\ Len(posts) <= Len(posts') /\ (spent.edited => spent'.edited)
  BY <1>1, <1>3 DEF forum, PostId
<1>11. gw'.kb <= Len(posts')
  BY <1>1, <1>3, <1>9, BoundsAssumption DEF PollerInv, CaseFits, CaseType, forum, PostId
<1>12. QED
  BY <1>3, <1>4, <1>9, <1>10, <1>11, PollerUnmoved

LEMMA GatewayKeeps == ASSUME PollerInv, Gateway PROVE PollerInv'
<1>1. /\ CaseFits(gw) /\ gw.kb \in 0..Len(posts)
      /\ ForumOK /\ Len(posts) \in Nat /\ Len(posts) \in PostId
      /\ 0..MaxPosts = {0} \cup PostId
  BY BoundsAssumption DEF PollerInv, ForumOK, PostId, CaseFits, CaseType
<1>2. CASE \E e \in flow : Handle(e)
  BY <1>2, HandleKeeps
<1>3. CASE \E e \in flow : Lose(e)
  <2>1. flow' \subseteq flow /\ UNCHANGED <<forum, gw, poller>>
    BY <1>3 DEF Lose
  <2>2. spent' = [upsets |-> spent.upsets + 1, edited |-> spent.edited]
    BY <1>1, <1>3 DEF Lose, Fault, Spend, ForumOK
  <2>3. ForumOK' /\ Len(posts) <= Len(posts')
    BY <1>1, <2>1, <2>2 DEF ForumOK, forum
  <2>4. CaseFits(gw)' /\ UNCHANGED poller /\ gw'.kb <= Len(posts')
    BY <1>1, <2>1 DEF forum
  <2>5. QED
    BY <2>1, <2>2, <2>3, <2>4, PollerUnmoved
<1>4. CASE PublishAnswer
  <2>1. /\ posts' = Append(posts, PostBy("ASSISTANT")) /\ Len(posts) < MaxPosts
        /\ gw' = [gw EXCEPT !.published = TRUE, !.resolved = FALSE]
        /\ UNCHANGED <<best, flow, poller, spent>>
    BY <1>4 DEF PublishAnswer
  <2>2. ForumOK' /\ Len(posts') = Len(posts) + 1
    BY <1>1, <2>1, WrittenPostFits DEF ForumOK
  <2>3. /\ gw' \in CaseType /\ gw'.turns = gw.turns /\ gw'.lastSeen = gw.lastSeen
        /\ gw'.finished = gw.finished /\ gw'.kb = gw.kb /\ gw'.source = gw.source
        /\ gw'.resolved = FALSE
    BY <1>1, <2>1 DEF CaseFits, CaseType
  <2>4. CaseFits(gw)' /\ UNCHANGED poller /\ gw'.kb <= Len(posts')
        /\ Len(posts) <= Len(posts')
    BY <1>1, <2>1, <2>2, <2>3 DEF CaseFits
  <2>5. QED
    BY <2>1, <2>2, <2>3, <2>4, PollerUnmoved
<1>5. CASE WriteKnowledge
  <2>1. /\ posts' = Append(posts, PostBy("ASSISTANT")) /\ Len(posts) < MaxPosts
        /\ gw' = [gw EXCEPT !.kb = Len(posts) + 1, !.kbSource = gw.source, !.selected = FALSE]
        /\ gw.source # 0
        /\ UNCHANGED <<best, flow, poller, spent>>
    BY <1>5 DEF WriteKnowledge
  <2>2. ForumOK' /\ Len(posts') = Len(posts) + 1 /\ Len(posts) + 1 \in 0..MaxPosts
    BY <1>1, <2>1, WrittenPostFits DEF ForumOK
  <2>3. /\ gw' \in CaseType /\ gw'.turns = gw.turns /\ gw'.lastSeen = gw.lastSeen
        /\ gw'.finished = gw.finished /\ gw'.source = gw.source /\ gw'.selected = FALSE
        /\ gw'.kb = Len(posts) + 1
    BY <1>1, <2>1, <2>2 DEF CaseFits, CaseType
  <2>4. CaseFits(gw)' /\ UNCHANGED poller /\ gw'.kb <= Len(posts')
        /\ Len(posts) <= Len(posts')
    BY <1>1, <2>1, <2>2, <2>3 DEF CaseFits
  <2>5. QED
    BY <2>1, <2>2, <2>3, <2>4, PollerUnmoved
<1>6. CASE SelectKnowledge
  <2> DEFINE chosen == [gw EXCEPT !.selected = TRUE]
  <2>1. /\ gw' = Settled(chosen) /\ best' = Selected(gw.kb)
        /\ UNCHANGED <<posts, flow, poller, spent>>
    BY <1>6 DEF SelectKnowledge
  <2>2. /\ chosen \in CaseType /\ chosen.turns = gw.turns /\ chosen.lastSeen = gw.lastSeen
        /\ chosen.finished = gw.finished /\ chosen.kb = gw.kb /\ chosen.source = gw.source
    BY <1>1 DEF CaseFits, CaseType
  <2> HIDE DEF chosen
  <2>3. CaseFits(gw)' /\ gw'.kb = gw.kb /\ gw'.turns = gw.turns /\ gw.finished \subseteq gw'.finished
    BY <1>1, <2>1, <2>2, SettledFits DEF CaseFits
  <2>4. ForumOK'
    BY <1>1, <2>1 DEF ForumOK, Selected
  <2>5. QED
    BY <1>1, <2>1, <2>3, <2>4, PollerUnmoved
<1>7. QED
  BY <1>2, <1>3, <1>4, <1>5, <1>6 DEF Gateway

----------------------------------------------------------------------------
(* A poll.                                                                 *)

PendingFits(pending, n) ==
    /\ DOMAIN pending \subseteq PostId \cap 1..n
    /\ \A p \in DOMAIN pending :
           pending[p] \in EntryType /\ pending[p].with \subseteq 1..(p - 1)

LEMMA PollStep ==
  ASSUME PollerInv, UNCHANGED <<forum, gw>>,
         spent' = spent \/ Fault,
         flow' \subseteq EventsUpTo(Len(posts)),
         Fits(file'), Fits(work'),
         PollFits(poll', work', Len(posts), spent.edited)
  PROVE  PollerInv'
<1>1. spent' \in [upsets : Nat, edited : BOOLEAN] /\ spent'.edited = spent.edited
  BY DEF PollerInv, ForumOK, Fault, Spend
<1>2. ForumOK'
  BY <1>1 DEF PollerInv, ForumOK, forum
<1>3. Fits(file)' /\ Fits(work)' /\ PollFits(poll, work, Len(posts), spent.edited)'
  BY <1>1 DEF Fits, forum
<1>4. QED
  BY <1>2, <1>3 DEF PollerInv, forum

(* At the end of a poll the file is what the poll has made of it.          *)
LEMMA IdleFits ==
  ASSUME NEW f, NEW n \in Nat, NEW edited \in BOOLEAN
  PROVE  PollFits(Idle, f, n, edited)
<1>1. NoSnapshot \in SnapshotType /\ NoSnapshot.post = 0
  BY DEF NoSnapshot, SnapshotType
<1>2. QED
  BY <1>1 DEF PollFits, Idle

LEMMA FinishKeeps ==
  ASSUME PollerInv, NEW f, Finish(f), Fits(f), UNCHANGED <<forum, gw>>,
         spent' = spent \/ Fault, flow' \subseteq EventsUpTo(Len(posts))
  PROVE  PollerInv'
<1>1. Len(posts) \in Nat /\ spent.edited \in BOOLEAN
  BY BoundsAssumption DEF PollerInv, ForumOK, PostId
<1>2. QED
  BY <1>1, IdleFits, PollStep DEF Finish

LEMMA PendingChanges ==
  ASSUME NEW f, NEW n, NEW turns, NEW finished, NEW edited,
         FileFits(f, n, turns, finished, edited), NEW pending, PendingFits(pending, n)
  PROVE  FileFits([f EXCEPT !.pending = pending], n, turns, finished, edited)
<1> DEFINE g == [f EXCEPT !.pending = pending]
<1>1. /\ DOMAIN g = DOMAIN f /\ g.pending = pending /\ g.seen = f.seen
      /\ g.asked = f.asked /\ g.retired = f.retired /\ g.snap = f.snap
  BY DEF FileFits, IsFile
<1> HIDE DEF g
<1>2. QED
  BY <1>1 DEF FileFits, IsFile, PendingFits

LEMMA PendingOfFile ==
  ASSUME NEW f, NEW n, NEW turns, NEW finished, NEW edited,
         FileFits(f, n, turns, finished, edited)
  PROVE  PendingFits(f.pending, n)
BY DEF FileFits, IsFile, PendingFits

LEMMA WithoutFits ==
  ASSUME NEW n, NEW pending, PendingFits(pending, n), NEW done
  PROVE  /\ PendingFits(Without(pending, done), n)
         /\ DOMAIN Without(pending, done) = DOMAIN pending \ done
BY DEF PendingFits, Without, Restrict

(* A field of an entry is noted anew.                                      *)
LEMMA EntryChanges ==
  ASSUME NEW n, NEW pending, PendingFits(pending, n), NEW p \in DOMAIN pending,
         NEW missing \in {"NONE", "HIDDEN", "NOT_FOUND"}
  PROVE  /\ PendingFits([pending EXCEPT ![p].missing = missing], n)
         /\ PendingFits([pending EXCEPT ![p].due = FALSE], n)
<1>1. pending[p] \in EntryType /\ pending[p].with \subseteq 1..(p - 1)
  BY DEF PendingFits
<1>2. /\ [pending[p] EXCEPT !.missing = missing] \in EntryType
      /\ [pending[p] EXCEPT !.missing = missing].with = pending[p].with
      /\ [pending[p] EXCEPT !.due = FALSE] \in EntryType
      /\ [pending[p] EXCEPT !.due = FALSE].with = pending[p].with
  BY <1>1 DEF EntryType
<1>3. QED
  BY <1>1, <1>2 DEF PendingFits

LEMMA TimePassesKeeps == ASSUME PollerInv, TimePasses PROVE PollerInv'
<1> DEFINE late == [p \in DOMAIN file.pending |-> [file.pending[p] EXCEPT !.due = TRUE]]
<1>1. /\ file' = [file EXCEPT !.pending = late] /\ work' = file'
      /\ poll.pc = "idle" /\ UNCHANGED <<forum, flow, gw, poll, spent>>
  BY DEF TimePasses
<1>2. Fits(file) /\ PendingFits(file.pending, Len(posts))
  BY PendingOfFile DEF PollerInv, Fits
<1>3. \A p \in DOMAIN file.pending : /\ late[p] \in EntryType
                                     /\ late[p].with = file.pending[p].with
  BY <1>2 DEF PendingFits, EntryType
<1>4. PendingFits(late, Len(posts))
  BY <1>2, <1>3 DEF PendingFits
<1> HIDE DEF late
<1>5. Fits(file')
  BY <1>1, <1>2, <1>4, PendingChanges DEF Fits
<1>6. PollFits(poll', work', Len(posts), spent.edited)
  BY <1>1 DEF PollerInv, PollFits
<1>7. QED
  BY <1>1, <1>5, <1>6, PollStep DEF PollerInv

LEMMA DiscoverKeeps == ASSUME PollerInv, Discover PROVE PollerInv'
<1>1. /\ work' = [file EXCEPT !.asked = Current]
      /\ poll' = [Idle EXCEPT !.pc = "confirm", !.list = Summary, !.todo = DOMAIN file.pending]
      /\ UNCHANGED <<forum, flow, gw, file, spent>>
  BY DEF Discover
<1>2. Fits(file) /\ IsFile(file) /\ DOMAIN file.pending \subseteq PostId
  BY DEF PollerInv, Fits, FileFits, IsFile
<1>3. /\ DOMAIN work' = DOMAIN file /\ work'.pending = file.pending /\ work'.seen = file.seen
      /\ work'.retired = file.retired /\ work'.snap = file.snap
      /\ work'.asked = Current
  BY <1>1, <1>2 DEF IsFile
<1>4. Current \subseteq file.asked /\ \A pick \in Current : pick.post = best.post
  BY DEF Current
<1>5. Fits(work')
  BY <1>2, <1>3, <1>4 DEF Fits, FileFits, IsFile
<1>6. /\ poll'.pc = "confirm" /\ poll'.list = Summary /\ poll'.todo = DOMAIN file.pending
      /\ poll'.settled = FALSE
      /\ poll' \in [pc : {"idle", "confirm", "events"}, list : SnapshotType,
                    todo : SUBSET PostId, shown : SUBSET PostId,
                    events : SUBSET (1..Len(posts)), hold : BOOLEAN, settled : BOOLEAN]
  BY <1>1, <1>2, SummaryCounts DEF Idle, PollerInv
<1>7. Summary.post = best.post /\ best.post \in 0..Len(posts) /\ Summary.count <= Len(posts)
  BY SummaryCounts DEF PollerInv, ForumOK
<1>8. PollFits(poll', work', Len(posts), spent.edited)
  BY <1>3, <1>4, <1>6, <1>7 DEF PollFits
<1>9. QED
  BY <1>1, <1>5, <1>8, PollStep DEF PollerInv

(* The post that is checked is pending; those left to check are later ones. *)
LEMMA CheckedIsPending ==
  ASSUME PollerInv, NEW p \in PostId, Checks(p)
  PROVE  p \in DOMAIN work.pending /\ \A q \in poll.todo : p <= q
<1>1. poll.todo \in SUBSET PostId /\ p = Min(poll.todo) /\ poll.todo # {}
  BY DEF Checks, PollFits, PollerInv
<1>2. p \in poll.todo /\ \A q \in poll.todo : p <= q
  BY <1>1, LeastIsOne
<1>3. QED
  BY <1>2 DEF PollFits, PollerInv

LEMMA CheckedFits ==
  ASSUME PollerInv, NEW p \in PostId, Checks(p), Checked(p),
         work'.asked = work.asked, work'.snap.post = work.snap.post,
         DOMAIN work.pending \ DOMAIN work'.pending \subseteq 1..p
  PROVE  PollFits(poll', work', Len(posts), spent.edited)
<1>1. PollFits(poll, work, Len(posts), spent.edited)
  BY DEF PollerInv
<1>2. /\ poll'.pc = "confirm" /\ poll.pc = "confirm"
      /\ poll'.list = poll.list /\ poll'.todo = poll.todo \ {p}
      /\ poll'.settled = poll.settled
  BY <1>1 DEF Checked, Checks, PollFits
<1>3. poll' \in [pc : {"idle", "confirm", "events"}, list : SnapshotType,
                 todo : SUBSET PostId, shown : SUBSET PostId,
                 events : SUBSET (1..Len(posts)), hold : BOOLEAN, settled : BOOLEAN]
  BY <1>1 DEF Checked, PollFits
<1>4. poll'.todo \subseteq DOMAIN work'.pending
  <2>1. ASSUME NEW q \in poll.todo, q # p PROVE q \in DOMAIN work'.pending
    <3>1. q \in DOMAIN work.pending /\ p <= q /\ q \in PostId
      BY <1>1, CheckedIsPending DEF PollFits
    <3>2. q \notin 1..p
      BY <2>1, <3>1, BoundsAssumption DEF PostId
    <3>3. QED
      BY <3>1, <3>2
  <2>2. QED
    BY <1>2, <2>1
<1>5. QED
  BY <1>1, <1>2, <1>3, <1>4 DEF PollFits

LEMMA ConfirmPostKeeps ==
  ASSUME PollerInv, NEW p \in PostId, ConfirmPost(p) PROVE PollerInv'
<1>1. /\ Checks(p) /\ Checked(p) /\ Confirmed(p) /\ work' = Checkpointed(p)
      /\ UNCHANGED <<forum, flow, gw, file, spent>>
  BY DEF ConfirmPost
<1> DEFINE done == {p} \cup work.pending[p].with
<1>2. p \in DOMAIN work.pending
  BY <1>1, CheckedIsPending
<1>3. Fits(work) /\ IsFile(work) /\ PendingFits(work.pending, Len(posts))
  BY PendingOfFile DEF PollerInv, Fits, FileFits
<1>4. work.pending[p].with \subseteq 1..(p - 1) /\ work.pending[p].with \subseteq PostId /\ p \in Nat
  BY <1>2, <1>3, BoundsAssumption DEF PendingFits, EntryType, PostId
<1>5. done \subseteq PostId /\ done \subseteq 1..p
  BY <1>4, BoundsAssumption DEF PostId
<1>6. gw.lastSeen >= p /\ gw.lastSeen \in gw.turns
  BY <1>1, <1>4, BoundsAssumption DEF Confirmed, PollerInv, CaseFits, CaseType, PostId
<1>7. \A q \in done : gw.lastSeen >= q
  BY <1>4, <1>5, <1>6, BoundsAssumption DEF PollerInv, CaseFits, CaseType, PostId
<1>8. /\ DOMAIN work' = DOMAIN work /\ work'.seen = work.seen \cup done
      /\ work'.pending = Without(work.pending, done)
      /\ work'.asked = work.asked /\ work'.retired = work.retired /\ work'.snap = work.snap
  BY <1>1, <1>3 DEF Checkpointed, IsFile
<1> HIDE DEF done
<1>9. /\ PendingFits(work'.pending, Len(posts))
      /\ DOMAIN work'.pending = DOMAIN work.pending \ done
  <2>1. /\ PendingFits(Without(work.pending, done), Len(posts))
        /\ DOMAIN Without(work.pending, done) = DOMAIN work.pending \ done
    BY <1>3, WithoutFits
  <2>2. QED
    BY <1>8, <2>1
<1>10. Fits(work')
  <2>1. IsFile(work')
    BY <1>3, <1>5, <1>8, <1>9 DEF IsFile, PendingFits
  <2>2. \A q \in work'.seen : \E r \in gw.turns : r >= q
    BY <1>3, <1>6, <1>7, <1>8 DEF Fits, FileFits
  <2>3. QED
    BY <1>3, <1>8, <1>9, <2>1, <2>2 DEF Fits, FileFits, PendingFits
<1>11. PollFits(poll', work', Len(posts), spent.edited)
  BY <1>1, <1>5, <1>8, <1>9, CheckedFits
<1>12. QED
  BY <1>1, <1>10, <1>11, PollStep DEF PollerInv

LEMMA LeavePostKeeps ==
  ASSUME PollerInv, NEW p \in PostId, LeavePost(p) PROVE PollerInv'
<1>1. /\ Checks(p) /\ Checked(p) /\ (spent' = spent \/ Fault)
      /\ UNCHANGED <<forum, flow, gw, file, work>>
  BY DEF LeavePost
<1>2. PollFits(poll', work', Len(posts), spent.edited)
  BY <1>1, CheckedFits
<1>3. QED
  BY <1>1, <1>2, PollStep DEF PollerInv

(* A post is retired only if somebody has edited it.                       *)
LEMMA LookAfterPostKeeps ==
  ASSUME PollerInv, NEW p \in PostId, LookAfterPost(p) PROVE PollerInv'
<1>1. PICK status \in {posts[p].status, "UNKNOWN"} : work' = Observed(p, status)
  BY DEF LookAfterPost
<1>2. /\ Checks(p) /\ Checked(p) /\ (spent' = spent \/ Fault)
      /\ UNCHANGED <<forum, flow, gw, file>>
  BY DEF LookAfterPost
<1>3. p \in DOMAIN work.pending
  BY <1>2, CheckedIsPending
<1>4. Fits(work) /\ IsFile(work) /\ PendingFits(work.pending, Len(posts))
  BY PendingOfFile DEF PollerInv, Fits, FileFits
<1>5. CASE work' = [work EXCEPT !.pending = Without(@, {p}), !.retired = @ \cup {p}]
           /\ status \in {"HIDDEN", "NOT_FOUND"}
  <2>1. spent.edited
    <3>1. p \in 1..Len(posts) /\ posts[p].status # "VISIBLE"
      BY <1>1, <1>3, <1>4, <1>5 DEF PendingFits
    <3>2. QED
      BY <3>1 DEF PollerInv, ForumOK
  <2>2. /\ DOMAIN work' = DOMAIN work /\ work'.seen = work.seen
        /\ work'.pending = Without(work.pending, {p}) /\ work'.retired = work.retired \cup {p}
        /\ work'.asked = work.asked /\ work'.snap = work.snap
    BY <1>4, <1>5 DEF IsFile
  <2>3. /\ PendingFits(work'.pending, Len(posts))
        /\ DOMAIN work'.pending = DOMAIN work.pending \ {p}
    <3>1. /\ PendingFits(Without(work.pending, {p}), Len(posts))
          /\ DOMAIN Without(work.pending, {p}) = DOMAIN work.pending \ {p}
      BY <1>4, WithoutFits
    <3>2. QED
      BY <2>2, <3>1
  <2>4. Fits(work')
    BY <1>4, <2>1, <2>2, <2>3 DEF Fits, FileFits, IsFile, PendingFits
  <2>5. p \in 1..p
    BY BoundsAssumption DEF PostId
  <2>6. PollFits(poll', work', Len(posts), spent.edited)
    BY <1>2, <2>2, <2>3, <2>5, CheckedFits
  <2>7. QED
    BY <1>2, <2>4, <2>6, PollStep DEF PollerInv
<1>6. CASE \E missing \in {"NONE", "HIDDEN", "NOT_FOUND"} :
              work' = [work EXCEPT !.pending[p].missing = missing]
  <2> PICK missing \in {"NONE", "HIDDEN", "NOT_FOUND"} :
              work' = [work EXCEPT !.pending[p].missing = missing]
    BY <1>6
  <2> DEFINE pending == [work.pending EXCEPT ![p].missing = missing]
  <2>1. /\ PendingFits(pending, Len(posts)) /\ DOMAIN pending = DOMAIN work.pending
        /\ work' = [work EXCEPT !.pending = pending]
    BY <1>3, <1>4, EntryChanges
  <2> HIDE DEF pending
  <2>2. Fits(work')
    BY <1>4, <2>1, PendingChanges DEF Fits
  <2>3. work'.pending = pending /\ work'.asked = work.asked /\ work'.snap = work.snap
    BY <1>4, <2>1 DEF IsFile
  <2>4. PollFits(poll', work', Len(posts), spent.edited)
    BY <1>2, <2>1, <2>3, CheckedFits
  <2>5. QED
    BY <1>2, <2>2, <2>4, PollStep DEF PollerInv
<1>7. QED
  BY <1>1, <1>5, <1>6 DEF Observed

LEMMA ConfirmResolutionKeeps ==
  ASSUME PollerInv, NEW pick \in work.asked, ConfirmResolution(pick) PROVE PollerInv'
<1>1. /\ poll.pc = "confirm" /\ Finished(pick)
      /\ work' = [work EXCEPT !.asked = @ \ {pick}, !.snap.post = pick.post, !.snap.at = pick.at]
      /\ poll' = [poll EXCEPT !.settled = TRUE]
      /\ UNCHANGED <<forum, flow, gw, file, spent>>
  BY DEF ConfirmResolution
<1>2. Fits(work) /\ IsFile(work) /\ PollFits(poll, work, Len(posts), spent.edited)
  BY DEF PollerInv, Fits, FileFits
<1>3. pick.post \in Nat /\ pick.at \in Nat /\ pick.post = poll.list.post
  BY <1>1, <1>2 DEF IsFile, PickType, PollFits
<1>4. pick.post \in gw.finished
  BY <1>1 DEF Finished, PollerInv, CaseFits
<1>5. work.snap \in [count : Nat, post : Nat, at : Nat]
  BY <1>2 DEF IsFile, SnapshotType
<1>6. /\ DOMAIN work' = DOMAIN work /\ work'.seen = work.seen
      /\ work'.pending = work.pending /\ work'.retired = work.retired
      /\ work'.asked = work.asked \ {pick}
      /\ work'.snap = [[work.snap EXCEPT !.post = pick.post] EXCEPT !.at = pick.at]
  BY <1>1, <1>2 DEF IsFile
<1>7. /\ work'.snap \in SnapshotType /\ work'.snap.post = pick.post
      /\ work'.snap.count = work.snap.count
  BY <1>3, <1>5, <1>6 DEF SnapshotType
<1>8. Fits(work')
  BY <1>2, <1>4, <1>6, <1>7 DEF Fits, FileFits, IsFile
<1>9. /\ poll'.pc = "confirm" /\ poll'.list = poll.list /\ poll'.todo = poll.todo
      /\ poll' \in [pc : {"idle", "confirm", "events"}, list : SnapshotType,
                    todo : SUBSET PostId, shown : SUBSET PostId,
                    events : SUBSET (1..Len(posts)), hold : BOOLEAN, settled : BOOLEAN]
  BY <1>1, <1>2 DEF PollFits
<1>10. PollFits(poll', work', Len(posts), spent.edited)
  BY <1>1, <1>2, <1>3, <1>6, <1>7, <1>9 DEF PollFits
<1>11. QED
  BY <1>1, <1>8, <1>10, PollStep DEF PollerInv

(* A discussion that is visited: the posts that are new are its events.    *)
LEMMA VisitKeeps == ASSUME PollerInv, Visit PROVE PollerInv'
<1>1. PICK passed \in SUBSET (work.retired \cap Visible) :
          LET open == Visible \ (work.seen \cup passed)
              awaited == { p \in open : Awaited(p) }
          IN /\ poll' = [poll EXCEPT !.pc = "events", !.events = open \ awaited,
                                     !.hold = awaited # {},
                                     !.shown = IF Known THEN {} ELSE Visible]
             /\ work' = [work EXCEPT !.retired = StillRetired(passed)]
             /\ IF passed = {} THEN UNCHANGED spent ELSE Fault
  BY DEF Visit
<1> DEFINE open == Visible \ (work.seen \cup passed)
           awaited == { p \in open : Awaited(p) }
<1>2. /\ poll' = [poll EXCEPT !.pc = "events", !.events = open \ awaited,
                              !.hold = awaited # {},
                              !.shown = IF Known THEN {} ELSE Visible]
      /\ work' = [work EXCEPT !.retired = StillRetired(passed)]
      /\ (spent' = spent \/ Fault)
      /\ poll.pc = "confirm"
      /\ UNCHANGED <<forum, flow, gw, file>>
  BY <1>1 DEF Visit
<1>3. Fits(work) /\ IsFile(work) /\ PollFits(poll, work, Len(posts), spent.edited)
  BY DEF PollerInv, Fits, FileFits
<1>4. /\ DOMAIN work' = DOMAIN work /\ work'.seen = work.seen
      /\ work'.pending = work.pending /\ work'.asked = work.asked
      /\ work'.snap = work.snap /\ work'.retired \subseteq work.retired
  BY <1>2, <1>3 DEF IsFile, StillRetired
<1>5. Fits(work')
  BY <1>3, <1>4 DEF Fits, FileFits, IsFile
<1>6. awaited \subseteq open /\ open \subseteq 1..Len(posts) /\ Visible \subseteq 1..Len(posts)
  BY DEF Visible
<1>7. 1..Len(posts) \subseteq PostId
  BY BoundsAssumption DEF PollerInv, ForumOK, PostId
<1>8. ~spent.edited => passed = {} /\ Visible = 1..Len(posts)
  BY <1>3, SummaryCounts DEF PollerInv, Fits, FileFits
<1> HIDE DEF awaited
<1>9. /\ poll'.pc = "events" /\ poll'.events = open \ awaited
      /\ poll'.hold = (awaited # {}) /\ poll'.list = poll.list
      /\ poll'.settled = poll.settled /\ poll'.todo = poll.todo
      /\ poll'.shown \in {{}, Visible}
  BY <1>2, <1>3 DEF PollFits
<1>10. poll' \in [pc : {"idle", "confirm", "events"}, list : SnapshotType,
                  todo : SUBSET PostId, shown : SUBSET PostId,
                  events : SUBSET (1..Len(posts)), hold : BOOLEAN, settled : BOOLEAN]
  <2>1. open \ awaited \in SUBSET (1..Len(posts)) /\ (awaited # {}) \in BOOLEAN
        /\ (IF Known THEN {} ELSE Visible) \in SUBSET PostId
    BY <1>6, <1>7
  <2> HIDE DEF open
  <2>2. QED
    BY <1>2, <1>3, <2>1 DEF PollFits
<1>11. ASSUME ~spent.edited, ~poll'.hold
       PROVE  1..poll'.list.count \subseteq work'.seen \cup poll'.events
  <2>1. poll.list.count \in Nat /\ poll.list.count <= Len(posts) /\ Len(posts) \in Nat
    BY <1>2, <1>3, <1>11, BoundsAssumption
       DEF PollFits, SnapshotType, PollerInv, ForumOK, PostId
  <2>2. 1..poll.list.count \subseteq 1..Len(posts)
    BY <2>1
  <2>3. awaited = {} /\ open = 1..Len(posts) \ work.seen
    BY <1>8, <1>9, <1>11
  <2>4. QED
    BY <1>4, <1>9, <2>2, <2>3
<1>12. PollFits(poll', work', Len(posts), spent.edited)
  BY <1>2, <1>3, <1>4, <1>9, <1>10, <1>11 DEF PollFits
<1>13. QED
  BY <1>2, <1>5, <1>12, PollStep DEF PollerInv

(* The events of a poll are posts that are there.                          *)
LEMMA DueExists ==
  ASSUME PollerInv, NEW p \in PostId, Due(p)
  PROVE  /\ p \in 1..Len(posts) /\ p \in 1..MaxPosts /\ Coalesced(p) \subseteq PostId
         /\ Coalesced(p) \subseteq 1..(p - 1) /\ Asks(p) \in BOOLEAN
<1>1. /\ poll.events \subseteq 1..Len(posts) /\ poll.shown \subseteq PostId
      /\ 1..Len(posts) \subseteq PostId
  BY BoundsAssumption DEF PollerInv, PollFits, ForumOK, PostId
<1>2. p \in poll.events
  BY <1>1, LeastIsOne DEF Due
<1>3. Coalesced(p) \subseteq PostId /\ \A q \in Coalesced(p) : q < p
  BY <1>1 DEF Coalesced
<1>4. QED
  BY <1>1, <1>2, <1>3, BoundsAssumption DEF PostId, Asks

LEMMA SubmittedFits ==
  ASSUME PollerInv, NEW p \in PostId, Due(p)
  PROVE  /\ flow \cup {PostEvent(p, Coalesced(p))} \subseteq EventsUpTo(Len(posts))
         /\ PendingFits(Accept(work.pending, p), Len(posts))
         /\ DOMAIN Accept(work.pending, p) = DOMAIN work.pending \cup {p}
<1>1. /\ p \in 1..Len(posts) /\ Coalesced(p) \subseteq PostId
      /\ Coalesced(p) \subseteq 1..(p - 1) /\ Asks(p) \in BOOLEAN
  BY DueExists
<1>2. PendingFits(work.pending, Len(posts))
  BY PendingOfFile DEF PollerInv, Fits
<1>3. PostEvent(p, Coalesced(p)) \in EventsUpTo(Len(posts))
  BY <1>1 DEF PostEvent, EventsUpTo
<1>4. Submitted(p) \in EntryType /\ Submitted(p).with = Coalesced(p)
  BY <1>1 DEF Submitted, EntryType
<1>5. QED
  BY <1>1, <1>2, <1>3, <1>4 DEF PendingFits, Accept, PollerInv

LEMMA SubmitPostKeeps ==
  ASSUME PollerInv, NEW p \in PostId, SubmitPost(p) PROVE PollerInv'
<1> DEFINE pending == Accept(work.pending, p)
<1>1. /\ Due(p) /\ flow' = flow \cup {PostEvent(p, Coalesced(p))}
      /\ work' = [work EXCEPT !.pending = pending] /\ file' = work'
      /\ poll' = [poll EXCEPT !.events = @ \ {p}, !.hold = TRUE]
      /\ UNCHANGED <<forum, gw, spent>>
  BY DEF SubmitPost
<1>2. /\ flow' \subseteq EventsUpTo(Len(posts)) /\ PendingFits(pending, Len(posts))
      /\ DOMAIN pending = DOMAIN work.pending \cup {p}
  BY <1>1, SubmittedFits
<1> HIDE DEF pending
<1>3. Fits(work) /\ IsFile(work) /\ PollFits(poll, work, Len(posts), spent.edited)
  BY DEF PollerInv, Fits, FileFits
<1>4. Fits(work') /\ Fits(file')
  BY <1>1, <1>2, <1>3, PendingChanges DEF Fits
<1>5. /\ work'.pending = pending /\ work'.asked = work.asked /\ work'.snap = work.snap
      /\ work'.seen = work.seen
  BY <1>1, <1>3 DEF IsFile
<1>6. /\ poll'.pc = poll.pc /\ poll'.list = poll.list /\ poll'.todo = poll.todo
      /\ poll'.settled = poll.settled /\ poll'.hold = TRUE
      /\ poll' \in [pc : {"idle", "confirm", "events"}, list : SnapshotType,
                    todo : SUBSET PostId, shown : SUBSET PostId,
                    events : SUBSET (1..Len(posts)), hold : BOOLEAN, settled : BOOLEAN]
  BY <1>1, <1>3 DEF PollFits
<1>7. PollFits(poll', work', Len(posts), spent.edited)
  BY <1>2, <1>3, <1>5, <1>6 DEF PollFits
<1>8. QED
  BY <1>1, <1>2, <1>4, <1>7, PollStep

LEMMA FailPostKeeps ==
  ASSUME PollerInv, NEW p \in PostId, FailPost(p) PROVE PollerInv'
<1>1. /\ Due(p) /\ flow' \in {flow, flow \cup {PostEvent(p, Coalesced(p))}}
      /\ work' = IF Pending(p) THEN [work EXCEPT !.pending[p].due = FALSE] ELSE work
      /\ file' = IF Pending(p) THEN work' ELSE file
      /\ poll' = [poll EXCEPT !.events = {}, !.hold = TRUE]
      /\ Fault /\ UNCHANGED <<forum, gw>>
  BY DEF FailPost, Failed
<1>2. flow' \subseteq EventsUpTo(Len(posts))
  BY <1>1, SubmittedFits DEF PollerInv
<1>3. /\ Fits(work) /\ IsFile(work) /\ PendingFits(work.pending, Len(posts)) /\ Fits(file)
      /\ PollFits(poll, work, Len(posts), spent.edited)
  BY PendingOfFile DEF PollerInv, Fits, FileFits
<1>4. /\ Fits(work') /\ Fits(file') /\ work'.asked = work.asked /\ work'.snap = work.snap
      /\ work'.seen = work.seen /\ DOMAIN work'.pending = DOMAIN work.pending
  <2>1. CASE Pending(p)
    <3> DEFINE pending == [work.pending EXCEPT ![p].due = FALSE]
    <3>1. /\ PendingFits(pending, Len(posts)) /\ DOMAIN pending = DOMAIN work.pending
          /\ work' = [work EXCEPT !.pending = pending] /\ file' = work'
      BY <1>1, <1>3, <2>1, EntryChanges DEF Pending
    <3> HIDE DEF pending
    <3>2. Fits(work')
      BY <1>3, <3>1, PendingChanges DEF Fits
    <3>3. QED
      BY <1>3, <3>1, <3>2 DEF IsFile
  <2>2. CASE ~Pending(p)
    BY <1>1, <1>3, <2>2
  <2>3. QED
    BY <2>1, <2>2
<1>5. /\ poll'.pc = poll.pc /\ poll'.list = poll.list /\ poll'.todo = poll.todo
      /\ poll'.settled = poll.settled /\ poll'.hold = TRUE
      /\ poll' \in [pc : {"idle", "confirm", "events"}, list : SnapshotType,
                    todo : SUBSET PostId, shown : SUBSET PostId,
                    events : SUBSET (1..Len(posts)), hold : BOOLEAN, settled : BOOLEAN]
  BY <1>1, <1>3 DEF PollFits
<1>6. PollFits(poll', work', Len(posts), spent.edited)
  BY <1>3, <1>4, <1>5 DEF PollFits
<1>7. QED
  BY <1>1, <1>2, <1>4, <1>6, PollStep

(* The snapshot is taken: its best answer is the one before, or one whose  *)
(* resolution was found carried through in this poll.                      *)
LEMMA TakeSnapshotKeeps == ASSUME PollerInv, TakeSnapshot PROVE PollerInv'
<1> DEFINE f == [work EXCEPT !.snap = poll.list]
<1>1. /\ Finish(f) /\ UNCHANGED <<forum, flow, gw, spent>>
      /\ poll.pc = "events" /\ poll.events = {} /\ ~poll.hold /\ (Moved => poll.settled)
  BY DEF TakeSnapshot, Snapshot, AfterPosts
<1>2. Fits(work) /\ IsFile(work) /\ PollFits(poll, work, Len(posts), spent.edited)
  BY DEF PollerInv, Fits, FileFits
<1>3. /\ DOMAIN f = DOMAIN work /\ f.seen = work.seen /\ f.pending = work.pending
      /\ f.asked = work.asked /\ f.retired = work.retired /\ f.snap = poll.list
  BY <1>2 DEF IsFile
<1> HIDE DEF f
<1>4. poll.list \in SnapshotType /\ work.snap.post = poll.list.post
  BY <1>1, <1>2 DEF Moved, PollFits
<1>5. ~spent.edited => poll.list.count <= Len(posts) /\ 1..poll.list.count \subseteq work.seen
  BY <1>1, <1>2 DEF PollFits
<1>6. Fits(f)
  BY <1>2, <1>3, <1>4, <1>5 DEF Fits, FileFits, IsFile
<1>7. QED
  BY <1>1, <1>6, FinishKeeps DEF PollerInv

LEMMA AskedFits ==
  ASSUME PollerInv
  PROVE  /\ flow \cup {ResolutionEvent(Asked)} \subseteq EventsUpTo(Len(posts))
         /\ Fits([work EXCEPT !.asked = @ \cup {Asked}])
<1> DEFINE f == [work EXCEPT !.asked = @ \cup {Asked}]
<1>1. Fits(work) /\ IsFile(work) /\ PollFits(poll, work, Len(posts), spent.edited)
  BY DEF PollerInv, Fits, FileFits
<1>2. poll.list.post \in 0..Len(posts) /\ poll.list.post \in Nat /\ poll.list.at \in Nat
  BY <1>1 DEF PollFits, SnapshotType
<1>3. Asked \in PickType /\ Asked.post \in 0..Len(posts) /\ Asked.at \in Nat
  BY <1>2 DEF Asked, PickType
<1>4. ResolutionEvent(Asked) \in EventsUpTo(Len(posts))
  BY <1>3 DEF ResolutionEvent, EventsUpTo
<1> HIDE DEF Asked
<1>5. /\ DOMAIN f = DOMAIN work /\ f.seen = work.seen /\ f.pending = work.pending
      /\ f.asked = work.asked \cup {Asked} /\ f.retired = work.retired /\ f.snap = work.snap
  BY <1>1 DEF IsFile
<1> HIDE DEF f
<1>6. Fits(f)
  BY <1>1, <1>3, <1>5 DEF Fits, FileFits, IsFile
<1>7. QED
  BY <1>4, <1>6 DEF PollerInv, f

LEMMA PollKeeps == ASSUME PollerInv, Poll \/ Abort \/ TimePasses PROVE PollerInv'
<1>1. Fits(work) /\ Fits(file) /\ flow \subseteq EventsUpTo(Len(posts))
  BY DEF PollerInv
<1>2. CASE Pass \/ Hold
  <2>1. Finish(work) /\ UNCHANGED <<forum, flow, gw, spent>>
    BY <1>2 DEF Pass, Hold
  <2>2. QED
    BY <1>1, <2>1, FinishKeeps
<1>3. CASE SubmitResolution
  <2>1. /\ Finish([work EXCEPT !.asked = @ \cup {Asked}]) /\ UNCHANGED <<forum, gw, spent>>
        /\ flow' = flow \cup {ResolutionEvent(Asked)}
    BY <1>3 DEF SubmitResolution
  <2>2. QED
    BY <2>1, AskedFits, FinishKeeps
<1>4. CASE LeaveResolution
  <2>1. /\ Finish(work) /\ UNCHANGED <<forum, gw>> /\ (spent' = spent \/ Fault)
        /\ flow' \in {flow, flow \cup {ResolutionEvent(Asked)}}
    BY <1>4 DEF LeaveResolution
  <2>2. QED
    BY <1>1, <2>1, AskedFits, FinishKeeps
<1>5. CASE Abort
  <2>1. Finish(file) /\ UNCHANGED <<forum, flow, gw>> /\ Fault
    BY <1>5 DEF Abort, Finish
  <2>2. QED
    BY <1>1, <2>1, FinishKeeps
<1>6. QED
  BY <1>2, <1>3, <1>4, <1>5, DiscoverKeeps, VisitKeeps, TakeSnapshotKeeps, ConfirmPostKeeps,
     LeavePostKeeps, LookAfterPostKeeps, SubmitPostKeeps, FailPostKeeps,
     ConfirmResolutionKeeps, TimePassesKeeps
  DEF Poll

----------------------------------------------------------------------------
LEMMA InitPoller == Init => PollerInv
<1> SUFFICES ASSUME Init PROVE PollerInv
  OBVIOUS
<1>1. PostBy("REQUESTER") \in PostType /\ 1 \in PostId /\ 0 \in 0..MaxPosts
  BY BoundsAssumption DEF PostBy, PostType, PostId
<1>2. posts \in Seq(PostType) /\ Len(posts) = 1 /\ posts[1].status = "VISIBLE"
  BY <1>1 DEF Init, PostBy
<1>3. ForumOK
  BY <1>1, <1>2 DEF Init, ForumOK
<1>4. CaseFits(gw) /\ gw.kb = 0
  BY <1>1 DEF Init, NoCase, CaseFits, CaseType
<1>5. Fits(file) /\ Fits(work)
  BY <1>2 DEF Init, NoFile, NoSnapshot, Fits, FileFits, IsFile, SnapshotType
<1>6. PollFits(poll, work, Len(posts), spent.edited)
  BY <1>2, IdleFits DEF Init
<1>7. flow \subseteq EventsUpTo(Len(posts))
  BY DEF Init
<1>8. gw.kb <= Len(posts)
  BY <1>2, <1>4
<1>9. QED
  BY <1>3, <1>4, <1>5, <1>6, <1>7, <1>8 DEF PollerInv

LEMMA PollerInvariant == Spec => []PollerInv
<1>1. PollerInv /\ [Next]_vars => PollerInv'
  <2> SUFFICES ASSUME PollerInv, [Next]_vars PROVE PollerInv'
    OBVIOUS
  <2>1. CASE UNCHANGED vars
    BY <2>1 DEF vars, forum, poller, PollerInv, ForumOK, Fits
  <2>2. CASE Next
    BY <2>2, PeopleKeep, GatewayKeeps, PollKeeps DEF Next
  <2>3. QED
    BY <2>1, <2>2
<1>2. QED
  BY <1>1, InitPoller, PTL DEF Spec

(* Every variable of the poller's model has its type, whatever people, the *)
(* gateway, the webhook and the poller do, and wherever the poller stops.  *)
THEOREM PollerTypeCorrect == Spec => []TypeOK
<1>1. PollerInv => TypeOK
  <2> SUFFICES ASSUME PollerInv PROVE TypeOK
    OBVIOUS
  <2>1. Len(posts) \in Nat /\ 0..Len(posts) \subseteq Nat /\ 1..Len(posts) \subseteq PostId
        /\ PostId \subseteq Nat /\ 0..MaxPosts \subseteq Nat
    BY BoundsAssumption DEF PollerInv, ForumOK, PostId
  <2>2. posts \in Seq([by : {"REQUESTER", "STAFF", "ASSISTANT"},
                       status : {"VISIBLE", "HIDDEN", "NOT_FOUND"}])
        /\ spent \in [upsets : Nat, edited : BOOLEAN]
    BY DEF PollerInv, ForumOK, PostType
  <2>3. best \in [post : Nat, at : Nat, last : Nat]
    BY <2>1 DEF PollerInv, ForumOK
  <2>4. flow \subseteq [kind : {"post", "resolution"}, post : Nat, at : Nat, with : SUBSET PostId]
    BY <2>1 DEF PollerInv, EventsUpTo
  <2>5. gw \in [turns : SUBSET PostId, lastSeen : Nat, published : BOOLEAN,
                resolved : BOOLEAN, source : Nat, kb : Nat, kbSource : Nat,
                selected : BOOLEAN, heard : SUBSET PickType,
                read : SUBSET PostId, finished : SUBSET PostId]
    BY <2>1 DEF PollerInv, CaseFits, CaseType
  <2>6. IsFile(file) /\ IsFile(work)
    BY DEF PollerInv, Fits, FileFits
  <2>7. poll \in [pc : {"idle", "confirm", "events"}, list : SnapshotType,
                  todo : SUBSET PostId, shown : SUBSET PostId,
                  events : SUBSET PostId, hold : BOOLEAN, settled : BOOLEAN]
    BY <2>1 DEF PollerInv, PollFits
  <2>8. QED
    BY <2>2, <2>3, <2>4, <2>5, <2>6, <2>7 DEF TypeOK
<1>2. QED
  BY <1>1, PollerInvariant, PTL

(* A post is checkpointed only when the gateway has taken it or a later    *)
(* one, in whatever order the flow delivers and however often it loses.    *)
THEOREM CheckpointsWereReached == Spec => []CheckpointWasReached
<1>1. PollerInv => CheckpointWasReached
  BY DEF PollerInv, Fits, FileFits, CheckpointWasReached
<1>2. QED
  BY <1>1, PollerInvariant, PTL

(* Until somebody edits a post, a discussion that looks as at its snapshot *)
(* has no post that is not checkpointed.                                   *)
THEOREM NothingIsOverlooked == Spec => []NothingOverlooked
<1>1. PollerInv => NothingOverlooked
  <2> SUFFICES ASSUME PollerInv, ~spent.edited, file.snap = Summary
               PROVE  Visible \subseteq file.seen
    BY DEF NothingOverlooked
  <2>1. Visible = 1..Len(posts) /\ Summary.count = Len(posts)
    BY SummaryCounts DEF PollerInv
  <2>2. 1..file.snap.count \subseteq file.seen
    BY DEF PollerInv, Fits, FileFits
  <2>3. QED
    BY <2>1, <2>2
<1>2. QED
  BY <1>1, PollerInvariant, PTL

(* The snapshot takes over only best answers whose resolution the gateway  *)
(* has carried through.                                                    *)
THEOREM SnapshotsFollowResolutions == Spec => []SnapshotFollowsResolution
<1>1. PollerInv => SnapshotFollowsResolution
  BY DEF PollerInv, Fits, FileFits, SnapshotFollowsResolution
<1>2. QED
  BY <1>1, PollerInvariant, PTL

============================================================================

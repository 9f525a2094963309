SPECIFICATION Spec
CONSTANTS
    Commits = {c1, c2}
    MaxJobs = 3
    Channels = 2
    Events = {e1}
    Requests = {q1, q2, q3}
    Senders = {s1, s2, s3}
    Images = {i1}
    Logs = {l1}
    MaxStops = 2
    Outages = {x, y}
    Services = {app, worker, ingress}
    Shared = {app, worker}
    Releases = {r1, r2}
    First = r1
    Fingerprints = {f1}
    MaxAttempts = 2
    MaxFailures = 3
    MaxDrafts = 2
    MaxThread = 2
    MaxBreaks = 1
    Askers = {a1, a2, a3}
    MinimumCalls = 2
    MaxWindow = 3
    Attachments = {p1}
    Files = {p1, p2}
    MaxFiles = 1
    MaxPosts = 3
    Retention = 2
    Given = {1, 3}
    Fresh = 1
    MaxDay = 3
    MaxArchives = 2
INVARIANTS
    TypeOK
    WithdrawalPurges
    IndexingHasJob
    EvidenceIsOfOneVersion
    MemoryAgrees
    ForwardedOnce
    OneMessageAtATime
    ChatKnows
    RollbackTarget
    PublishedIsJudged
    OneProbe
    AnswersAreGrounded
    EverySourceIsReviewed
    QuestionsCanBeAsked
PROPERTIES
    WithdrawnIsFinal
    ServedUntilReplaced
    ExpiredIsGone
    KeepsPromise
    EveryDraftIsReviewed
    ProviderTriedAgain
    RestorePointRemains
    SilenceIsHonest
CHECK_DEADLOCK FALSE

SPECIFICATION Spec
CONSTANTS
    Posts = {p1, p2}
    MaxAttempts = 2
    MaxContexts = 2
    MaxQuestions = 2
    MaxRestarts = 1
INVARIANTS
    TypeOK
    LiveJobsAreCurrent
    DeliveriesMatchAttempts
    RunnersAreOrderly
PROPERTIES
    SendsOnlyRunning
    EveryJobEnds

SPECIFICATION Spec
CONSTANTS
    Posts = {p1, p2}
    MaxAttempts = 2
    MaxContexts = 2
    MaxQuestions = 2
    MaxRestarts = 1
INVARIANT
    NoticeOnlyForDeadLetter

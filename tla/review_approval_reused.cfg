SPECIFICATION ReviewSpec
CONSTANTS
    MaxDrafts = 2
    MaxThread = 3
    MaxBreaks = 1
INVARIANTS
    ApprovedAnswerIsPublished
CHECK_DEADLOCK FALSE

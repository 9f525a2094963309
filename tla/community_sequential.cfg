SPECIFICATION TwinSpec
CONSTANTS
    Handlers = {h1}
    Selectors = {"REQUESTER"}
    Comments = {"REQUESTER_AUTO", "STAFF_RECORDED"}
    MaxPosts = 4
    MaxSelections = 2
    MaxCompared = 5
INVARIANTS
    PublishedPostIsCurrent
    MarkersAreUnique
    KnowledgeMatchesSource
    MemoryCaseAgrees

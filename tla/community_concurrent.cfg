SPECIFICATION Spec
CONSTANTS
    Handlers = {h1, h2}
    Selectors = {"MODERATOR"}
    Comments = {"REQUESTER_AUTO"}
    MaxPosts = 4
    MaxSelections = 1
INVARIANTS
    OneVersionPerPost
    PublishedPostIsAnAnswer
    KnowledgeStandsOnResolution
SYMMETRY Symmetry

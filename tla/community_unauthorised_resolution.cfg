SPECIFICATION Spec
CONSTANTS
    Handlers = {h1}
    Selectors = {"REQUESTER", "MEMBER"}
    Comments = {"STAFF_RECORDED"}
    MaxPosts = 4
    MaxSelections = 3
INVARIANTS
    ResolvedByAuthority

SPECIFICATION Spec
CONSTANTS
    Handlers = {h1, h2}
    Selectors = {"ADMIN"}
    Comments = {"REQUESTER_AUTO"}
    MaxPosts = 3
    MaxSelections = 1
INVARIANTS
    MarkersAreUnique
SYMMETRY Symmetry

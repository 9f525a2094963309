SPECIFICATION Spec
CONSTANTS
    Handlers = {h1}
    Selectors = {"ADMIN"}
    Comments = {"REQUESTER_AUTO", "STAFF_RECORDED"}
    MaxPosts = 4
    MaxSelections = 2
PROPERTIES
    PublicationKeepsResolution

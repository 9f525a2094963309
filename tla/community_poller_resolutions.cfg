SPECIFICATION Spec
CONSTANTS
    MaxHuman = 1
    MaxPosts = 3
    MaxUpsets = 2
INVARIANTS
    SnapshotFollowsResolution

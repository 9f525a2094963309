SPECIFICATION Spec
CONSTANTS
    MaxHuman = 2
    MaxPosts = 3
    MaxUpsets = 1
INVARIANTS
    CheckpointIsAccepted

SPECIFICATION Spec
CONSTANTS
    MaxHuman = 2
    MaxPosts = 2
    MaxUpsets = 2
INVARIANTS
    TypeOK
    CheckpointWasReached
    NothingOverlooked
PROPERTIES
    EveryPostIsTaken

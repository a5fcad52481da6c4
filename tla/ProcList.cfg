SPECIFICATION Spec
CONSTANTS
    Pids = {1, 2, 3, 4}
    Started = {1, 2, 3}
    Own <- SmallOwn
    Matching = {2, 4}
    AutoCollapse = 1
    MaxEvents = 5
INVARIANT TypeOK
INVARIANT TreeDrawn
INVARIANT SubtreeUsage
PROPERTY PausedFrozen

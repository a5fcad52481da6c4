SPECIFICATION Spec
CONSTANTS
    Pids = {1, 2, 3, 4}
    Started = {1, 2, 3}
    Own <- SmallOwn
    Matching = {2, 4}
    AutoCollapse = 1
    MaxEvents = 3
INVARIANT CollapsedStaysHidden

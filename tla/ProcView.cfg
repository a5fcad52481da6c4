SPECIFICATION Spec
CONSTANTS
    Lists <- SomeLists
    MaxProcs = 5
    ListRows = 4
    DetailRows = 1
    MaxEvents = 6
INVARIANT TypeOK
INVARIANT CursorOnRow
INVARIANT DialogHighlighted
INVARIANT CursorMoves
PROPERTY FollowedInView
CHECK_DEADLOCK FALSE

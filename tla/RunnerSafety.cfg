SPECIFICATION Spec
CONSTANTS
    StartViews = {"classic"}
    Sizes = {1, 2}
    Needs <- SmallNeeds
    Keys = {"set", "box", "quit"}
    Signals = {"quit", "sleep", "resize"}
    Prompt = TRUE
    MaxTokens = 3
    MaxEvents = 3
    MaxFaults = 1
INVARIANT TypeOK
INVARIANT SemaphoreBounded
INVARIANT SuspendNeverQuits
INVARIANT DrawsLaidOutBoxes
PROPERTY ImplementsDrawSlot
PROPERTY StopQuiesces

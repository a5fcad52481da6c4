SPECIFICATION FairSpec
CONSTANTS
    StartViews = {"classic", "ml"}
    Sizes = {1, 2}
    Needs <- SmallNeeds
    Keys = {"set", "view"}
    Signals = {"quit", "sleep", "resize", "reload"}
    Prompt = TRUE
    MaxTokens = 3
    MaxEvents = 2
    MaxFaults = 1
PROPERTY ShowsLatest
PROPERTY QuitHonoured

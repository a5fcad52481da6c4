SPECIFICATION Spec
CONSTANTS
    Names = {"cpu", "proc", "gpu"}
    Gpu = "gpu"
    Default <- Cpu
    DefaultPresets <- NoPresets
    BoxTexts <- SomeBoxes
    PresetTexts <- SomePresets
    MaxPresets = 2
    Room = 2
    Missing = Missing
    Torn = Torn
    MaxEvents = 5
PROPERTY BoxesSurviveRestart
CHECK_DEADLOCK FALSE

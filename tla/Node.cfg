SPECIFICATION Spec
CONSTANTS
    Inputs <- SomeInputs
    Settings <- SomeSettings
    MaxEvents = 2
INVARIANTS TypeOK Stored BitFollowsLink ConsoleWakes AwakeForConsole
PROPERTIES Reconnects MeshSleepEnds
CHECK_DEADLOCK FALSE

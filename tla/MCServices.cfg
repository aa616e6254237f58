SPECIFICATION MCSpec
CONSTANTS
    a1 = a1
    a2 = a2
    a3 = a3
    Ap = {a1, a2, a3}
    Order <- MCOrder
    Answers = {"prompt", "late", "never"}
    MaxCpus = 3
    NoStack = NoStack
    PanicCpus = {"c1", "c2", "c3"}
    MaxFailures = 2
    Watcher = "w"
    Askers = {"a", "b"}
    Values = {0}
    FileValue = 60
    Second = 600
    MaxAsks = 2
    LineChars = {"a", "b", "c", " ", "tab", "|"}
    LineLength = 5
    Items = 2
    PipeSize = 2
INVARIANTS PromptBootIsSafe WatcherUpToDate PipelineOutput
PROPERTIES   AskersAnswered PipelineEnds
CHECK_DEADLOCK FALSE

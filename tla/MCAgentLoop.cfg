SPECIFICATION FairSpec
CONSTANTS
    run = run
    plain = plain
    dir = dir
    Runs = {run, plain}
    Streamed = {plain}
    MaxIterations <- MCMaxIterations
    Workspace <- MCWorkspace
    NoDir = NoDir
    MaxRetries = 2
INVARIANTS
    DialogueAlternates
    ResultIsTrue
    NeverOutsideWorkspaces
    StreamIsComplete
PROPERTY EveryRunEnds

CONSTANTS
    a = a  b = b  topic = topic  NoId = NoId
    Invocations = {a, b}
    Topics = {topic}
    TopicOf <- SameTopic
    Replayers = {a, b}
    Crashes = TRUE
    Deadlines = TRUE
    StoreFailures = TRUE
    Withdrawals = TRUE
SPECIFICATION Spec
INVARIANT SettledTogether
INVARIANT AuditMatchesRun
INVARIANT CompletedRunIsTheItemsResult
INVARIANT OneWorkerPerTopic
INVARIANT AttemptsAreRuns
PROPERTY TerminalIsFinal
PROPERTY ClaimEndsWithItsRun
PROPERTY ImplementsWork
CHECK_DEADLOCK FALSE

CONSTANTS
    a = a  b = b  main = main  other = other  topic = topic  NoLimit = NoLimit
    Runs = {a, b}
    Workers = {main, other}
    Leader = main
    Topics = {topic}
    TopicOf <- SameTopic
    RunLimit <- RunBudgets
    TopicLimit <- TopicBudget
    DailyLimit <- DailyBudget
    MaxQueries = 1
    MaxPages = 2
    SourceBytes = 2
    MaxAttempts = 2
    MaxRedirects = 1
    LastDay = 1
    Crashes = TRUE
    Failures = TRUE
SPECIFICATION Spec
INVARIANT BudgetsHold
INVARIANT CallsArePaid
INVARIANT BytesArePrepaid
INVARIANT StopIsJustified
INVARIANT ScopeIsFound
INVARIANT FetchesAreAccounted
CHECK_DEADLOCK FALSE

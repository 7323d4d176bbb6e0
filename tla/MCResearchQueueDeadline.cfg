CONSTANTS
    a = a  b = b  topic = topic  NoId = NoId
    Invocations = {a, b}
    Topics = {topic}
    TopicOf <- SameTopic
    Replayers = {}
    Crashes = FALSE
    Deadlines = TRUE
    StoreFailures = FALSE
    Withdrawals = FALSE
SPECIFICATION Spec
INVARIANT DeadlineSettlesTheClaim
CHECK_DEADLOCK FALSE

SPECIFICATION FairSpec
CONSTANTS
    r1 = r1
    r2 = r2
    m1 = m1
    m2 = m2
    m3 = m3
    c1 = c1
    Requests = {r1, r2}
    QueueSize = 1
    MinGap = TRUE
    Statuses = {"connected", "disconnected"}
    Clients = {c1}
    NoClient = NoClient
    NoJob = NoJob
    Messages = {}
    ChatOf <- MCChatOf
    AnsweredBy <- MCAnsweredBy
PROPERTY EveryCallerAnswered
CHECK_DEADLOCK FALSE

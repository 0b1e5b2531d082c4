SPECIFICATION FairSpec
CONSTANTS
    o1 = o1
    o2 = o2
    Orders = {o1, o2}
    Latest = o2
    Messages <- MCMessages
    Answers <- MCAnswers
    Faults = {"memory", "llm", "policy", "retrieval", "tool", "lost_reply", "crash"}
    MaxActions = 2
    MaxWrites = 2
INVARIANT KeyIsFresh
CHECK_DEADLOCK FALSE

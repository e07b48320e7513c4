SPECIFICATION FairSpec
CONSTANTS
    q1 = q1
    q2 = q2
    Questions <- MCQuestions
    TestOf <- MCTestOf
    MaxTests = 2
    MAX_RETRIES = 1
CHECK_DEADLOCK FALSE
INVARIANTS TypeOK OncePerTimeout OkIsFiled
PROPERTIES SentIsAccountedFor

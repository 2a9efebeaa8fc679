SPECIFICATION Spec
CONSTANTS
    w1 = w1  w2 = w2  w3 = w3
    c1 = c1  c2 = c2  a1 = a1  a2 = a2
    None = None
    Workers <- MCWorkers
    Claims <- MCClaims
    Attempts <- MCAttempts
    ClaimOf <- MCClaimOf
    AttemptOf <- MCAttemptOf
INVARIANTS AtMostOnce OutcomeTrue OwnedAttempts AnswerKept
PROPERTIES OutcomeFinal
CHECK_DEADLOCK FALSE

SPECIFICATION FairSpec
CONSTANTS
    r1 = r1
    r2 = r2
    Reqs <- MCReqs
    Routes <- MCRoutes
    Modes = {TRUE, FALSE}
    StoreMayFail = TRUE
    FailureCodes = {400, 401, 429}
    SuccessCodes = {200, 201, 204}
    ResetOnSuccess = TRUE
    Replies = {200, 401, 500}
    MaxTotal = 2
INVARIANTS TypeOK EveryRequestIsCounted EventsMatchCounters FailClosedAsksAll OneAttemptPerAdmitted AnsweredOnce
PROPERTY EveryRequestIsAnswered
CHECK_DEADLOCK FALSE

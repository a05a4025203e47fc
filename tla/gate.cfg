SPECIFICATION FairSpec
CONSTANTS
    Requests = {r1, r2}
    NoReq = NoReq
    Torn = Torn
    MaxPlans = 2
    MaxAsks = 2
INVARIANTS TypeOK OneRequestOnePlan DecisionHasAuthor AnswerPublished
PROPERTIES ResumeReleases TurnUnwinds LedgerSpec

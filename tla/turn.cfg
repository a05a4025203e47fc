CONSTANTS
    EventCap = 2
    StreamCap = 1
    StepLimit = 2
    MaxRetries = 1
    MaxParts = 3
SPECIFICATION FairSpec
INVARIANTS OnlyWholeResponsesStored StoredCallsAnswered PromptNotLost
PROPERTY LeavingEndsTurn

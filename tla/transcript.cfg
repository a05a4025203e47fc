CONSTANTS
    Sizes = {1, 30}
    SystemSize = 4
    Wrap = 1
    Limit = 7
    MaxTurns = 2
    MaxSteps = 2
SPECIFICATION TranscriptSpec
INVARIANTS PromptIsLongestFit CallsAndResultsPaired HistoryFaithful

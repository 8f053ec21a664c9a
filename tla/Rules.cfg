SPECIFICATION RulesSpec
CONSTANTS
    Letters = {a, b, c}
    MaxLen = 4
    Ids = {1, 2}
    Prices = {1, 2}
    MaxCrowns = 4
    MaxQuantity = 4
    MaxRows = 3
    Portions <- MCPortions
    MaxText = 7
    Attempts = 3
    Hops = 4
    Limit = 2
INVARIANTS AnswerIsRight MatchIsRight MarksAreRight UnmarkedSuffice SliceIsRight StopIsPrompt Polite
PROPERTY FetchEnds
CHECK_DEADLOCK FALSE

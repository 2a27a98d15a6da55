SPECIFICATION ConvSpec
CONSTANTS
    Backends = {"bedrock", "langchain"}
    Cleaned <- TheCleaned
    Contents <- TheContents
    FollowUps <- TheFollowUps
    Asides <- TheAsides
    Settings <- TheSettings
    Answers <- TheAnswers
    MaxTurns = 2
INVARIANTS NothingLost NamesUnique BreakpointsKept VerdictsBelong AnswerComesBack ResultsFollowCalls
PROPERTIES PrefixStable
CHECK_DEADLOCK FALSE

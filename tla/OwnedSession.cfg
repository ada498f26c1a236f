SPECIFICATION FairSpec
CONSTANT MaxCalls = 2
INVARIANTS ConfirmedMeansGone OthersSpared RepliesMatch
PROPERTIES NothingLeftBehind
CHECK_DEADLOCK FALSE

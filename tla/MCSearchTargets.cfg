SPECIFICATION ReSpec
CONSTANTS
    MaxResults = 2
    MaxHits = 2
    Glyphs <- MCGlyphs
    Phrases <- MCPhrases
    ListLength = 2
    TableLength = 1
    LogLength = 2
    MaxRows = 1
    MaxLogLines = 2
    TargetLength = 3
INVARIANT TargetsUnwrapped

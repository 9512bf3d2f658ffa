SPECIFICATION PanelSpec
CONSTANTS
    w1 = w1
    r1 = r1
    r2 = r2
    s1 = s1
    s2 = s2
    d1 = d1
    d2 = d2
    NoRule = NoRule
    NoPage = NoPage
    NoRequest = NoRequest
    Nowhere = Nowhere
    Loading = Loading
    Missing = Missing
    Directory = Directory
    Pages <- MCPages
    Requests <- MCRequests
    Ports <- MCPorts
    Subnets <- MCSubnets
    MaxNumber = 2
    Dirs <- MCDirs
    Names <- MCNames
    Slots <- MCSlots
    Cap = 2
    MaxSize = 3
    MaxEntries = 4
    TailLines = 2
    Chars <- MCChars
    Details <- MCDetails
    Marks <- MCMarks
    MaxResults = 2
    MaxHits = 4
    Glyphs <- MCGlyphs
    Phrases <- MCPhrases
    ListLength = 3
    TableLength = 2
    LogLength = 5
    MaxRows = 1
    MaxLogLines = 2
    TargetLength = 3
SYMMETRY MCSymmetry
INVARIANTS
    PanelInv
    QuietPageShowsOwn
    RowsOfCrumb
    PreviewUnderItsName
    PreviewExact
    TailIsRecent
    SearchMatches
    ReadsWhatWasWritten
PROPERTIES
    UnracedDeleteExact

SPECIFICATION AnalysisSpec
CONSTANTS
    client = client
    Installations = {1, 2}
    Home = 1
    HomeRepos = {1}
    Repos = {1, 2}
    Services = {"svc"}
    Commits = {1, 2, 3}
    FirstCommit = 1
    FilesAt <- MCFilesAt
    PageSize = 1
    Clients = {client}
    MaxRecords = 2
    RootOf <- MCRootOf
    Entries <- Trees
    WholeListing <- MCWholeListing
    Truncates <- Large
    TruncatesPage = {}
    MaxEntries = 9
    MaxTreeRequests = 3
    MaxTreeDepth = 1
    Size <- MCSize
    Text <- MCText
    SafePaths <- MCSafePaths
    PathOrder <- MCPathOrder
    Relevance <- MCRelevance
    DiagnosisPolicy <- MCDiagnosisPolicy
    PatchPolicy <- MCPatchPolicy
    Answers <- MCAnswers
    Proposals <- MCProposals
    WorkspacePaths <- MCWorkspacePaths
    ChatBytes <- MCChatBytes
    MaxChatBytes = 5
    MaxChanges = 2
    MaxAnalyses = 1
INVARIANTS
    TypeOK
    SelectedMeansActive
    SnapshotComplete
    OnlyKnownDeadEnds
    PreviewGrounded
PROPERTIES
    NoStaleReselection
    SyncIsExact
    SourceUsedOnlyWhileBound
CHECK_DEADLOCK FALSE

SPECIFICATION Spec

CONSTANTS
    None = None
    MaxDepth = 3
    MaxSuffix = 6
    MaxAlias = 16
    Decimal <- MCDecimal
    Batches <- MCBatches
    Documents <- MCDocuments
    ScanOptions <- MCScanOptions
    TransformOperation <- MCTransformOperation
    DeriveHook <- MCDeriveHook
    TransformModule <- MCTransformModule
    IsPattern <- MCIsPattern
    Matches <- MCMatches
    Environments <- MCEnvironments
    Unreadable = Unreadable
    Overrides <- MCOverrides
    RepliesTo <- MCRepliesTo
    DescriptionLimit = 8
    DocumentationLimit = 12
    ProxyWriters <- MCProxyWriters
    Registries <- MCRegistries
    Inputs <- MCInputs
    BindingSources <- MCBindingSources
    Codes <- MCCodes
    ViewOptions <- MCViewOptions
    PrintOptions <- MCPrintOptions
    MaxShownDepth = 2
    Tables <- MCTables
    Documented <- MCDocumented
    MaxExact = 8
    MaxWhole = 6
    MaxDepthHardCap = 7
    Longest = 30
    LongestWithin = 12

INVARIANTS
    IdsDistinct
    NamesKept
    IllegalIdsWarned
    RefsFollowed
    AuthoredKept
    ToolNamesUsable
    FilesHoldTheirModule
    CallsReachOperations
    RowsGrouped
    ListingTrue
    TablesReadBack
    MarkdownShowsAll

CHECK_DEADLOCK FALSE

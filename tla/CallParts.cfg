SPECIFICATION PartsSpec
\* Edges: up to three supplied headers over one field of each kind; response
\* headers of four names in two spellings; up to two variables of the environment.
CONSTANTS
    Field <- MCField
    Blank = ""
    Forbidden <- MCForbidden
    Default <- MCDefault
    Value = {v, w, x}
    Broken = {x}
    Browser = b
    MaxSupplied = 3
    MaxOrder = 1
    Place <- MCPlace
    Sensitive <- MCSensitive
    Fallback <- MCFallback
    MaxInt = 15
    Setting <- MCSetting
    Truth <- MCTruth
    Falsehood <- MCFalsehood
    Asked <- MCAsked
    MaxSet = 2
    Yes = Yes
    No = No
\* Exchange: the default policy with an allowlist of a site and the names below it.
CONSTANTS
    Host <- MCHosts
    Address <- MCAddresses
    AllowedHosts <- MCAllowed
    AllowPrivate = FALSE
    AllowProxy = TRUE
    RedirectLimit = 3
    ProxyHost <- MCProxies
\* TextSearch: at most three bytes of a query, two matches and two bytes of context.
CONSTANTS
    Bodies <- MCBodies
    Queries <- MCQueries
    MaxMatches <- MCMaxMatches
    ContextBytes <- MCContextBytes
    maxSearchQueryBytes = 3
    maxSearchMatches = 2
    defaultSearchMatches = 1
    maxSearchContext = 2
    defaultSearchContext = 1
\* Extraction: two queries of at most two values (three are refused), outputs
\* around 1000 bytes.
CONSTANTS
    Query <- MCQuery
    Document <- MCDocument
    maxExtractQueries = 2
    maxExtractResults = 2
    defaultExtractResults = 1
    defaultExtractOutputBytes = 1003
    MaxReadBytes = 1001
    AskedBytes <- MCAskedBytes
    Metadata <- MCMetadata
    MaxSize = 999
\* Each part ends.
CHECK_DEADLOCK FALSE
INVARIANTS
    RefusedForItsHeaders
    NoForbiddenHeader
    SuppliedOverDefault
    NothingLostOrLeaked
    WithinServerLimits
    ToolIntent
    OnlyPermittedAddresses
    OnlyAllowedRequests
    RedirectBound
    HistoryIsPath
    LeftmostMatches
    ContextIsText
    OutputExact
    FlagsTell
    CutFromTheEnd
    NotCutInVain
PROPERTIES
    ExchangeEnds
    SearchEnds
    ExtractionEnds

SPECIFICATION ServicesSpec
CONSTANTS
    Weight <- MCWeight
    Cap <- MCCap
    RecencyDays <- MCRecency
    BandMin <- MCBand
    Entities = {"vendor", "invoice"}
    Findings <- MCFindings
    Days = {0, 60}
    Askers = {c1, c2}
    MaxFindings = 2
    MaxAsks = 2
    Tenants = {"a", "b"}
    NoTenant = NoTenant
    Contents = {"new", "old"}
    Targets = {"ours", "old"}
    TargetsOf <- MCTargetsOf
    NoTarget = NoTarget
    Legacy = "old"
    LegacyTarget = "old"
    Uploads = {c1, c2}
    MaxUploads = 2
    MaxIntakeFaults = 1
    Emails = {n1, n2}
    Orgs = {o1, o2}
    Grants = {"VIEWER"}
    Clients = {c1, c2}
    LockWindow = 1
    LockLimit = 1
    SessionLength = 2
    MaxTime = 2
    MaxSessions = 1
    Policies = {"p"}
    Labels = {n1, n2}
    VersionStatuses = {"ACTIVE"}
    Sources <- MCSources
    Passages = {"near", "far"}
    Distance <- MCDistance
    MaxDistance = 2
    TopK = 2
    EmbedBatch = 1
    Models = {o1, o2}
    Readers = {c1, c2}
    MaxVersions = 2
    MaxChunks = 2
    MaxReads = 3
    Characters = {" ", "/", "a", "b", "c", "d", "e", "f", "g", "h", "i", "j", "k", "l", "m", "n", "o",
                  "H", "K"}
    MaxChars = 5
    Headings <- MCHeadings
    Texts <- MCLines
    MaxLines = 4
    Untitled = Untitled
    Papers <- MCPapers
    Dates = {"d1", "d2", "d99"}
    Calendar = {"d1", "d2"}
    Phrases <- MCPhrases
    Words <- MCWords
    Missing = {"N/A", "not given"}
    LabelWord = "Number"
    Nothing = Nothing
    MaxReadings = 1
    Readings <- MCReadings
    Answers <- MCAnswers
    Corpora <- MCCorpora
    Positive = {"q1"}
    NoValue = NoValue
    MaxRetries = 1
    Parameters <- MCParameters
    Replies <- MCReplies
    Planners = {c1, c2}
    MaxAttempts = 2
    MaxEdits = 1
    Unset = Unset
    Ids = {1, 2, 3}
    Stamps = {1, 2}
    RowStatuses = {"OPEN", "CLOSED"}
    Feeds <- MCFeeds
    FeedOf <- MCFeedOf
    PageSize = 1
    PerFeed = 2
    ActivityLimit = 2
    MaxMoves = 1
    Truths <- MCTruths
    Predictions <- MCPredictions
    MaxCases = 2
    ApprovedForms <- MCApprovedForms
    PaperDocuments = {o1, o2}
    Promoters = {c1, c2}
    KnownVendors <- MCKnownVendors
    MaxPromotions = 3
    MaxPromotionFaults = 1
    MaxAssociations = 1
SYMMETRY MCSymmetry
INVARIANTS
    ProfilesStand
    EveryDocumentHasItsFile
    OneDocumentPerContent
    LinksStayInside
    OverrunIsBounded
    EveryTenantIsAdministered
    IngestedIsWhole
    SupportedIsGrounded
    NothingIsLost
    ReadyIsReadable
    EndsAsReviewed
    HighIsChecked
    CallsAreBounded
    ExecutedAsApproved
    AttemptsTellThePlans
    ReadersMissNothing
    ExactIsTheSame
    PromotedIsWhole
CHECK_DEADLOCK FALSE

SPECIFICATION Spec
CONSTANTS
    EnrichmentFields <- LateFields
    Numeral <- Numerals
    Within <- Prints
    Unprintable = {}
    Trials <- TrialsOf
    Place <- Grid
    Platforms = {"facebook"}
    Disposable = {}
    Vendor = {"vendor"}
    Personal = {"mail"}
    Dialled <- Numbers
    Worker = {w1, w2}
    Homepage <- Home
    Content <- Contents
    SitemapOf <- Sitemaps
    Host <- Hosts
    Promise <- Promises
    HomeAnswers <- Homes
    PageAnswers <- Pages
    MaxPages = 1
    EnableSitemap = TRUE
    EnablePlaywright = TRUE
    OverallTimeout = TRUE
    EarlyStop = TRUE
    MxVerify = TRUE
    EnableMxCheck = FALSE
    SmtpVerify = TRUE
    SmtpRetries = 1
    SmtpWorkers = 1
    CacheSize = 1
    MailHosts <- HostsOf
    Mailbox <- Mailboxes
    Listings <- Plain
    Raw <- RawListing
    Parsed <- Address
    Business <- BusinessOf
    DefaultCountry = "us"
    Polygons <- Square
    SiteDomain <- Domains
    SocialCols <- SocialColumns
    LinkOf <- LinkTexts
    CustomSignals <- Signals24
    FilterSets <- Configured
    RequireWebsite = FALSE
    EnrichRequireWebsite = FALSE
    EmailsToggle = TRUE
    SocialToggle = TRUE
    MaxInFlight = 1
    LlmActive = TRUE
    MaxCalls = 1
    DecisionMakers = TRUE
    Reviews <- ReviewsOf
    PositiveWords = {"great"}
    NegativeWords = {"rude", "slow"}
    NoiseWords = {"the", "crew"}
    MinLen = 2
    MaxLen = 3
    TopN = 5
    OutputColumns <- Cols
    Unscorable = {"live"}
    Faults = {"write", "print"}
SYMMETRY Threads
CHECK_DEADLOCK FALSE
INVARIANTS
    TypeOK
    CountersAddUp
    ProfilesOwned
    CommittedPassAll
    VerifiedOnlyIfDeliverable
    BlockedIsNotDead
    PolygonMatchesHalfPlanes
    SplitKeepsLess

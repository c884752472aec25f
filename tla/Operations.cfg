SPECIFICATION Spec
CONSTANTS
    Process = {"api"}
    Tenant = {1, 2}
    None = None
    MaxNow = 5
    Address = {"a", "b"}
    MaxPerMinute = 2
    Minute = 2
    MaxAttempts = 5
    MaxRestarts = 1
    User = {"ann"}
    Key = {"k1"}
    JwksLifetime = 1
    TokenLifetime = 1
    IssuerConfigured = TRUE
    Accounts <- Consultant
    MaxEdits = 2
    Period = 2
    MaxChanges = 4
    w1 = w1
    w2 = w2
    Worker = {w1, w2}
    MaxRequests = 3
    MaxFailures = 1
    Reference = {"statute", "form"}
    Linked = {"form"}
    Outcome <- Findings
    Days <- Boundaries
    MaxChecks = 2
    Files <- RuleFiles
    MaxLoads = 2
    Jurisdiction = {"us", "ca", "la"}
    ForeignKeys = FALSE
    Id = {"", "ca", "la", "overlong"}
    Overlong = {"overlong"}
    Cell = {"c1", "c2"}
    Offers <- Offered
    Rejected = Rejected
    Elements <- KmlElements
    Height <- HeightOf
    MaxHeight = 5
    Uploads <- RouteFiles
INVARIANTS
    AtMostMaxPerWindow
    KeysWithinLifetime
    ExportsWereEntitled
    LatestUnlessOverlapped
    RecordsAgree
    StoredRulesAreValid
    AncestorsFollowParents
    StoresAgree
    FootprintsComeFromTheFile
PROPERTY NothingHidesAFailure
SYMMETRY Workers
\* attempts, requests, checks and loads are bounded: the system stops
CHECK_DEADLOCK FALSE

SPECIFICATION Spec
CONSTANTS
    NJobs = 1
    InvalidRows = {}
    Confirmers = {c1}
    Cancellers = {}
    Restarters = {}
    Configurers = {}
    Consumers = {k1}
    TxCounts = {1}
    Copies = 1
    DbErrors = FALSE
    BillingErrors = FALSE
    PublishErrors = FALSE
    Crashes = FALSE
    Outcomes = {"completed", "failed"}
    TxReported = {TRUE}
    ReaderErrors = FALSE
    WithBlockFunc = FALSE
    TxAreUuids = TRUE
    PartialCounts = {}
INVARIANTS
    ReservedIsSaved
CHECK_DEADLOCK FALSE

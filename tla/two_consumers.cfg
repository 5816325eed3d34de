SPECIFICATION FairSpec
CONSTANTS
    NJobs = 2
    InvalidRows = {}
    Confirmers = {c1}
    Cancellers = {}
    Restarters = {}
    Configurers = {}
    Consumers = {k1, k2}
    TxCounts = {0}
    Copies = 1
    DbErrors = FALSE
    BillingErrors = FALSE
    PublishErrors = FALSE
    Crashes = FALSE
    Outcomes = {"completed"}
    TxReported = {TRUE}
    ReaderErrors = FALSE
    WithBlockFunc = FALSE
    TxAreUuids = TRUE
    PartialCounts = {}
PROPERTIES
    SettledBatchCompletes
CHECK_DEADLOCK FALSE

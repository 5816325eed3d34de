SPECIFICATION Spec
CONSTANTS
    NJobs = 2
    InvalidRows = {}
    Confirmers = {c1}
    Cancellers = {}
    Restarters = {}
    Configurers = {}
    Consumers = {k1}
    TxCounts = {2}
    Copies = 1
    DbErrors = FALSE
    BillingErrors = FALSE
    PublishErrors = TRUE
    Crashes = FALSE
    Outcomes = {"completed", "failed"}
    TxReported = {TRUE}
    ReaderErrors = FALSE
    WithBlockFunc = FALSE
    TxAreUuids = TRUE
    PartialCounts = {}
PROPERTIES
    RollbackSparesQueued
CHECK_DEADLOCK FALSE

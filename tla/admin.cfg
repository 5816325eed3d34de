SPECIFICATION Spec
CONSTANTS
    NJobs = 1
    InvalidRows = {}
    Confirmers = {c1}
    Cancellers = {x1}
    Restarters = {r1}
    Configurers = {g1}
    Consumers = {k1}
    TxCounts = {1}
    Copies = 1
    DbErrors = TRUE
    BillingErrors = FALSE
    PublishErrors = FALSE
    Crashes = TRUE
    Outcomes = {"completed", "failed"}
    TxReported = {FALSE}
    ReaderErrors = FALSE
    WithBlockFunc = FALSE
    TxAreUuids = TRUE
    PartialCounts = {}
INVARIANTS
    BatchRowConsistent
    ProgressIsEarned
PROPERTIES
    LedgerSpec
CHECK_DEADLOCK FALSE

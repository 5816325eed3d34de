SPECIFICATION Spec
CONSTANTS
    NJobs = 2
    InvalidRows = {}
    Confirmers = {c1}
    Cancellers = {x1}
    Restarters = {}
    Configurers = {}
    Consumers = {k1}
    TxCounts = {0, 1, 2}
    Copies = 1
    DbErrors = FALSE
    BillingErrors = FALSE
    PublishErrors = TRUE
    Crashes = FALSE
    Outcomes = {"completed"}
    TxReported = {TRUE}
    ReaderErrors = TRUE
    WithBlockFunc = TRUE
    TxAreUuids = TRUE
    PartialCounts = {}
INVARIANTS
    RefundedJobIsRefunded
    RefundsWereIssued
    QueuedAfterPublish
PROPERTIES
    LedgerSpec
CHECK_DEADLOCK FALSE

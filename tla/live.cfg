SPECIFICATION FairSpec
CONSTANTS
    NJobs = 2
    InvalidRows = {2}
    Confirmers = {c1}
    Cancellers = {x1}
    Restarters = {}
    Configurers = {}
    Consumers = {k1}
    TxCounts = {2}
    Copies = 2
    DbErrors = FALSE
    BillingErrors = FALSE
    PublishErrors = FALSE
    Crashes = FALSE
    Outcomes = {"failed"}
    TxReported = {TRUE}
    ReaderErrors = FALSE
    WithBlockFunc = FALSE
    TxAreUuids = FALSE
    PartialCounts = {}
PROPERTIES
    SettledBatchCompletes
    PublishedGetsOutcome
    ConfirmAnswered
CHECK_DEADLOCK FALSE

SPECIFICATION WatchedSpec
CONSTANTS
    NJobs = 2
    InvalidRows = {}
    Confirmers = {c1}
    Cancellers = {}
    Restarters = {}
    Configurers = {}
    Consumers = {k1, k2}
    TxCounts = {2}
    Copies = 1
    DbErrors = FALSE
    BillingErrors = TRUE
    PublishErrors = TRUE
    Crashes = FALSE
    Outcomes = {"completed", "failed"}
    TxReported = {FALSE}
    ReaderErrors = FALSE
    WithBlockFunc = FALSE
    TxAreUuids = TRUE
    PartialCounts = {1}
    Clients = {q1}
    Admins = {q1}
SYMMETRY Symmetry
INVARIANTS
    TypeOK
    QueuedAfterPublish
    PublishedWithinReserve
    ReserveWithinApproved
    BatchRowConsistent
    ProgressIsEarned
    RefundsWereIssued
    ListedHasBuild
PROPERTIES
    LedgerSpec
    AnswerIsBacked
CHECK_DEADLOCK FALSE

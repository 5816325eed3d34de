SPECIFICATION ListedSpec
CONSTANTS
    Uploads = {u1}
    Totals = {0, 2}
    Allowances = {0, 1, 2}
    HasStorage = TRUE
    DbErrors = TRUE
    StorageErrors = TRUE
    BillingErrors = TRUE
    Crashes = TRUE
    Configurations <- MCConfigurations
    Environments <- MCEnvironments
    Sizes = {1, 2, 3, 4}
    Overhead = 1
    Older = 2
    Fields = {"DAC", "DBB"}
    Headers = {"first_name", "dac", "dob", "other"}
    Aliases <- MCAliases
    Cells = {"", " ", "x", "y"}
    Blanks = {"", " "}
    Revisions = {"US_CA_08292017", "unknown"}
    Rules <- MCRules
INVARIANTS
    TypeOK
    FinalizedRowIsExact
    ApprovedIsQuoted
    AnswerAgrees
    AcceptedIsComplete
    ListTypeOK
    PagedOnce
    RowsAreTheirLines
    ValidRowsAreComplete
PROPERTIES
    UploadAnswered
    FitsOneConfiguration
CHECK_DEADLOCK FALSE

\* One site and its configuration: three full runs with two faults of any kind,
\* or runs of either scope with one, or two runs, with one fault, beside two
\* commands that send reports.
SPECIFICATION WatchSpec
CONSTANTS
    mail = mail
    hook = hook
    table1 = table1
    table2 = table2
    sender1 = sender1
    sender2 = sender2
    Table = {table1, table2}
    Repairable = {table1}
    AutoRepair = TRUE
    Channel = {mail, hook}
    Webhook = {hook}
    Scope = {"full", "database_only"}
    Reason = {"none", "files", "database", "source", "history"}
    DayTicks = 2
    Sender = {sender1, sender2}
    DayLength = 2
    MonthLength = 2
    Offset = 1
    IncludeEmpty = FALSE
    SafeName <- Names
    Candidate <- Candidates
    Response <- Answers
    MinimumInterval = 2
    Bounds <- BoundsOf
SYMMETRY Symmetric
INVARIANT OpenedIsUsable
INVARIANT PackagesAreWhole
INVARIANT RepairsAreJustified
INVARIANT ChannelsKnow
INVARIANT ReportsAreTrue
PROPERTY ReportsAreDelivered
PROPERTY NobodyIsNagged

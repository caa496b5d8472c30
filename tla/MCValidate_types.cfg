\* Rounds from the cron job and manual starts, node churn, validator
\* reports of every kind (a panicking handler restarts the process).
CONSTANTS
    e1 = e1
    e2 = e2
    c1 = c1
    Edges <- MCEdges
    Candidates <- MCCandidates
    MaxRound = 2
    ReportKinds <- RecordOrPanicKinds
    StoreOutcomes <- StoreAlwaysOk
    AdminStart = TRUE
    Churn = TRUE
    TimelyTasks = TRUE

SPECIFICATION Spec

INVARIANT TypeOK

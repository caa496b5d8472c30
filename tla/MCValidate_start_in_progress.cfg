CONSTANTS
    e1 = e1
    e2 = e2
    c1 = c1
    Edges <- MCEdges
    Candidates <- MCCandidates
    MaxRound = 3
    ReportKinds <- WellFormedKinds
    StoreOutcomes <- StoreAlwaysOk
    AdminStart = TRUE
    Churn = FALSE
    TimelyTasks = TRUE

SYMMETRY EdgeSymmetry

SPECIFICATION Spec

PROPERTY NoStartWhileAwaiting

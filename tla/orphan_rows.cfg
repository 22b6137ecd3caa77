\* DeleteHistory during the dispatch loop: are all workload rows gone afterwards?
SPECIFICATION Spec
CONSTANTS
    DeployTypes = {"k8s"}
    MaxWorkloads <- MCTwoWorkloads
    AppLookup = {"found"}
    AgentLookup = {"found"}
    DispatchResults = {"ok"}
    ProbeResults = {"ready"}
    DeleteRequests = 1
INVARIANT
    NoOrphanRows
\* The task's goroutines really stop: blocked forever, or returned.
CHECK_DEADLOCK FALSE

\* Dispatches may fail: is StartAt still written only once?
SPECIFICATION Spec
CONSTANTS
    DeployTypes = {"k8s"}
    MaxWorkloads <- MCTwoWorkloads
    AppLookup = {"found"}
    AgentLookup = {"found"}
    DispatchResults = {"ok", "err"}
    ProbeResults = {"notReady", "ready"}
    DeleteRequests = 0
INVARIANT
    StartAtSetOnce
\* The task's goroutines really stop: blocked forever, or returned.
CHECK_DEADLOCK FALSE

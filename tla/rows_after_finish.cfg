\* After the terminal task row, do the workload rows stay as they were?
SPECIFICATION Spec
CONSTANTS
    DeployTypes = {"k8s"}
    MaxWorkloads <- MCTwoWorkloads
    AppLookup = {"found"}
    AgentLookup = {"found"}
    DispatchResults = {"ok"}
    ProbeResults = {"notReady", "ready"}
    DeleteRequests = 0
PROPERTY
    RowsFrozenAfterFinish
\* The task's goroutines really stop: blocked forever, or returned.
CHECK_DEADLOCK FALSE

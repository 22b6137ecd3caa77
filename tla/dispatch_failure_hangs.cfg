\* A dispatch RPC may fail: does the task still reach its terminal row?
SPECIFICATION FairSpec
CONSTANTS
    DeployTypes = {"k8s"}
    MaxWorkloads <- MCTwoWorkloads
    AppLookup = {"found"}
    AgentLookup = {"found"}
    DispatchResults = {"ok", "err"}
    ProbeResults = {"notReady", "ready"}
    DeleteRequests = 0
PROPERTY
    TaskCompletes
\* The task's goroutines really stop: blocked forever, or returned.
CHECK_DEADLOCK FALSE

\* A workload may time out: can the task still finish with Success=true?
SPECIFICATION Spec
CONSTANTS
    DeployTypes = {"vm"}
    MaxWorkloads <- MCTwoWorkloads
    AppLookup = {"found"}
    AgentLookup = {"found"}
    DispatchResults = {"ok"}
    ProbeResults = {"healthErr", "healthOk"}
    DeleteRequests = 0
INVARIANT
    AggregateCorrect
\* The task's goroutines really stop: blocked forever, or returned.
CHECK_DEADLOCK FALSE

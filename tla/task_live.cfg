\* RunTask over the three deploy types with a backend.  executeWorkload and
\* executeVm when every agent is registered and every dispatch succeeds
\* (pods may stay unready, health checks may fail until the deadline);
\* executeHttp when the check method is get or post, with any response
\* marker.
SPECIFICATION FairSpec
CONSTANTS
    DeployTypes = {"k8s", "vm", "http"}
    MaxWorkloads <- MCTwoWorkloads
    AppLookup = {"found", "missing"}
    AgentLookup = {"found"}
    DispatchResults = {"ok"}
    ProbeResults = {"notReady", "ready", "healthErr", "healthOk"}
    DeleteRequests = 1
    Submissions <- MCSubmissions
    DeployResults = {"ok", "err"}
    ResponseMarker = {"none", "resolved", "unresolved"}
    CheckResults = {"err", "running", "doneOk", "doneFail"}
INVARIANTS
    WaitGroupNeverNegative
PROPERTIES
    TaskCompletes
    HttpTaskCompletes
\* The goroutines really stop once the terminal rows are written.
CHECK_DEADLOCK FALSE

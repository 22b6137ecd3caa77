\* RunTask over every deploy type.  executeWorkload and executeVm with
\* every remote outcome possible (agents missing, dispatch and probe calls
\* failing) on zero to two workloads; executeHttp with every check outcome,
\* a resolving response marker and a resubmission of the id after a
\* terminal status; a concurrent DeleteHistory.
SPECIFICATION Spec
CONSTANTS
    DeployTypes = {"k8s", "vm", "http", "other"}
    MaxWorkloads <- MCTwoWorkloads
    AppLookup = {"found", "missing"}
    AgentLookup = {"found", "missing"}
    DispatchResults = {"ok", "err"}
    ProbeResults = {"rpcErr", "notReady", "ready", "healthErr", "healthOk"}
    DeleteRequests = 1
    Submissions <- MCSubmissions
    DeployResults = {"ok", "err"}
    ResponseMarker = {"none", "resolved"}
    CheckResults = {"err", "running", "doneOk", "doneFail", "noCheck"}
INVARIANTS
    TypeOK
    WaitCoversEveryProber
    DeployFailureShortCircuits
PROPERTIES
    LifecycleRefined
\* The goroutines really stop: blocked forever, crashed, or returned.
CHECK_DEADLOCK FALSE

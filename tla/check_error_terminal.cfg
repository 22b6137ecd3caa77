\* executeHttp / getHttpStatus when the deploy succeeds and one Httpcheck
\* call may fail (a network error or a non-2xx answer).
SPECIFICATION Spec
CONSTANTS
    Submissions <- MCSubmissions
    AppLookup = {"found"}
    DeployResults = {"ok"}
    ResponseMarker = {"none"}
    CheckResults = {"err", "running", "doneOk", "doneFail"}
INVARIANTS
    FailureOnlyByCheckOrDeadline
CHECK_DEADLOCK FALSE

\* The check method is neither get nor post: does the task still complete?
SPECIFICATION Spec
CONSTANTS
    Submissions <- MCSubmissions
    AppLookup = {"found"}
    DeployResults = {"ok", "err"}
    ResponseMarker = {"none"}
    CheckResults = {"running", "noCheck"}
PROPERTY
    HttpTaskCompletes
\* The goroutine really stops once the terminal rows are written.
CHECK_DEADLOCK FALSE

\* The response marker of the check path does not resolve: does "terminated" stay terminal?
SPECIFICATION Spec
CONSTANTS
    Submissions <- MCSubmissions
    AppLookup = {"found"}
    DeployResults = {"ok", "err"}
    ResponseMarker = {"unresolved"}
    CheckResults = {"running", "doneOk"}
PROPERTY
    TerminalNeverRegresses
\* The goroutine really stops once the terminal rows are written.
CHECK_DEADLOCK FALSE

----------------------------- MODULE AgentHost -----------------------------
(***************************************************************************)
(* What the agent's VmDeploy (agent/internal/logic/vmdeploylogic.go) does  *)
(* to the VM host: the pre_command written to a temporary script and run, *)
(* the package downloaded into DeployPath and unarchived there, the        *)
(* start_command written to a temporary script and run.  The script files *)
(* and the package are removed by `defer`s, which run when VmDeploy        *)
(* returns; each defer is registered only once the code reaches it.        *)
(*                                                                         *)
(* One request runs sequentially, so it is a fold over its steps in code  *)
(* order, each with the outcome the host gives it; the first failing step *)
(* returns.  A write can fail before the file exists (os.WriteFile's open, *)
(* a download whose request fails) or after (a failed write, a body that  *)
(* breaks off), which leaves a partial file.                              *)
(*                                                                         *)
(* VmHealthCheck (vmhealthchecklogic.go) of type "shell" writes its check *)
(* to a temporary script in /tmp, runs it and defers its removal alike.   *)
(***************************************************************************)
EXTENDS Sequences

WriteOutcome == {"ok", "errNoFile", "errPartial"}

\* The files the agent creates only for its own use: VmDeploy's two
\* scripts and the package (the unpacked application, "app", is what it
\* deploys), and the shell health check's script.
TempFile == {"preScript", "package", "startScript", "checkScript"}

\* The steps of one request, in code order; the pre_command's only when
\* PreCommand is set.
Steps(c) ==
    <<"header", "user">>
        \o (IF c.preCommand THEN <<"writePre", "runPre">> ELSE <<>>)
        \o <<"download", "unarchive", "writeStart", "runStart">>

\* The host as the request left it so far: the files on it, the removals
\* deferred, the scripts run, and whether the request has returned an error.
Start == [files |-> {}, defers |-> {}, ran |-> {}, failed |-> FALSE]

Stop(st, cond) == [st EXCEPT !.failed = cond]

\* os.WriteFile, or the download into DeployPath: the file exists unless
\* the write failed before creating it; any error returns.
Write(st, f, o) ==
    [st EXCEPT !.files  = IF o = "errNoFile" THEN @ ELSE @ \cup {f},
               !.failed = o # "ok"]

\* Mutant of RunScript: the os.Remove deferred after the error test
\* (`if err != nil { return }` first), so a script whose run failed stays.
RunScriptDeferAfterCheck(st, f, o) ==
    [st EXCEPT !.ran = @ \cup {f},
               !.defers = IF o = "ok" THEN @ \cup {f} ELSE @,
               !.failed = o = "err"]

\* cmd.Run of a script, then `defer os.Remove` of it, then the test of
\* the run's error.
RunScript(st, f, o) ==
    [st EXCEPT !.ran = @ \cup {f}, !.defers = @ \cup {f}, !.failed = o = "err"]

\* utils.Unarchive, which writes the application's files once the archive
\* opens and is identified; the package's removal is deferred before the
\* error is tested.
UnarchiveStep(st, o) ==
    [st EXCEPT !.files = IF o = "ok" THEN @ \cup {"app"} ELSE @,
               !.defers = @ \cup {"package"},
               !.failed = o = "err"]

\* One step of the request, with the outcome the host gives it.
Step(s, c, r, st) ==
    CASE s = "header"     -> Stop(st, r.header = "bad")
      [] s = "user"       -> Stop(st, c.deployUser = "missing")
      [] s = "writePre"   -> Write(st, "preScript", r.preWrite)
      [] s = "runPre"     -> RunScript(st, "preScript", r.preExit)
      [] s = "download"   -> Write(st, "package", r.download)
      [] s = "unarchive"  -> UnarchiveStep(st, r.unarchive)
      [] s = "writeStart" -> Write(st, "startScript", r.startWrite)
      [] s = "runStart"   -> RunScript(st, "startScript", r.startExit)
      [] s = "writeCheck" -> Write(st, "checkScript", r.checkWrite)
      [] s = "runCheck"   -> RunScript(st, "checkScript", r.checkExit)

\* The steps up to the first that fails.
RECURSIVE Exec(_, _, _, _)
Exec(steps, c, r, st) ==
    IF steps = <<>> \/ st.failed THEN st
    ELSE Exec(Tail(steps), c, r, Step(Head(steps), c, r, st))

\* VmDeploy's result and the host it leaves once the deferred removals have
\* run at its return.
VmDeployHost(c, r) ==
    LET st == Exec(Steps(c), c, r, Start) IN
    [res |-> IF st.failed THEN "err" ELSE "ok",
     files |-> st.files \ st.defers,
     ran |-> st.ran]

\* VmHealthCheck of type "shell": the check script written, run, and
\* removed at return.
VmHealthCheckShellHost(r) ==
    LET st == Exec(<<"writeCheck", "runCheck">>, [deployUser |-> "unset"], r, Start) IN
    [res |-> IF st.failed THEN "err" ELSE "ok",
     files |-> st.files \ st.defers,
     ran |-> st.ran]

=============================================================================

------------------------------- MODULE Audit -------------------------------
(***************************************************************************)
(* scripts/audit_compliance.py: build slircd-ng once, run                   *)
(* scripts/run_irctest.sh on every irctest server test file in turn, and    *)
(* write docs/COMPLIANCE_REPORT.md from the collected results.              *)
(*                                                                         *)
(* The script is sequential; the runner script is its only concurrent       *)
(* partner and is outside this repository, so it is an environment that    *)
(* exits with a code, with or without FAILED/ERROR lines on stdout, or      *)
(* does not exit.  A test file is a model value.                            *)
(***************************************************************************)
EXTENDS Integers, Sequences, FiniteSets

CONSTANTS
    Names,      \* test file names
    TestFiles   \* sorted(glob(.../server_tests/*.py))

ASSUME TestFilesAssumption == TestFiles \in Seq(Names)

VARIABLES
    buildOk,    \* `cargo build --release` succeeds (input)
    scriptOk,   \* RUNNER_SCRIPT exists and is executable (input)
    docsOk,     \* slircd-ng/docs exists, so the report can be opened (input)
    phase,      \* "build", "loop", "report", "done" or "crashed"
    next,       \* index of the next test file
    child,      \* the runner script: "idle", "running", "hung" or [rc, summary]
    results,    \* the result records collected so far
    written,    \* COMPLIANCE_REPORT.md has been written
    report      \* what it says: [total, passed, failed, rows]

inputs == <<buildOk, scriptOk, docsOk>>
vars == <<inputs, phase, next, child, results, written, report>>

\* The runner's exit as the script sees it: status zero, or non-zero with
\* or without a line holding FAILED or ERROR on its stdout.
Exits == {"rc0", "rc1", "rc1_summary"}

\* details: "" on success, the FAILED/ERROR lines, or "See logs for details".
Details == {"none", "lines", "seelogs"}
Result == [name : Names,
           success : BOOLEAN, details : Details]

\* Types.
TypeOK ==
    /\ buildOk \in BOOLEAN /\ scriptOk \in BOOLEAN /\ docsOk \in BOOLEAN
    /\ phase \in {"build", "loop", "report", "done", "crashed"}
    /\ next \in 1..Len(TestFiles) + 1
    /\ child \in {"idle", "running", "hung"} \cup Exits
    /\ results \in Seq(Result)
    /\ written \in BOOLEAN
    /\ report \in [total : Nat, passed : Nat, failed : Int, rows : Seq(Result)]

Init ==
    /\ buildOk \in BOOLEAN /\ scriptOk \in BOOLEAN /\ docsOk \in BOOLEAN
    /\ phase = "build" /\ next = 1 /\ child = "idle"
    /\ results = <<>>
    /\ written = FALSE
    /\ report = [total |-> 0, passed |-> 0, failed |-> 0, rows |-> <<>>]

\* subprocess.run(["cargo", "build", "--release"], check=True): a failed
\* build raises CalledProcessError, which ends the script.
Build ==
    /\ phase = "build"
    /\ phase' = IF buildOk THEN "loop" ELSE "crashed"
    /\ UNCHANGED <<inputs, next, child, results, written, report>>

\* One iteration starts the runner script on the next file; a missing
\* script raises FileNotFoundError out of main().
StartRunner ==
    /\ phase = "loop" /\ child = "idle" /\ next <= Len(TestFiles)
    /\ IF scriptOk THEN child' = "running" /\ UNCHANGED phase
                   ELSE phase' = "crashed" /\ UNCHANGED child
    /\ UNCHANGED <<inputs, next, results, written, report>>

\* The runner script, while subprocess.run() waits for it (no timeout=).
RunnerExit ==
    /\ child = "running"
    /\ \E e \in Exits : child' = e
    /\ UNCHANGED <<inputs, phase, next, results, written, report>>

RunnerHang ==
    /\ child = "running"
    /\ child' = "hung"
    /\ UNCHANGED <<inputs, phase, next, results, written, report>>

\* The rest of the iteration: success is returncode == 0; a failure's
\* details are its FAILED/ERROR lines, or "See logs for details".
Collect ==
    /\ phase = "loop" /\ child \in Exits
    /\ LET ok == child = "rc0" IN
       results' = Append(results,
                    [name |-> TestFiles[next], success |-> ok,
                     details |-> IF ok THEN "none"
                                 ELSE IF child = "rc1_summary" THEN "lines" ELSE "seelogs"])
    /\ next' = next + 1 /\ child' = "idle"
    /\ UNCHANGED <<inputs, phase, written, report>>

\* Mutant: the loop ends one file early.
EndLoopEarly ==
    /\ phase = "loop" /\ child = "idle" /\ next >= Len(TestFiles)
    /\ phase' = "report"
    /\ UNCHANGED <<inputs, next, child, results, written, report>>

EndLoop ==
    /\ phase = "loop" /\ child = "idle" /\ next > Len(TestFiles)
    /\ phase' = "report"
    /\ UNCHANGED <<inputs, next, child, results, written, report>>

\* Count of the successful results.
NumPassed(rs) == Cardinality({k \in DOMAIN rs : rs[k].success})

\* open(REPORT_FILE, "w") raises when docs/ is missing, and every result
\* collected is lost; otherwise the header counts and one row per result.
WriteReport ==
    /\ phase = "report"
    /\ IF docsOk
          THEN /\ report' = [total |-> Len(results), passed |-> NumPassed(results),
                             failed |-> Len(results) - NumPassed(results),
                             rows |-> results]
               /\ written' = TRUE /\ phase' = "done"
          ELSE phase' = "crashed" /\ UNCHANGED <<written, report>>
    /\ UNCHANGED <<inputs, next, child, results>>

Script == Build \/ StartRunner \/ Collect \/ EndLoop \/ WriteReport
Runner == RunnerExit \/ RunnerHang

Next == Script \/ Runner

Spec == Init /\ [][Next]_vars

\* The script runs whenever it is not waiting on the runner; nothing makes
\* the runner exit.
FairSpec == Spec /\ WF_vars(Script)

-----------------------------------------------------------------------------
(* Properties.                                                             *)

\* A written report has one row per test file found, in order, and its
\* Passed/Failed header agrees with the rows and with the runner's exits.
ReportComplete ==
    written =>
        /\ report.total = Len(TestFiles)
        /\ [k \in DOMAIN report.rows |-> report.rows[k].name] = TestFiles
        /\ report.passed + report.failed = report.total
        /\ \A k \in DOMAIN report.rows :
              ~report.rows[k].success => report.rows[k].details # "none"

\* The audit always ends, with a report or an exception: the comment at
\* env["TIMEOUT"] promises a 30 s timeout per test file.
AuditTerminates == <>(phase \in {"done", "crashed"})

====

----------------------------- MODULE SafeRunner -----------------------------
(***************************************************************************)
(* scripts/run_irctest_safe.py: the runner that executes irctest files one *)
(* at a time, each in its own `bash irctest_safe.sh <file>` subprocess     *)
(* with a timeout, killing every slircd server before and after each file, *)
(* and reporting the results (summary, optional report file, exit code).   *)
(*                                                                         *)
(* The runner is one sequential process.  What runs concurrently with it   *)
(* is the test's subprocess: the wrapper and pytest start a slircd server, *)
(* and the child exits with a code, or runs on (or hangs) until the        *)
(* runner's timeout kills it.  A file is a model value; what the runner    *)
(* knows of it is whether it exists and whether it lies under              *)
(* IRCTEST_ROOT.                                                           *)
(***************************************************************************)
EXTENDS Naturals, Sequences, Functions

CONSTANTS
    Files,         \* test file paths that can appear on the command line
    Existing,      \* the ones that exist (Path.exists())
    InRoot,        \* the ones under IRCTEST_ROOT (relative_to succeeds)
    DiscoverList,  \* what discover_tests() returns: sorted, under the root
    ArgLists,      \* the lists of TEST_FILE arguments considered
    UserSet        \* the USER environment variable is set

ASSUME FilesAssumption ==
    /\ InRoot \subseteq Existing
    /\ Existing \subseteq Files
    /\ DiscoverList \in Seq(InRoot)
    /\ ArgLists \subseteq Seq(Files)
    /\ UserSet \in BOOLEAN

VARIABLES
    args,       \* the TEST_FILE arguments (input)
    discover,   \* --discover was given (input)
    output,     \* --output was given (input)
    setupOk,    \* _validate_setup finds the irctest root, binary and wrapper (input)
    phase,      \* where main() is
    files,      \* test_files: the list main() settled on
    pending,    \* the files run_tests() has still to run
    stage,      \* run_test(): "idle" between files, "child" while the subprocess runs
    child,      \* the subprocess: "running", "hung", or its exit code
    servers,    \* files whose slircd server is alive
    passed,     \* self.passed
    failed,     \* self.failed
    skipped,    \* self.skipped
    errors,     \* the keys of self.errors
    total,      \* the Total printed by _print_summary, -1 before
    written,    \* the report file has been written
    report,     \* the files it lists
    exitCode    \* main()'s return value, -1 while it runs

inputs == <<args, discover, output, setupOk>>
runVars == <<phase, files, pending, stage, child, servers>>
resVars == <<passed, failed, skipped, errors, total, written, report, exitCode>>
vars == <<inputs, runVars, resVars>>

\* The exit codes of the child the runner tells apart: 0 (PASS), 5 (pytest
\* collected nothing: SKIP), anything else (FAIL).
ExitCodes == {"rc0", "rc5", "rc1"}
Phases == {"start", "validated", "resolved", "running", "summary", "exited", "crashed"}

\* Types; a file the runner holds on to has passed the existence check.
TypeOK ==
    /\ args \in ArgLists
    /\ discover \in BOOLEAN /\ output \in BOOLEAN /\ setupOk \in BOOLEAN
    /\ phase \in Phases
    /\ files \in Seq(Existing)
    /\ pending \in Seq(Existing)
    /\ stage \in {"idle", "child"}
    /\ child \in {"running", "hung"} \cup ExitCodes
    /\ servers \in SUBSET Existing
    /\ passed \in Seq(Existing) /\ failed \in Seq(Existing) /\ skipped \in Seq(Existing)
    /\ errors \in SUBSET Existing
    /\ total \in Nat \cup {-1}
    /\ written \in BOOLEAN
    /\ report \in SUBSET Existing
    /\ exitCode \in {-1, 0, 1, 2}

\* The command line and the environment are the program's inputs.
Init ==
    /\ args \in ArgLists
    /\ discover \in BOOLEAN /\ output \in BOOLEAN /\ setupOk \in BOOLEAN
    /\ phase = "start"
    /\ files = <<>> /\ pending = <<>>
    /\ stage = "idle" /\ child = "running"
    /\ servers = {}
    /\ passed = <<>> /\ failed = <<>> /\ skipped = <<>>
    /\ errors = {}
    /\ total = -1
    /\ written = FALSE
    /\ report = {}
    /\ exitCode = -1

Exit(code) ==
    /\ phase' = "exited"
    /\ exitCode' = code

-----------------------------------------------------------------------------
(* main() up to run_tests().                                               *)

\* SafeTestRunner(): _validate_setup() prints the missing pieces and calls
\* sys.exit(2).
Validate ==
    /\ phase = "start"
    /\ IF setupOk THEN phase' = "validated" /\ UNCHANGED exitCode
                  ELSE Exit(2)
    /\ UNCHANGED <<inputs, files, pending, stage, child, servers,
                   passed, failed, skipped, errors, total, written, report>>

\* Mutant: the existence check dropped, every argument accepted.
ResolveNoExistCheck ==
    /\ phase = "validated"
    /\ files' = IF args # <<>> THEN args ELSE DiscoverList
    /\ phase' = "resolved"
    /\ UNCHANGED <<inputs, pending, stage, child, servers, resVars>>

\* The TEST_FILE arguments, each taken relative to IRCTEST_ROOT or as it is;
\* the first one that does not exist ends main() with 1.  Without
\* arguments, discover_tests().
Resolve ==
    /\ phase = "validated"
    /\ \/ /\ args # <<>>
          /\ Range(args) \subseteq Existing
          /\ files' = args /\ phase' = "resolved" /\ UNCHANGED exitCode
       \/ /\ args # <<>>
          /\ ~(Range(args) \subseteq Existing)
          /\ Exit(1) /\ UNCHANGED files
       \/ /\ args = <<>>
          /\ files' = DiscoverList /\ phase' = "resolved" /\ UNCHANGED exitCode
    /\ UNCHANGED <<inputs, pending, stage, child, servers,
                   passed, failed, skipped, errors, total, written, report>>

\* --discover prints every file relative to IRCTEST_ROOT: relative_to()
\* raises ValueError for a file outside it, and nothing catches it.
ListFiles ==
    /\ phase = "resolved"
    /\ discover
    /\ IF Range(files) \subseteq InRoot THEN Exit(0)
                                        ELSE phase' = "crashed" /\ UNCHANGED exitCode
    /\ UNCHANGED <<inputs, files, pending, stage, child, servers,
                   passed, failed, skipped, errors, total, written, report>>

\* No files: main() returns 1; otherwise run_tests() starts its loop.
StartRun ==
    /\ phase = "resolved"
    /\ ~discover
    /\ IF files = <<>> THEN Exit(1) /\ UNCHANGED <<pending>>
                       ELSE phase' = "running" /\ pending' = files /\ UNCHANGED exitCode
    /\ UNCHANGED <<inputs, files, stage, child, servers,
                   passed, failed, skipped, errors, total, written, report>>

-----------------------------------------------------------------------------
(* run_tests(): one run_test() per file, then the summary.                 *)

\* _cleanup_lingering_slircd(): `pkill -u $USER -f slircd.*config.toml`,
\* TERM then KILL.  It kills every test server of the user.  Without USER
\* the argument is `-u ""`, pkill stops at its usage error, and nothing is
\* killed; its exit status is not looked at.
Cleanup(S) == IF UserSet THEN {} ELSE S

\* run_test() up to the subprocess: test_file.relative_to(irctest_root)
\* is computed before the try, so for a file outside the root its
\* ValueError ends run_tests() and main() with a traceback.  Otherwise the
\* pre-cleanup runs and `bash irctest_safe.sh <file>` is started.
RunTestStart ==
    /\ phase = "running" /\ stage = "idle" /\ pending # <<>>
    /\ IF Head(pending) \in InRoot
          THEN /\ servers' = Cleanup(servers)
               /\ stage' = "child" /\ child' = "running"
               /\ UNCHANGED phase
          ELSE phase' = "crashed" /\ UNCHANGED <<servers, stage, child>>
    /\ UNCHANGED <<inputs, files, pending, resVars>>

\* What the subprocess does while subprocess.run() waits for it: the
\* wrapper starts the file's slircd, the child exits (and KILL_SLIRCD=1 may
\* or may not have stopped its server by then), or it hangs.
ServerUp ==
    /\ stage = "child" /\ child \in {"running", "hung"}
    /\ Head(pending) \notin servers
    /\ servers' = servers \cup {Head(pending)}
    /\ UNCHANGED <<inputs, phase, files, pending, stage, child, resVars>>

ChildExit ==
    /\ stage = "child" /\ child = "running"
    /\ \E c \in ExitCodes : child' = c
    /\ \E S \in {servers, servers \ {Head(pending)}} : servers' = S
    /\ UNCHANGED <<inputs, phase, files, pending, stage, resVars>>

ChildHang ==
    /\ stage = "child" /\ child = "running"
    /\ child' = "hung"
    /\ UNCHANGED <<inputs, phase, files, pending, stage, servers, resVars>>

\* run_tests() files the status run_test() returned under test_file.name:
\* PASS, FAIL (with its message in errors), SKIP, or ERROR (in errors only).
Record(f, status) ==
    /\ passed' = IF status = "PASS" THEN Append(passed, f) ELSE passed
    /\ failed' = IF status = "FAIL" THEN Append(failed, f) ELSE failed
    /\ skipped' = IF status = "SKIP" THEN Append(skipped, f) ELSE skipped
    /\ errors' = IF status \in {"FAIL", "ERROR"} THEN errors \cup {f} ELSE errors

\* The child exited: post-cleanup, the exit code read as PASS (0), SKIP (5)
\* or FAIL, then the finally-cleanup; run_tests() records the status.
RunTestEnd ==
    /\ stage = "child" /\ child \in ExitCodes
    /\ servers' = Cleanup(Cleanup(servers))
    /\ Record(Head(pending),
              CASE child = "rc0" -> "PASS" [] child = "rc5" -> "SKIP" [] OTHER -> "FAIL")
    /\ pending' = Tail(pending) /\ stage' = "idle"
    /\ UNCHANGED <<inputs, phase, files, child, total, written, report, exitCode>>

\* Mutant: subprocess.run() called without timeout=, so a hung child is
\* waited for forever.
RunTestNoTimeout == FALSE

\* Mutant: the cleanup after the try rather than in its finally clause,
\* so the early return on TimeoutExpired skips it.
RunTestTimeoutNoFinally ==
    /\ stage = "child" /\ child \in {"running", "hung"}
    /\ Record(Head(pending), "ERROR")
    /\ pending' = Tail(pending) /\ stage' = "idle"
    /\ UNCHANGED <<inputs, phase, files, child, servers, total, written, report, exitCode>>

\* Mutant: a timed-out file is retried instead of left behind.
RunTestTimeoutRetry ==
    /\ stage = "child" /\ child \in {"running", "hung"}
    /\ servers' = Cleanup(servers)
    /\ Record(Head(pending), "ERROR")
    /\ stage' = "idle"
    /\ UNCHANGED <<inputs, phase, files, pending, child, total, written, report, exitCode>>

\* TIMEOUT_PER_TEST ran out: subprocess.run() kills bash and raises
\* TimeoutExpired, run_test() returns ERROR, and its finally-cleanup runs.
RunTestTimeout ==
    /\ stage = "child" /\ child \in {"running", "hung"}
    /\ servers' = Cleanup(servers)
    /\ Record(Head(pending), "ERROR")
    /\ pending' = Tail(pending) /\ stage' = "idle"
    /\ UNCHANGED <<inputs, phase, files, child, total, written, report, exitCode>>

\* The loop is over: _print_summary() counts passed, failed and skipped.
Summary ==
    /\ phase = "running" /\ stage = "idle" /\ pending = <<>>
    /\ total' = Len(passed) + Len(failed) + Len(skipped)
    /\ phase' = "summary"
    /\ UNCHANGED <<inputs, files, pending, stage, child, servers,
                   passed, failed, skipped, errors, written, report, exitCode>>

\* save_report() lists passed, failed and skipped when --output is given
\* (a failed open is caught and printed), and main() returns 1 if any test
\* failed, 0 otherwise.
SaveReport ==
    /\ phase = "summary"
    /\ \/ /\ output
          /\ written' = TRUE
          /\ report' = Range(passed) \cup Range(failed) \cup Range(skipped)
       \/ UNCHANGED <<written, report>>
    /\ Exit(IF failed # <<>> THEN 1 ELSE 0)
    /\ UNCHANGED <<inputs, files, pending, stage, child, servers,
                   passed, failed, skipped, errors, total>>

-----------------------------------------------------------------------------
Runner == Validate \/ Resolve \/ ListFiles \/ StartRun \/ RunTestStart
            \/ RunTestEnd \/ RunTestTimeout \/ Summary \/ SaveReport
Child == ServerUp \/ ChildExit \/ ChildHang

Next == Runner \/ Child

Spec == Init /\ [][Next]_vars

\* The runner is a single process that is never blocked except on its
\* child, whose wait is bounded by the timeout; the child may hang.
FairSpec == Spec /\ WF_vars(Runner)

-----------------------------------------------------------------------------
(* Properties.                                                             *)

\* The cleanup before, after and in the finally clause of every run_test()
\* keeps servers of different files apart: a live slircd always belongs to
\* the file whose subprocess is running, whichever way the previous file
\* ended (exit, timeout, exception).
NoLingeringServers ==
    \A f \in servers : stage = "child" /\ f = Head(pending)

\* The order of work (TestSequence): main() has loaded its list once
\* run_tests() has begun; the file whose child runs is the head of what is
\* pending; the files before the pending ones have been run.
Loaded == ~discover /\ files # <<>> /\ phase \in {"running", "summary", "exited", "crashed"}

TS == INSTANCE TestSequence WITH
        loaded <- Loaded,
        todo <- IF stage = "child" THEN Tail(pending) ELSE pending,
        cur <- IF stage = "child" THEN <<Head(pending)>> ELSE <<>>,
        ran <- IF Loaded THEN SubSeq(files, 1, Len(files) - Len(pending)) ELSE <<>>

\* run_tests() runs the files main() settled on one at a time, in order,
\* each exactly once, whatever each run_test() returns.
RunsEachFileOnceInOrder == TS!Spec

\* The runner always ends: with an exit code or a traceback.  A hung test
\* is cut off by the timeout of subprocess.run().
Terminates == <>(phase \in {"exited", "crashed"})

\* main() always ends with an exit code once its arguments were accepted:
\* every file that passed the existence check is run and reported.
ReachesExitCode == <>(phase = "exited")

\* Every test file that was run is accounted for: the report written by
\* --output lists it ("Write results to FILE"), and the exit status is 0
\* only if it passed or was skipped (main(): "0 if all passed, 1 if any
\* failed").
ResultsAccountForAll ==
    (phase = "exited" /\ ~discover) =>
        /\ written => Range(files) \subseteq report
        /\ exitCode = 0 => Range(files) \subseteq Range(passed) \cup Range(skipped)

====

---------------------------- MODULE AuditProofs ----------------------------
(***************************************************************************)
(* Proofs about the compliance audit (Audit.tla) for every list of test    *)
(* files: the report it writes is complete and its counts agree.           *)
(***************************************************************************)
EXTENDS Audit, FiniteSetTheorems, TLAPS

USE TestFilesAssumption

\* The loop has collected one result per file before `next`, in order.
Progress == Len(results) = next - 1

RowsMatch ==
    \A k \in 1..Len(results) :
        /\ results[k].name = TestFiles[k]
        /\ ~results[k].success => results[k].details # "none"

\* Past the loop, every file has been collected.
LoopDone == phase \in {"report", "done"} => next = Len(TestFiles) + 1

\* The runner runs only inside the loop, on an existing file.
ChildInLoop == child # "idle" => phase = "loop" /\ next <= Len(TestFiles)

\* A written report is the collected results, counted.
Written ==
    written =>
        /\ report.rows = results
        /\ report.total = Len(results)
        /\ report.passed + report.failed = report.total
        /\ phase = "done"

\* The inductive invariant.
IInv == TypeOK /\ Progress /\ RowsMatch /\ LoopDone /\ ChildInLoop /\ Written

\* The count of passing rows is a natural number.
LEMMA NumPassedNat ==
    ASSUME NEW rs \in Seq(Result)
    PROVE  NumPassed(rs) \in Nat
<1>1. IsFiniteSet(1..Len(rs))
    BY FS_Interval
<1>2. {k \in DOMAIN rs : rs[k].success} \subseteq 1..Len(rs)
    OBVIOUS
<1>3. IsFiniteSet({k \in DOMAIN rs : rs[k].success})
    BY <1>1, <1>2, FS_Subset
<1>. QED
    BY <1>3, FS_CardinalityType DEF NumPassed

LEMMA InitIInv == Init => IInv
<1> SUFFICES ASSUME Init PROVE IInv
    OBVIOUS
<1>1. TypeOK
    <2>1. next \in 1..Len(TestFiles) + 1
        BY DEF Init
    <2>2. results \in Seq(Result) /\ report \in [total : Nat, passed : Nat, failed : Int, rows : Seq(Result)]
        BY DEF Init
    <2>. QED
        BY <2>1, <2>2 DEF Init, TypeOK
<1>2. Progress /\ RowsMatch /\ LoopDone /\ ChildInLoop /\ Written
    BY DEF Init, Progress, RowsMatch, LoopDone, ChildInLoop, Written
<1>. QED
    BY <1>1, <1>2 DEF IInv

LEMMA NextIInv == IInv /\ [Next]_vars => IInv'
<1> SUFFICES ASSUME IInv, [Next]_vars PROVE IInv'
    OBVIOUS
<1> USE DEF IInv, TypeOK, Progress, RowsMatch, LoopDone, ChildInLoop, Written, inputs
<1>1. CASE Build
    BY <1>1 DEF Build
<1>2. CASE StartRunner
    BY <1>2 DEF StartRunner
<1>3. CASE RunnerExit
    BY <1>3 DEF RunnerExit, Exits
<1>4. CASE RunnerHang
    BY <1>4 DEF RunnerHang
<1>5. CASE Collect
    <2> DEFINE ok == child = "rc0"
               row == [name |-> TestFiles[next], success |-> ok,
                       details |-> IF ok THEN "none"
                                   ELSE IF child = "rc1_summary" THEN "lines" ELSE "seelogs"]
    <2>1. phase = "loop" /\ child \in Exits /\ next \in 1..Len(TestFiles)
        BY <1>5 DEF Collect, Exits
    <2>2. results' = Append(results, row) /\ next' = next + 1 /\ child' = "idle"
          /\ UNCHANGED <<phase, written, report, buildOk, scriptOk, docsOk>>
        BY <1>5 DEF Collect
    <2>3. row \in Result
        BY <2>1 DEF Result, Details
    <2>4. TypeOK'
        BY <2>1, <2>2, <2>3
    <2>5. Progress'
        BY <2>1, <2>2, <2>3
    <2>6. RowsMatch'
        <3> SUFFICES ASSUME NEW k \in 1..Len(results')
                     PROVE  /\ results'[k].name = TestFiles[k]
                            /\ ~results'[k].success => results'[k].details # "none"
            OBVIOUS
        <3>1. CASE k <= Len(results)
            BY <2>2, <3>1
        <3>2. CASE k = Len(results) + 1
            <4>1. results'[k] = row
                BY <2>2, <3>2
            <4>2. k = next
                BY <3>2
            <4>3. results'[k].name = TestFiles[k]
                BY <4>1, <4>2
            <4>4. ~row.success => row.details # "none"
                <5>1. CASE child = "rc0"
                    BY <5>1
                <5>2. CASE child # "rc0"
                    BY <5>2
                <5>. QED
                    BY <5>1, <5>2
            <4>. QED
                BY <4>1, <4>3, <4>4
        <3>. QED
            BY <2>2, <2>3, <3>1, <3>2
    <2>7. (LoopDone /\ ChildInLoop /\ Written)'
        BY <2>1, <2>2
    <2>. QED
        BY <2>4, <2>5, <2>6, <2>7
<1>6. CASE EndLoop
    BY <1>6 DEF EndLoop
<1>7. CASE WriteReport
    <2>1. NumPassed(results) \in Nat
        BY NumPassedNat
    <2>2. phase = "report" /\ next = Len(TestFiles) + 1
        BY <1>7 DEF WriteReport
    <2>3. CASE docsOk
        <3>1. report' = [total |-> Len(results), passed |-> NumPassed(results),
                         failed |-> Len(results) - NumPassed(results), rows |-> results]
              /\ written' /\ phase' = "done"
              /\ UNCHANGED <<buildOk, scriptOk, docsOk, next, child, results>>
            BY <1>7, <2>3 DEF WriteReport
        <3>2. TypeOK'
            BY <2>1, <3>1
        <3>3. Written'
            BY <2>1, <3>1
        <3>. QED
            BY <2>2, <3>1, <3>2, <3>3
    <2>4. CASE ~docsOk
        BY <1>7, <2>4 DEF WriteReport
    <2>. QED
        BY <2>3, <2>4
<1>8. CASE UNCHANGED vars
    BY <1>8 DEF vars, inputs
<1>. QED
    BY <1>1, <1>2, <1>3, <1>4, <1>5, <1>6, <1>7, <1>8 DEF Next, Script, Runner

\* The report the audit writes has one row per test file found, in the
\* glob's order, and Passed + Failed = Total, for any list of test files
\* and any outcome of the build, the runner script and the report's open().
THEOREM ReportCorrect == Spec => []ReportComplete
<1>1. IInv => ReportComplete
    <2> SUFFICES ASSUME IInv, written PROVE ReportComplete
        BY DEF ReportComplete
    <2>1. report.rows = results /\ Len(results) = Len(TestFiles)
          /\ report.total = Len(results) /\ report.passed + report.failed = report.total
        BY DEF IInv, Progress, LoopDone, Written
    <2>2. results \in Seq(Result)
        BY DEF IInv, TypeOK
    <2>3. [k \in DOMAIN report.rows |-> report.rows[k].name] = TestFiles
        BY <2>1, <2>2 DEF IInv, RowsMatch
    <2>. QED
        BY <2>1, <2>2, <2>3 DEF IInv, RowsMatch, ReportComplete
<1>. QED
    BY <1>1, InitIInv, NextIInv, PTL DEF Spec

====

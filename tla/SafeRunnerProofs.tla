------------------------- MODULE SafeRunnerProofs -------------------------
(***************************************************************************)
(* Proofs about the safe irctest runner (SafeRunner.tla) for every set of *)
(* files and every argument list: its state is well typed, with USER set  *)
(* no server outlives its file, and it implements TestSequence.           *)
(***************************************************************************)
EXTENDS SafeRunner, SequenceTheorems, TLAPS

USE FilesAssumption

\* How main()'s phases bound the rest of the state.
Shape ==
    /\ stage = "child" => phase = "running" /\ pending # <<>>
    /\ phase \in {"start", "validated"} => files = <<>>
    /\ phase \in {"running", "summary"} => Loaded
    /\ ~Loaded => pending = <<>> /\ stage = "idle"

\* The pending files are the tail of the list main() settled on.
Suffix ==
    /\ Len(pending) <= Len(files)
    /\ \A i \in 1..Len(pending) : pending[i] = files[Len(files) - Len(pending) + i]

\* The inductive invariant.
IInv == TypeOK /\ Shape /\ Suffix

LEMMA InitIInv == Init => IInv
<1> SUFFICES ASSUME Init PROVE IInv
    OBVIOUS
<1>1. TypeOK
    <2>1. <<>> \in Seq(Existing)
        OBVIOUS
    <2>2. -1 \in Nat \cup {-1}
        OBVIOUS
    <2>3. /\ args \in ArgLists
          /\ discover \in BOOLEAN /\ output \in BOOLEAN /\ setupOk \in BOOLEAN
          /\ phase \in Phases /\ stage \in {"idle", "child"}
          /\ child \in {"running", "hung"} \cup ExitCodes
          /\ written \in BOOLEAN
        BY Zenon DEF Init, Phases
    <2>5. exitCode \in {-1, 0, 1, 2}
        BY DEF Init
    <2>4. /\ files \in Seq(Existing) /\ pending \in Seq(Existing)
          /\ passed \in Seq(Existing) /\ failed \in Seq(Existing)
          /\ skipped \in Seq(Existing)
          /\ servers \in SUBSET Existing /\ errors \in SUBSET Existing
          /\ report \in SUBSET Existing /\ total \in Nat \cup {-1}
        BY <2>1, <2>2 DEF Init
    <2>. QED
        BY <2>3, <2>4, <2>5 DEF TypeOK
<1>2. Shape
    BY DEF Init, Shape, Loaded
<1>3. Suffix
    BY DEF Init, Suffix
<1>. QED
    BY <1>1, <1>2, <1>3 DEF IInv

\* A sequence whose elements lie in a set is a sequence over that set.
LEMMA SeqOverRange ==
    ASSUME NEW S, NEW T, NEW s \in Seq(T), Range(s) \subseteq S
    PROVE  s \in Seq(S)
<1>1. Len(s) \in Nat /\ DOMAIN s = 1..Len(s)
    BY LenProperties
<1>2. \A i \in 1..Len(s) : s[i] \in S
    BY <1>1 DEF Range
<1>3. s \in [1..Len(s) -> S]
    BY <1>1, <1>2
<1>. QED
    BY <1>1, <1>3, SeqDef

\* What run_tests() files under a name stays a set of existing files.
LEMMA RecordType ==
    ASSUME TypeOK, NEW f \in Existing, NEW st, Record(f, st)
    PROVE  /\ passed' \in Seq(Existing) /\ failed' \in Seq(Existing)
           /\ skipped' \in Seq(Existing) /\ errors' \in SUBSET Existing
BY DEF Record, TypeOK

\* The file under test is an existing file.
LEMMA HeadPending ==
    ASSUME TypeOK, Shape, stage = "child"
    PROVE  /\ Head(pending) \in Existing
           /\ Tail(pending) \in Seq(Existing)
           /\ Len(Tail(pending)) = Len(pending) - 1
           /\ \A i \in 1..Len(Tail(pending)) : Tail(pending)[i] = pending[i + 1]
BY HeadTailProperties DEF TypeOK, Shape

LEMMA ValidateIInv == IInv /\ Validate => IInv'
<1> SUFFICES ASSUME IInv, Validate PROVE IInv'
    OBVIOUS
<1>1. phase = "start" /\ files = <<>> /\ pending = <<>> /\ stage = "idle"
    BY DEF Validate, IInv, Shape, Loaded
<1>2. /\ phase' \in {"validated", "exited"} /\ exitCode' \in {exitCode, 2}
      /\ UNCHANGED <<inputs, files, pending, stage, child, servers,
                     passed, failed, skipped, errors, total, written, report>>
    BY DEF Validate, Exit
<1>3. TypeOK'
    <2>1. (phase \in Phases /\ exitCode \in {-1, 0, 1, 2})'
        BY <1>2 DEF Phases, IInv, TypeOK
    <2>. QED
        BY <1>2, <2>1 DEF IInv, TypeOK, inputs
<1>4. (Shape /\ Suffix)'
    BY <1>1, <1>2 DEF Shape, Suffix, Loaded, inputs
<1>. QED
    BY <1>3, <1>4 DEF IInv

LEMMA ResolveIInv == IInv /\ Resolve => IInv'
<1> SUFFICES ASSUME IInv, Resolve PROVE IInv'
    OBVIOUS
<1>1. phase = "validated" /\ files = <<>> /\ pending = <<>> /\ stage = "idle"
    BY DEF Resolve, IInv, Shape, Loaded
<1>2. /\ phase' \in {"resolved", "exited"} /\ exitCode' \in {exitCode, 1}
      /\ (phase' = "exited" => files' = <<>>)
      /\ UNCHANGED <<inputs, pending, stage, child, servers,
                     passed, failed, skipped, errors, total, written, report>>
    BY <1>1 DEF Resolve, Exit
<1>3. files' \in Seq(Existing)
    <2>1. CASE args # <<>> /\ Range(args) \subseteq Existing /\ files' = args
        <3>1. args \in Seq(Files)
            BY DEF IInv, TypeOK
        <3>. QED
            BY <2>1, <3>1, SeqOverRange
    <2>2. CASE args = <<>> /\ files' = DiscoverList
        BY <2>2, SeqMonotonic
    <2>3. CASE files' = files
        BY <2>3, <1>1
    <2>. QED
        BY <2>1, <2>2, <2>3 DEF Resolve
<1>4. TypeOK'
    <2>1. (phase \in Phases /\ exitCode \in {-1, 0, 1, 2})'
        BY <1>2 DEF Phases, IInv, TypeOK
    <2>. QED
        BY <1>2, <1>3, <2>1 DEF IInv, TypeOK, inputs
<1>5. (Shape /\ Suffix)'
    BY <1>1, <1>2 DEF Shape, Suffix, Loaded, inputs
<1>. QED
    BY <1>4, <1>5 DEF IInv

LEMMA ListFilesIInv == IInv /\ ListFiles => IInv'
<1> SUFFICES ASSUME IInv, ListFiles PROVE IInv'
    OBVIOUS
<1>1. phase = "resolved" /\ discover /\ pending = <<>> /\ stage = "idle"
    BY DEF ListFiles, IInv, Shape, Loaded
<1>2. /\ phase' \in {"exited", "crashed"} /\ exitCode' \in {exitCode, 0}
      /\ UNCHANGED <<inputs, files, pending, stage, child, servers,
                     passed, failed, skipped, errors, total, written, report>>
    BY DEF ListFiles, Exit
<1>3. TypeOK'
    <2>1. (phase \in Phases /\ exitCode \in {-1, 0, 1, 2})'
        BY <1>2 DEF Phases, IInv, TypeOK
    <2>. QED
        BY <1>2, <2>1 DEF IInv, TypeOK, inputs
<1>4. (Shape /\ Suffix)'
    BY <1>1, <1>2 DEF Shape, Suffix, Loaded, inputs
<1>. QED
    BY <1>3, <1>4 DEF IInv

LEMMA StartRunIInv == IInv /\ StartRun => IInv'
<1> SUFFICES ASSUME IInv, StartRun PROVE IInv'
    OBVIOUS
<1>1. phase = "resolved" /\ ~discover /\ pending = <<>> /\ stage = "idle"
    BY DEF StartRun, IInv, Shape, Loaded
<1>2. UNCHANGED <<inputs, files, stage, child, servers,
                  passed, failed, skipped, errors, total, written, report>>
    BY DEF StartRun
<1>3. CASE files = <<>>
    <2>1. phase' = "exited" /\ exitCode' = 1 /\ pending' = pending
        BY <1>3 DEF StartRun, Exit
    <2>2. TypeOK'
        BY <1>2, <2>1 DEF IInv, TypeOK, Phases, inputs
    <2>3. (Shape /\ Suffix)'
        BY <1>1, <1>2, <1>3, <2>1 DEF Shape, Suffix, Loaded, inputs
    <2>. QED
        BY <2>2, <2>3 DEF IInv
<1>4. CASE files # <<>>
    <2>1. phase' = "running" /\ pending' = files /\ exitCode' = exitCode
        BY <1>4 DEF StartRun
    <2>2. TypeOK'
        BY <1>2, <2>1 DEF IInv, TypeOK, Phases, inputs
    <2>3. Shape'
        BY <1>1, <1>2, <1>4, <2>1 DEF Shape, Loaded, inputs
    <2>4. Suffix'
        BY <1>2, <2>1 DEF Suffix, IInv, TypeOK
    <2>. QED
        BY <2>2, <2>3, <2>4 DEF IInv
<1>. QED
    BY <1>3, <1>4

\* The cleanup kills some of the user's servers, never starts one.
LEMMA CleanupSubset ==
    ASSUME NEW S PROVE Cleanup(S) \subseteq S
BY DEF Cleanup

LEMMA RunTestStartIInv == IInv /\ RunTestStart => IInv'
<1> SUFFICES ASSUME IInv, RunTestStart PROVE IInv'
    OBVIOUS
<1>1. phase = "running" /\ stage = "idle" /\ pending # <<>> /\ Loaded
    BY DEF RunTestStart, IInv, Shape
<1>2. UNCHANGED <<inputs, files, pending, resVars>>
    BY DEF RunTestStart
<1>3. CASE Head(pending) \in InRoot
    <2>1. /\ servers' \subseteq servers /\ stage' = "child" /\ child' = "running"
          /\ phase' = phase
        BY <1>3, CleanupSubset DEF RunTestStart
    <2>2. TypeOK'
        BY <1>2, <2>1, Zenon DEF IInv, TypeOK, inputs, resVars
    <2>3. Shape'
        BY <1>1, <1>2, <2>1 DEF Shape, Loaded, inputs
    <2>4. Suffix'
        BY <1>2 DEF IInv, Suffix
    <2>. QED
        BY <2>2, <2>3, <2>4 DEF IInv
<1>4. CASE Head(pending) \notin InRoot
    <2>1. phase' = "crashed" /\ UNCHANGED <<servers, stage, child>>
        BY <1>4 DEF RunTestStart
    <2>2. TypeOK'
        BY <1>2, <2>1 DEF IInv, TypeOK, Phases, inputs, resVars
    <2>3. Shape'
        BY <1>1, <1>2, <2>1 DEF Shape, Loaded, inputs
    <2>4. Suffix'
        BY <1>2 DEF IInv, Suffix
    <2>. QED
        BY <2>2, <2>3, <2>4 DEF IInv
<1>. QED
    BY <1>3, <1>4

\* The child's own steps touch only child and servers.
LEMMA ChildIInv == IInv /\ (ServerUp \/ ChildExit \/ ChildHang) => IInv'
<1> SUFFICES ASSUME IInv, ServerUp \/ ChildExit \/ ChildHang PROVE IInv'
    OBVIOUS
<1>1. stage = "child" /\ pending # <<>>
    BY DEF ServerUp, ChildExit, ChildHang, IInv, Shape
<1>2. Head(pending) \in Existing
    BY <1>1, HeadTailProperties DEF IInv, TypeOK
<1>3. /\ servers' \subseteq servers \cup {Head(pending)}
      /\ child' \in {"running", "hung"} \cup ExitCodes
      /\ UNCHANGED <<inputs, phase, files, pending, stage, resVars>>
    BY DEF ServerUp, ChildExit, ChildHang, ExitCodes
<1>4. TypeOK'
    <2>1. servers' \in SUBSET Existing
        BY <1>2, <1>3 DEF IInv, TypeOK
    <2>. QED
        BY <1>3, <2>1 DEF IInv, TypeOK, inputs, resVars
<1>5. (Shape /\ Suffix)'
    BY <1>3 DEF IInv, Shape, Suffix, Loaded, inputs
<1>. QED
    BY <1>4, <1>5 DEF IInv

\* Leaving a file behind keeps the pending files a suffix of the list.
LEMMA SuffixTail ==
    ASSUME TypeOK, Suffix, pending # <<>>,
           pending' = Tail(pending), files' = files
    PROVE  Suffix'
<1>1. /\ Len(Tail(pending)) = Len(pending) - 1
      /\ \A i \in 1..Len(Tail(pending)) : Tail(pending)[i] = pending[i + 1]
    BY HeadTailProperties DEF TypeOK
<1>2. Len(pending') <= Len(files')
    BY <1>1 DEF Suffix, TypeOK
<1>3. ASSUME NEW i \in 1..Len(pending')
      PROVE  pending'[i] = files'[Len(files') - Len(pending') + i]
    <2>1. i + 1 \in 1..Len(pending)
        BY <1>1 DEF TypeOK
    <2>2. pending[i + 1] = files[Len(files) - Len(pending) + (i + 1)]
        BY <2>1 DEF Suffix
    <2>. QED
        BY <1>1, <2>2 DEF TypeOK
<1>. QED
    BY <1>2, <1>3 DEF Suffix

\* The common shape of RunTestEnd and RunTestTimeout.
LEMMA FinishIInv ==
    ASSUME IInv, stage = "child",
           NEW st, Record(Head(pending), st),
           servers' \subseteq servers,
           pending' = Tail(pending), stage' = "idle",
           UNCHANGED <<inputs, phase, files, child, total, written, report, exitCode>>
    PROVE  IInv'
<1>1. pending # <<>> /\ phase = "running" /\ Loaded
    BY DEF IInv, Shape
<1>2. Head(pending) \in Existing /\ Tail(pending) \in Seq(Existing)
    BY <1>1, HeadTailProperties DEF IInv, TypeOK
<1>3. /\ passed' \in Seq(Existing) /\ failed' \in Seq(Existing)
      /\ skipped' \in Seq(Existing) /\ errors' \in SUBSET Existing
    BY <1>2, RecordType DEF IInv
<1>4. TypeOK'
    BY <1>2, <1>3 DEF IInv, TypeOK, inputs
<1>5. Shape'
    BY <1>1 DEF Shape, Loaded, inputs
<1>6. Suffix'
    BY <1>1, SuffixTail DEF IInv
<1>. QED
    BY <1>4, <1>5, <1>6 DEF IInv

LEMMA EndIInv == IInv /\ (RunTestEnd \/ RunTestTimeout) => IInv'
<1> SUFFICES ASSUME IInv, RunTestEnd \/ RunTestTimeout PROVE IInv'
    OBVIOUS
<1>1. CASE RunTestEnd
    <2>1. Cleanup(Cleanup(servers)) \subseteq servers
        BY CleanupSubset
    <2>. QED
        BY <1>1, <2>1, FinishIInv DEF RunTestEnd
<1>2. CASE RunTestTimeout
    BY <1>2, CleanupSubset, FinishIInv DEF RunTestTimeout
<1>. QED
    BY <1>1, <1>2

LEMMA SummaryIInv == IInv /\ Summary => IInv'
<1> SUFFICES ASSUME IInv, Summary PROVE IInv'
    OBVIOUS
<1>1. phase = "running" /\ stage = "idle" /\ Loaded
    BY DEF Summary, IInv, Shape
<1>2. /\ phase' = "summary" /\ total' \in Nat
      /\ UNCHANGED <<inputs, files, pending, stage, child, servers,
                     passed, failed, skipped, errors, written, report, exitCode>>
    BY LenProperties DEF Summary, IInv, TypeOK
<1>3. TypeOK'
    <2>1. total' \in Nat \cup {-1} /\ phase' \in Phases
        BY <1>2 DEF Phases
    <2>. QED
        BY <1>2, <2>1 DEF IInv, TypeOK, inputs
<1>4. Shape'
    BY <1>1, <1>2 DEF Shape, Loaded, inputs
<1>5. Suffix'
    BY <1>2 DEF IInv, Suffix
<1>. QED
    BY <1>3, <1>4, <1>5 DEF IInv

LEMMA SaveReportIInv == IInv /\ SaveReport => IInv'
<1> SUFFICES ASSUME IInv, SaveReport PROVE IInv'
    OBVIOUS
<1>1. phase = "summary" /\ Loaded /\ stage = "idle"
    BY DEF SaveReport, IInv, Shape, TypeOK
<1>2. /\ phase' = "exited" /\ exitCode' \in {0, 1}
      /\ UNCHANGED <<inputs, files, pending, stage, child, servers,
                     passed, failed, skipped, errors, total>>
    BY DEF SaveReport, Exit
<1>3. report' \in SUBSET Existing /\ written' \in BOOLEAN
    <2>1. Range(passed) \cup Range(failed) \cup Range(skipped) \subseteq Existing
        BY RangeOfSeq DEF IInv, TypeOK
    <2>. QED
        BY <2>1 DEF SaveReport, IInv, TypeOK
<1>4. TypeOK'
    BY <1>2, <1>3 DEF IInv, TypeOK, Phases, inputs
<1>5. (Shape /\ Suffix)'
    BY <1>1, <1>2 DEF IInv, Shape, Suffix, Loaded, inputs
<1>. QED
    BY <1>4, <1>5 DEF IInv

LEMMA NextIInv == IInv /\ [Next]_vars => IInv'
<1> SUFFICES ASSUME IInv, [Next]_vars PROVE IInv'
    OBVIOUS
<1>1. CASE UNCHANGED vars
    BY <1>1 DEF vars, inputs, runVars, resVars, IInv, TypeOK, Shape, Suffix,
                Loaded, ExitCodes, Phases
<1>. QED
    BY <1>1, ValidateIInv, ResolveIInv, ListFilesIInv, StartRunIInv,
       RunTestStartIInv, ChildIInv, EndIInv, SummaryIInv, SaveReportIInv
       DEF Next, Runner, Child

\* Every state the runner reaches is well typed: in particular every file
\* it runs, records or reports passed the existence check of main().
THEOREM TypeCorrect == Spec => []TypeOK
<1>1. IInv => TypeOK
    BY DEF IInv
<1>. QED
    BY <1>1, InitIInv, NextIInv, PTL DEF Spec

-----------------------------------------------------------------------------
(* With USER set, the cleanups leave no server of one file alive while     *)
(* another file runs.                                                      *)

LEMMA NextNoLingering ==
    ASSUME UserSet, IInv, NoLingeringServers, [Next]_vars
    PROVE  NoLingeringServers'
<1>1. stage # "child" => servers = {}
    BY DEF NoLingeringServers
<1>2. CASE servers' = {}
    BY <1>2 DEF NoLingeringServers
<1>3. CASE servers' \subseteq servers /\ UNCHANGED <<stage, pending>>
    BY <1>3 DEF NoLingeringServers
<1>4. CASE ServerUp
    BY <1>4 DEF ServerUp, NoLingeringServers
<1>5. CASE Validate \/ Resolve \/ ListFiles \/ StartRun \/ Summary \/ SaveReport
    <2>1. stage = "idle"
        BY <1>5 DEF Validate, Resolve, ListFiles, StartRun, Summary, SaveReport,
                    IInv, Shape, TypeOK
    <2>2. servers' = servers
        BY <1>5 DEF Validate, Resolve, ListFiles, StartRun, Summary, SaveReport
    <2>. QED
        BY <1>1, <2>1, <2>2, <1>2
<1>6. CASE RunTestStart
    <2>1. CASE Head(pending) \in InRoot
        BY <1>6, <2>1, <1>2 DEF RunTestStart, Cleanup
    <2>2. CASE Head(pending) \notin InRoot
        BY <1>6, <2>2, <1>3 DEF RunTestStart
    <2>. QED
        BY <2>1, <2>2
<1>7. CASE ChildExit \/ ChildHang
    BY <1>7, <1>3 DEF ChildExit, ChildHang
<1>8. CASE RunTestEnd \/ RunTestTimeout
    BY <1>8, <1>2 DEF RunTestEnd, RunTestTimeout, Cleanup
<1>9. CASE UNCHANGED vars
    BY <1>9, <1>3 DEF vars, runVars
<1>. QED
    BY <1>4, <1>5, <1>6, <1>7, <1>8, <1>9 DEF Next, Runner, Child

\* With USER set, every slircd that is alive belongs to the file whose
\* child is running: the TERM/KILL cleanups around each run_test() leave no
\* server of an earlier file behind, however that file ended.
THEOREM ServersCleanedUp == UserSet => (Spec => []NoLingeringServers)
<1> SUFFICES ASSUME UserSet PROVE Spec => []NoLingeringServers
    OBVIOUS
<1>1. Init => NoLingeringServers
    BY DEF Init, NoLingeringServers
<1>2. IInv /\ NoLingeringServers /\ [Next]_vars => NoLingeringServers'
    BY NextNoLingering
<1>. QED
    BY <1>1, <1>2, InitIInv, NextIInv, PTL DEF Spec

-----------------------------------------------------------------------------
(* The runner implements TestSequence under the mapping of SafeRunner.tla. *)

\* A step that leaves the list, the pending files, the stage and whether
\* the list is loaded alone is a stutter of TestSequence.
LEMMA MappedStutter ==
    ASSUME Loaded' = Loaded, UNCHANGED <<stage, pending, files>>
    PROVE  UNCHANGED TS!vars
BY DEF TS!vars

\* Before the list is loaded, the list itself may change unseen.
LEMMA UnloadedStutter ==
    ASSUME ~Loaded, ~Loaded', UNCHANGED <<stage, pending>>
    PROVE  UNCHANGED TS!vars
BY DEF TS!vars, Loaded

\* The file that finishes is the next one of the list.
LEMMA RanGrows ==
    ASSUME TypeOK, Suffix, pending # <<>>
    PROVE  SubSeq(files, 1, Len(files) - Len(pending) + 1)
             = SubSeq(files, 1, Len(files) - Len(pending)) \o <<Head(pending)>>
<1>1. Len(pending) \in Nat \ {0} /\ Len(files) \in Nat
    BY LenProperties, EmptySeq DEF TypeOK
<1>2. Head(pending) = files[Len(files) - Len(pending) + 1]
    BY <1>1 DEF Suffix
<1>3. Len(files) - Len(pending) + 1 \in 1..Len(files)
    BY <1>1 DEF Suffix
<1>. QED
    BY <1>2, <1>3, SubSeqRecursiveSecond DEF TypeOK

LEMMA InitRefines == Init => TS!Init
BY DEF Init, TS!Init, Loaded

LEMMA NextRefines ==
    ASSUME IInv, IInv', [Next]_vars
    PROVE  [TS!Next]_TS!vars
<1>1. CASE Validate
    <2>1. phase = "start" /\ files = <<>>
        BY <1>1 DEF Validate, IInv, Shape
    <2>2. Loaded' = Loaded /\ UNCHANGED <<stage, pending, files>>
        BY <1>1, <2>1 DEF Validate, Exit, Loaded, inputs
    <2>. QED
        BY <2>2, MappedStutter
<1>2. CASE Resolve
    <2>1. phase = "validated" /\ files = <<>>
        BY <1>2 DEF Resolve, IInv, Shape
    <2>2. phase' = "resolved" \/ files' = <<>>
        BY <1>2, <2>1 DEF Resolve, Exit
    <2>3. Loaded' = Loaded /\ UNCHANGED <<stage, pending>>
        BY <1>2, <2>1, <2>2 DEF Resolve, Loaded, inputs
    <2>4. ~Loaded
        BY <2>1 DEF Loaded
    <2>. QED
        BY <2>3, <2>4, UnloadedStutter
<1>3. CASE ListFiles
    <2>1. Loaded' = Loaded /\ UNCHANGED <<stage, pending, files>>
        BY <1>3 DEF ListFiles, Loaded, inputs
    <2>. QED
        BY <2>1, MappedStutter
<1>4. CASE Child
    <2>1. Loaded' = Loaded /\ UNCHANGED <<stage, pending, files>>
        BY <1>4 DEF Child, ServerUp, ChildExit, ChildHang, Loaded, inputs
    <2>. QED
        BY <2>1, MappedStutter
<1>5. CASE Summary \/ SaveReport
    <2>1. phase \in {"running", "summary"} /\ phase' \in {"summary", "exited"}
        BY <1>5 DEF Summary, SaveReport, Exit
    <2>2. UNCHANGED <<discover, stage, pending, files>>
        BY <1>5 DEF Summary, SaveReport, inputs
    <2>3. Loaded' = Loaded
        BY <2>1, <2>2 DEF Loaded
    <2>. QED
        BY <2>2, <2>3, MappedStutter
<1>6. CASE StartRun
    <2>1. CASE files = <<>>
        <3>1. Loaded' = Loaded /\ UNCHANGED <<stage, pending, files>>
            BY <1>6, <2>1 DEF StartRun, Exit, Loaded, inputs
        <3>. QED
            BY <3>1, MappedStutter
    <2>2. CASE files # <<>>
        <3>1. /\ phase = "resolved" /\ ~Loaded /\ Loaded'
              /\ stage = "idle" /\ stage' = "idle" /\ pending' = files
              /\ files' = files /\ pending = <<>>
            BY <1>6, <2>2 DEF StartRun, Loaded, inputs, IInv, Shape
        <3>2. files \in Seq(Files)
            BY SeqMonotonic DEF IInv, TypeOK
        <3>3. SubSeq(files, 1, Len(files) - Len(files)) = <<>>
            BY <3>2, SubSeqEmpty
        <3>4. (IF stage = "child" THEN Tail(pending) ELSE pending)' = files
            BY <3>1
        <3>5. /\ (IF stage = "child" THEN <<Head(pending)>> ELSE <<>>)' = <<>>
              /\ (IF stage = "child" THEN <<Head(pending)>> ELSE <<>>) = <<>>
            BY <3>1
        <3>6. /\ (IF Loaded THEN SubSeq(files, 1, Len(files) - Len(pending)) ELSE <<>>)' = <<>>
              /\ (IF Loaded THEN SubSeq(files, 1, Len(files) - Len(pending)) ELSE <<>>) = <<>>
            BY <3>1, <3>3
        <3>7. TS!Load
            BY <3>1, <3>2, <3>4, <3>5, <3>6, <2>2 DEF TS!Load
        <3>. QED
            BY <3>7 DEF TS!Next
    <2>. QED
        BY <2>1, <2>2
<1>7. CASE RunTestStart
    <2>1. CASE Head(pending) \in InRoot
        <3>1. /\ Loaded /\ Loaded' /\ stage = "idle" /\ stage' = "child"
              /\ pending # <<>> /\ UNCHANGED <<pending, files>>
            BY <1>7, <2>1 DEF RunTestStart, Loaded, inputs, IInv, Shape
        <3>. QED
            BY <3>1 DEF TS!Next, TS!Take
    <2>2. CASE Head(pending) \notin InRoot
        <3>1. Loaded /\ Loaded' /\ UNCHANGED <<stage, pending, files>>
            BY <1>7, <2>2 DEF RunTestStart, Loaded, inputs, IInv, Shape
        <3>. QED
            BY <3>1, MappedStutter
    <2>. QED
        BY <2>1, <2>2
<1>8. CASE RunTestEnd \/ RunTestTimeout
    <2>1. /\ Loaded /\ Loaded' /\ stage = "child" /\ stage' = "idle"
          /\ pending # <<>> /\ pending' = Tail(pending) /\ files' = files
        BY <1>8 DEF RunTestEnd, RunTestTimeout, Loaded, inputs, IInv, Shape
    <2>2. Len(Tail(pending)) = Len(pending) - 1
        BY <2>1, HeadTailProperties DEF IInv, TypeOK
    <2>3. Len(files) - Len(pending') = Len(files) - Len(pending) + 1
        BY <2>1, <2>2, LenProperties DEF IInv, TypeOK
    <2>4. SubSeq(files', 1, Len(files') - Len(pending'))
            = SubSeq(files, 1, Len(files) - Len(pending)) \o <<Head(pending)>>
        BY <2>1, <2>3, RanGrows DEF IInv
    <2>. QED
        BY <2>1, <2>4 DEF TS!Next, TS!Finish
<1>9. CASE UNCHANGED vars
    BY <1>9, MappedStutter DEF vars, inputs, runVars, Loaded
<1>. QED
    BY <1>1, <1>2, <1>3, <1>4, <1>5, <1>6, <1>7, <1>8, <1>9 DEF Next, Runner

\* run_tests() runs the files main() settled on one at a time, in their
\* order, each exactly once, whether its child passes, fails, is skipped,
\* hangs or times out.
THEOREM Refinement == Spec => RunsEachFileOnceInOrder
<1>1. IInv /\ IInv' /\ [Next]_vars => [TS!Next]_TS!vars
    BY NextRefines
<1>. QED
    BY <1>1, InitIInv, NextIInv, InitRefines, PTL DEF Spec, RunsEachFileOnceInOrder, TS!Spec

====

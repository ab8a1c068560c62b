# Verification of the slircd-ng test tooling

This directory holds TLA+ models of the test tooling of slircd-ng:

- the protocol test client in `src/tests/e2e/irc_client.py` (connection,
  expectation engine, session helpers);
- the safe irctest runner `src/scripts/run_irctest_safe.py`;
- the compliance audit `src/scripts/audit_compliance.py`;
- the NickServ registration script `src/register_via_nickserv.py`.

Each model has TLC configurations that check it on small instances. Four
TLAPS proof modules prove, for every value of the constants:

- every safety property the passing runs check;
- a refinement.

Only the liveness properties stay with TLC.

## The system

The harness drives IRC connections to a server under test.

- `IrcMessage` (lines 20–77) parses a protocol line into tags, prefix,
  command and params.
- `IrcClient` (79–383) owns one TCP stream.
  - `connect`, `disconnect`, `send` and `recv` form the **Connection**:
    - `recv` waits for one line with `asyncio.wait_for`;
    - it returns `None` on timeout and at EOF, clearing `_connected` at EOF;
    - it answers a `PING` with a `PONG` before returning it.
  - `recv_all`, `expect`, `expect_numeric` and `expect_any` form the
    **expectation engine**:
    - each computes one absolute deadline;
    - each calls `recv` with the remaining time;
    - `expect*` discard non-matching lines and `continue` on `None`;
    - `recv_all` stops at the first `None`.
  - `register`, `cap_ls`, `cap_req`, `cap_end`, `join`, `part`, `privmsg`,
    `notice`, `quit` and `whois` are the **session helpers**. Each is a
    short scripted exchange built on the engine.
- `MultiClientManager` (385–427) keeps a name → client map for scenarios
  with several users.
- `conftest.py` has pytest fixtures around these clients, plus the server
  process lifecycle.

Every client is used by one asyncio test task. Several clients may run
concurrently against one server, but they share no state except the
manager's map. Within a connection, lines arrive in the order the server
wrote them.

## Modules

| Module | Models | Status |
|---|---|---|
| `IrcClient.tla` | Connection, expectation engine, session helpers, and an environment model of the server | modelled |
| `MC_IrcClient.tla` | TLC instance: the pattern sets given to `expect`/`expect_any` | — |
| `IrcClientProofs.tla` | TLAPS proofs of type correctness and of the fixed deadline | — |
| `IrcClientProtocolProofs.tla` | TLAPS proofs of `RegisteredOnlyAfterWelcome` and `TimeoutOnlyAtDeadline` | — |
| `SafeRunner.tla` | `run_irctest_safe.py`: `main`, `run_tests`, `run_test`, the cleanups, summary and report | modelled |
| `TestSequence.tla` | Abstract specification: a runner runs its list one file at a time, in order, each once | — |
| `MC_SafeRunner.tla` | TLC instance: four files, three existing, two under the root | — |
| `SafeRunnerProofs.tla` | TLAPS proofs: types, cleanup with `USER` set, refinement of `TestSequence` | — |
| `Audit.tla` | `audit_compliance.py`: build, per-file runner loop, report | modelled |
| `MC_Audit.tla` | TLC instance: three test files | — |
| `AuditProofs.tla` | TLAPS proof that a written report is complete | — |
| `RegisterScript.tla` | `register_via_nickserv.py`, with the IRC server and NickServ as environment | modelled |
| `MC_RegisterScript.tla` | TLC instance (no constants) | — |

The following are not modelled yet. They are planned for the next modules,
and `PROJECT.json` lists them:

- `IrcMessage.parse`, as a bounded check of the parser over short lines;
- `MultiClientManager`, as a composition of sessions with the name map;
- the fixtures.

The script models are described in their own sections below
(`SafeRunner.tla`, `Audit.tla`, `RegisterScript.tla`).

### IrcClient.tla: state

| Variable | Code |
|---|---|
| `writer` | `self._writer`: `"none"` before `connect`, `"open"`, `"closed"` after `disconnect` (which does not reset it to `None`) |
| `connected`, `registered` | `_connected`, `_registered` |
| `capsAvail`, `capsEnabled` | `_caps_available`, `_caps_enabled` |
| `op`, `pat` | the helper the session's task is awaiting, and its argument (a command set, a channel, or the requested capabilities) |
| `left` | `deadline - time.time()` of the pending `recv`, in ticks |
| `spent` | time since the helper call began |
| `res` | how the last call ended: returned a value, raised `TimeoutError` (`"timeout"`), or raised `ConnectionError` (`"connerr"`) |
| `inq`, `outq` | the two directions of the TCP stream, as sequences of abstract lines |
| `eof` | the server has closed the stream |
| `srvReg`, `srvCaps`, `noise` | the server's view: registered, capabilities ACKed, unsolicited lines sent |

A line carries only what the helpers look at:

- the command;
- for `CAP`, the subcommand `params[1]`, the continuation flag and the
  capability list;
- for `JOIN`, the channel;
- for `PING`, the token.

### IrcClient.tla: actions

**Calls of the test task** (`Call(s)`, at most `MaxCalls` per session):

- `Connect` (lines 106–117), `Disconnect` (119–128) and `Quit` (353–359;
  the failed send is swallowed);
- `Send` (130–144: raw `PRIVMSG` and `CAP END`);
- `Expect` (191–270);
- `RecvAll` (174–189);
- `Register` (272–288), `CapLs` (290–311), `CapReq` (313–323),
  `Join` (329–336) and `Whois` (361–374).

A helper either writes its lines and begins waiting (`Begin` sets
`left := timeout` and `spent := 0`), or its first `send()` raises because
there is no writer (`Fail`).

**Steps of a waiting task** (`Step(s)`):

- `RecvLine` (146–172) takes the next line. It writes the `PONG` for a
  `PING`, then runs the helper's handling of the line. The handlers are:
  - `ExpectGot`: match on the command, or `Loop` (check the deadline);
  - `RegisterGot`: only `001` sets `_registered`; a `433` is discarded;
  - `JoinGot`: the raw `JOIN.*<chan>` match;
  - `CapReqGot`: the first CAP line decides; on ACK the *requested* caps
    are added;
  - `CapLsGot`: the first LS line ends the loop (line 307). A non-LS CAP
    line starts a new `expect` with a fresh 5 s deadline;
  - `WhoisGot`: `318`/`401` end it. Every other line is followed by a new
    `recv(timeout=5)`;
  - `RecvAllGot`.
- `RecvPingClosed`: a `PING` read after `disconnect()`. The `PONG`'s
  `drain()` raises out of the helper.
- `RecvNone` (151–163, 223–224): `recv` returned `None`, either because
  the timer ran out or because the stream is at EOF (which clears
  `_connected`).
  - `whois` and `recv_all` stop.
  - The `expect` loops `continue`. They raise `TimeoutError` only when
    `left = 0`.

**Time:** `Tick` (the `wait_for` timeout, 153–159) decrements `left` and
increments `spent` of every waiting task. It is enabled only when no
waiting timer is at 0: the event loop fires an expired timer before time
moves on.

**Server:** the server is modelled from the spec, because it is not part
of this code.

- `SrvHandle` answers the client's lines in order:
  - `NICK`/`USER` gets `001` or `433`;
  - `CAP LS` gets one line, or two lines with a continuation marker;
  - `CAP REQ` gets ACK or NAK;
  - `JOIN` gets the echo;
  - `WHOIS` gets `311 318` or `401`;
  - `QUIT` gets the stream closed.
- `SrvNoise` sends up to `MaxNoise` unsolicited lines: a PING, a PRIVMSG,
  or another user's JOIN.
- `SrvClose` drops the link.

The server may answer arbitrarily late, because Ticks interleave freely
with its steps.

## Runs

All runs use one session and the constants below:

| Constant | Value |
|---|---|
| `Caps` | `{c1,c2,c3}` |
| `ServerCaps` | `{c1,c2}` |
| `Chans` | `{ch1}` |
| `Tokens` | `{t1}` |
| `Timeout`, `HelperTimeout` | 2 |
| `DrainWindow` | 1 |
| `MaxCalls` | 4 |
| `MaxNoise` | 1 |

| Run | cfg | Expect | What it shows |
|---|---|---|---|
| core | `IrcClient_core.cfg` | pass | The properties listed below hold. |
| cap_ls_multiline | `IrcClient_CapLsComplete.cfg` | violation | `CapLsComplete`: a two-line `CAP LS` reply leaves `_caps_available` with the first line only. |
| cap_req_late_ack | `IrcClient_CapsEnabledAcked.cfg` | violation | `CapsEnabledAcked`: a late ACK is credited to the next `cap_req`, which then enables a capability the server NAKed. |
| helper_deadline_reset | `IrcClient_HelperWithinDeadline.cfg` | violation | `HelperWithinDeadline`: `whois` (and `cap_ls`) restart their timeout per line and outlive it. |
| cap_req_raises | `IrcClient_CapReqNeverRaises.cfg` | violation | `CapReqNeverRaises`: `cap_req` with no answer raises `TimeoutError`, where the spec says it returns failure. |

The core run checks these properties:

- `TypeOK`;
- `WaitWithinDeadline`: an expect-based call or `recv_all` never waits
  past its timeout;
- `RegisteredOnlyAfterWelcome`;
- `TimeoutOnlyAtDeadline`, an action property: `TimeoutError` is raised
  only once the whole timeout has elapsed, never early at EOF;
- `CallsReturn`, a liveness property: a call of `expect`, `register`,
  `join`, `cap_req` or `recv_all` always returns or raises.

`CallsReturn` leaves out `whois` and `cap_ls`. They restart their timeout
after every line, so under steady traffic they can wait forever. With
`MaxNoise = 1` the model's traffic is finite, so including them would
hold only because of that bound. For the other helpers, the fixed
deadline bounds the wait whatever the server sends. The restarts of
`whois` and `cap_ls` are what the `helper_deadline_reset` run shows.

The core run reaches about 1.47 million distinct states in about a minute.

**Why the bounds are enough.** Two ticks per timeout are enough for a line
to arrive before the deadline, exactly at it, or after it. Four calls
allow a call that times out followed by a call that meets its late answer
(the `cap_req` finding). They also allow connect, disconnect, a call after
disconnect, and registration followed by CAP negotiation. One noise line
is enough to put a PING or a foreign JOIN in front of an expected answer.
One session is enough because sessions share no state; the manager that
joins them is not modelled yet.

**Mutants.** Each property of the core run is broken by a plausible bug
in a mapped definition:

| Mutant | Bug | Breaks |
|---|---|---|
| `LoopNoDeadline` | no deadline check | `CallsReturn` |
| `ExpectGotFreshDeadline` | deadline recomputed per line | `WaitWithinDeadline` |
| `RecvNoneBreak` | `break` instead of `continue` on `None` | `TimeoutOnlyAtDeadline` |
| `RegisterGotAny` | 433 accepted | `RegisteredOnlyAfterWelcome` |
| `TickLate` | timers not fired first | `TypeOK` |

## Fairness

`FairSpec` assumes weak fairness of each session's `Step` and of `Tick`.
The asyncio event loop resumes a task whose awaited `readline` has data
or whose `wait_for` timer expired, and time advances. Nothing is assumed
of the server or of the test's own calls: a test may stop calling, and a
server may never answer. For that reason the runs set
`CHECK_DEADLOCK FALSE`, since a scenario ends when its calls are used up.

## Proofs (IrcClientProofs.tla)

The proofs assume the following, all from `IrcClient.tla`:

- `TimeoutAssumption`: the timeouts are positive naturals;
- `CapsAssumption`: `ServerCaps ⊆ Caps`;
- `BoundsAssumption`;
- `ExpectSetsAssumption`: the expect patterns are server commands.

**`TypeCorrect`: `Spec => []TypeOK`.**

- The inductive invariant is `TypeInv = TypeOK /\ CapReqPat`.
  - `CapReqPat` says a running `cap_req`'s argument is a set of
    capabilities.
  - It is needed because `CapReqGot` adds that argument to
    `_caps_enabled`.
- The step is split per component: `CallType`, `StepType` (through
  `HandlerType`, one case per helper), `ServerType` (through `ReplyType`)
  and `TickType`.
- These rest on the lemmas `WriteType`, `DeliverType`, `BeginType`,
  `FinishType`, `LoopType`, `SrvMsgFields` and `CliMsgFields`.

**`DeadlineRespected`: `Spec => []WaitWithinDeadline`.**

- `WaitWithinDeadline` is not inductive. A `Tick` from `spent = timeout`
  with `left > 0` would break it, although no reachable state has that
  shape.
- The strengthening is `DeadlineFixed`: for `expect`, `register`, `join`,
  `cap_req` and `recv_all`, `spent + left = timeout`.
  - `Begin` establishes it.
  - `Tick` moves both sides by one.
  - The handlers of these helpers never touch `left`.
  - Only `cap_ls` and `whois` reset `left`, and they are not in the set.
- `DeadlineFixed` together with `TypeInv` is inductive (`NextDInv`).
  Because `left ≥ 0`, it implies the bound.
- TLC checked `DeadlineFixed` as an invariant of the core run before it
  was proved. It is defined in `IrcClientProofs` as a proof lemma, not a
  run property. Every bug that breaks it also breaks `WaitWithinDeadline`.

### IrcClientProtocolProofs.tla

This module extends `IrcClientProofs` and proves the rest of the core
run's safety properties, under the same assumptions.

**`RegisteredOnlyAfterWelcomeHolds`**: `Spec => []RegisteredOnlyAfterWelcome`.

- The property is not inductive by itself. A 001 could already sit
  unread in the stream, and reading it sets `_registered`.
- The strengthening is `WelcomeSent`: if a session holds `_registered`,
  or a 001 is still in its input stream (`Has001`), then the server
  registered it.
- `WelcomeFrame` reduces each step to three facts:
  - the server never forgets a registration;
  - `_registered` is set only when a 001 is at the head of the stream;
  - a 001 enters the stream only as the server registers.
- The step lemmas are:
  - `CallWelcome`: calls touch neither the streams nor the server, and
    disconnect only clears the flag;
  - `StepWelcome`: `RegisterGot` sets the flag only on a 001;
  - `ServerWelcome`, with `DeliverWelcome`: every other line the server
    or the noise sends is not a 001.
- These rest on the sequence lemmas `Has001Tail`, `Has001Head` and
  `Has001Concat`, which use `HeadTailProperties` and `ConcatProperties`.

**`TimeoutOnlyAtDeadlineHolds`**: `Spec => TimeoutOnlyAtDeadline`. This
is an action property. The invariant is `TInv`, which adds two
conjuncts to `TypeInv /\ DeadlineFixed`:

- `OpenOutcome`: while a helper runs, its outcome is `"none"`, since only
  `Finish` sets it;
- `DeadlineAtLeast`: for `cap_ls` and `whois`, `spent + left ≥ timeout`,
  because they only ever restart `left` at the full timeout.

The argument has these steps:

- `StepCases` and `CallCases` sum up what a step and a call do to the
  task's variables.
- From them, `TimeoutOnlyFromLoop` shows that an outcome becomes
  `"timeout"` only through the deadline check with `left = 0`.
- `DeadlineFixed`, or `DeadlineAtLeast` for `cap_ls`, then gives
  `spent ≥ timeout`.

TLC checked `WelcomeSent`, `OpenOutcome` and `DeadlineAtLeast` as
invariants of the core instance (1.47 million states) before they were
proved.

**Only model-checked:**

- `CallsReturn`: liveness under fairness is out of TLAPS's reach here;
- the violation runs.

## The scripts

The three scripts are sequential programs. Each model has a `phase` (or
`pc`) variable for the position in the program, one action per step, and
the processes it starts or talks to as an environment that may do anything
the real one can.

### SafeRunner.tla (run_irctest_safe.py)

`main()` validates the setup, resolves the `TEST_FILE` arguments (or
discovers the test files), and then either lists them (`--discover`) or
runs them. `run_tests()` calls `run_test()` on each file. `run_test()` does
these steps:

1. it computes the path relative to `IRCTEST_ROOT`;
2. it kills lingering servers;
3. it runs `bash irctest_safe.sh <file>` under a timeout, in a `try` whose
   `finally` kills lingering servers again.

After the loop, the runner prints the summary, saves the report with
`--output`, and returns the exit code.

| Variable | Code |
|---|---|
| `args`, `discover`, `output`, `setupOk` | the command line, and whether `_validate_setup` finds everything (inputs) |
| `phase` | position in `main()`: start, validated, resolved, running, summary, exited, or crashed (an uncaught exception) |
| `files`, `pending` | the list `main()` settled on; the files `run_tests()` has not finished yet |
| `stage`, `child` | whether a `subprocess.run()` is in progress, and what the child is doing (running, hung, exited with 0, 5 or 1) |
| `servers` | the test files whose slircd is alive |
| `passed`, `failed`, `skipped`, `errors`, `total` | the result lists, the error keys, and the summary's Total |
| `written`, `report`, `exitCode` | the report file, the names it lists, and the exit status |

The constant `Files` is every path. `Existing` is the paths that exist,
`InRoot` the existing paths under `IRCTEST_ROOT`, and `DiscoverList` what
`discover_tests()` returns. `UserSet` says whether `USER` is in the
environment.

The actions, with their lines in `run_irctest_safe.py`:

- `Validate` (61–77);
- `Resolve` (288–310);
- `ListFiles` (312–318);
- `StartRun` (320–325);
- `RunTestStart` (91–121);
- `ServerUp`, `ChildExit` and `ChildHang`, which are the child's steps
  (122–130);
- `RunTestTimeout` (131–134);
- `RunTestEnd` (136–160);
- `Summary` (205–238);
- `SaveReport` with `Exit` (240–262, 332–333).

`Record` is the result filing of `run_tests()` (190–203). `Cleanup` is
`_cleanup_lingering_slircd()` (162–180). Without `USER` it kills nothing,
because `pkill -u ""` stops at a usage error.

**The abstract specification `TestSequence.tla`.** A runner loads a
non-empty list once (`Load`). It then takes the next file only when none
is running (`Take`), and finishes the running file whatever its outcome
(`Finish`).

`SafeRunner.tla` maps onto it as follows:

- `loaded` is `Loaded`: not `--discover`, a non-empty list, and the loop
  has begun;
- `cur` is the head of `pending` while a child runs;
- `todo` is the rest of `pending`;
- `ran` is the prefix of `files` before `pending`.

`RunsEachFileOnceInOrder` is `TS!Spec`. The runner steps map as follows:

- `StartRun` is a `Load`;
- `RunTestStart` is a `Take`;
- `RunTestEnd` and `RunTestTimeout` are a `Finish`;
- every other step is a stutter.

### Audit.tla (audit_compliance.py)

The audit builds the server (`Build`, 23–25). For each test file it runs
`run_irctest.sh` with no timeout (`StartRunner`, 27–46). The runner script
exits or hangs (`RunnerExit`, `RunnerHang`, 40–46). The audit then collects
a `Result` row: success, and details that are `"lines"` for a failure with
output or `"seelogs"` otherwise (`Collect`, 48–71). After the last file
(`EndLoop`, 27), it writes the report (`WriteReport`, 73–93): a failure to
write is an exception (no `docs/` directory), and otherwise the report has
the totals computed with `NumPassed` (78). `TestFiles` is the sequence of
test files.

### RegisterScript.tla (register_via_nickserv.py)

The script does these steps:

1. it connects (`Connect`, 29–32);
2. it sends NICK/USER (`SendRegistration`, 34–37, through `SendLine`,
   7–9);
3. it reads (`Read1`, `recv_lines`, 11–27);
4. it sends `PRIVMSG NickServ :REGISTER` (`SendRegister`, 40–42);
5. it reads again and prints SUCCESS when a line contains "registered"
   (`Read2`, 43–51).

A line is abstracted to its kind (`Kinds`). The kinds whose text contains
"registered" are `MentionsRegistered`: 451 `You have not registered`,
NickServ's confirmation, and NickServ's "already registered". The server
and NickServ are not in this repository, so they are modelled from the
protocol and marked `spec_modelled`:

- `SrvRegistration` answers NICK/USER with 001, or with 433 when the nick
  is taken;
- `SrvNickServ` answers REGISTER with 451 before registration, "already
  registered" for an existing account, or the confirmation (setting
  `created`);
- `SrvClose` drops the link.

A read takes what has arrived. A later answer is left unread.

### Runs of the scripts

| Run | cfg | Expect | What it shows |
|---|---|---|---|
| safe_core | `SafeRunner_core.cfg` | pass | With `USER` set, over every argument list of up to two files (under the root, outside it, missing) and every child behaviour, the properties below hold. |
| safe_user_unset | `SafeRunner_NoLingeringServers.cfg` | violation | Without `USER`, the first file's slircd is alive while the second file's test runs. |
| safe_error_results | `SafeRunner_ResultsAccountForAll.cfg` | violation | A run whose only test timed out exits 0, and its `--output` report omits that test. |
| safe_outside_root | `SafeRunner_ReachesExitCode.cfg` | violation | An existing file outside `IRCTEST_ROOT` is accepted, then `relative_to()` crashes `run_test()` outside its `try`. |
| audit_core | `Audit_core.cfg` | pass | `ReportComplete`: a written report has one row per test file, in order, with counts that add up and details for each failure. |
| audit_hang | `Audit_AuditTerminates.cfg` | violation | `AuditTerminates`: a runner script that hangs blocks the audit forever, because `subprocess.run()` has no timeout. |
| nickserv_false_success | `RegisterScript_SuccessOnlyIfRegistered.cfg` | violation | `SuccessOnlyIfRegistered`: SUCCESS is printed for an existing account, and for a 451 after a 433. |

The safe_core run checks these properties:

- `TypeOK`: every file the runner holds has passed the existence check;
- `NoLingeringServers`: every live slircd belongs to the file whose child
  is running;
- `Terminates`: the runner ends, with an exit code or a traceback;
- `RunsEachFileOnceInOrder`: the refinement of `TestSequence`.

The mutants that break them:

| Mutant | Bug | Breaks |
|---|---|---|
| `ResolveNoExistCheck` | arguments not checked for existence | `TypeOK` |
| `RunTestTimeoutNoFinally` | cleanup after the `try` instead of in `finally` | `NoLingeringServers` |
| `RunTestNoTimeout` | `subprocess.run()` without `timeout=` | `Terminates` |
| `RunTestTimeoutRetry` | a timed-out file is retried | `RunsEachFileOnceInOrder` |
| `EndLoopEarly` | the loop ends one file early | `ReportComplete` |

**Bounds.** The safe runner uses four paths:

- `fa` and `fb` are under the root, and they are the discovered list;
- `fc` exists outside the root;
- `fd` does not exist.

Argument lists have up to two paths. Two files are the fewest for a
server of one file to outlive it into the next. Two files also make a
retry or a reordering visible to the refinement. The paths cover every
branch of `Resolve` and `RunTestStart`. The child may pass, skip, fail,
hang or start a server, in any order. The audit uses three test files, so
the loop has a first, a middle and a last iteration. The NickServ model
has no constants: one connection, and the three inputs (a listening
server, a taken nick, an existing account) in every combination.

**Fairness.**

- `SafeRunner`: `FairSpec` is weak fairness of `Runner`, the
  single-threaded script. It is never blocked except on `subprocess.run()`,
  and the timeout bounds that wait: `RunTestTimeout` is enabled whenever a
  child is running or hung. Nothing is assumed of the child.
- `Audit`: `FairSpec` is weak fairness of `Script`. Its runner child may
  hang, and since nothing times it out, `AuditTerminates` fails.
- `RegisterScript`: no run needs fairness, because its only property is a
  safety property.

### Proofs about the scripts

`AuditProofs.tla` proves **`ReportCorrect`**:
`Spec => []ReportComplete`, for every list of test files. The inductive
invariant `IInv` adds to `TypeOK`:

- `Progress`: one result per file before `next`;
- `RowsMatch`: row `k` is file `k`, and a failed row has details;
- `LoopDone`: past the loop, every file has been collected;
- `ChildInLoop`: the runner runs only inside the loop;
- `Written`: a written report is the results, counted.

`ReportComplete` alone is not inductive: `WriteReport` copies `results`,
so it needs `Progress`, `RowsMatch` and `LoopDone` to know that `results`
has one row per file. The lemma `NumPassedNat` (through `FS_Interval` and
`FS_Subset`) shows that the passed count is a natural number.

`SafeRunnerProofs.tla` proves three theorems for all `Files`, `Existing`,
`InRoot`, `DiscoverList` and `ArgLists` satisfying `FilesAssumption`. The
inductive invariant `IInv` is `TypeOK /\ Shape /\ Suffix`:

- `Shape` ties the phase to the rest of the state: a child runs only in
  the loop with a file pending; before resolution the list is empty; in
  the loop the list is loaded; and an unloaded runner has nothing pending.
- `Suffix` says `pending` is a suffix of `files`.

`Shape` is needed because `Head(pending)` must be an existing file.
`Suffix` is needed for the refinement. There is one lemma per action
(`ValidateIInv`, ..., `SaveReportIInv`), plus lemmas about the operators:

- `SeqOverRange`;
- `RecordType`;
- `CleanupSubset`;
- `SuffixTail`, using `HeadTailProperties`.

The three theorems:

- **`TypeCorrect`**: `Spec => []TypeOK`.
- **`ServersCleanedUp`**: `UserSet => (Spec => []NoLingeringServers)`,
  from `IInv` and `NoLingeringServers` (lemma `NextNoLingering`). With
  `USER` set, each cleanup empties `servers`. Only the running child's
  `ServerUp` adds one, the head of `pending`. A phase other than the loop
  has no child, so no server.
- **`Refinement`**: `Spec => RunsEachFileOnceInOrder`:
  - `InitRefines` shows the initial states map to initial states;
  - `NextRefines` shows every step under `IInv` maps to a step of
    `TestSequence` or a stutter;
  - `RanGrows` (from `Suffix` and `SubSeqRecursiveSecond`) shows that a
    finishing file extends `ran` by exactly the head of `pending`;
  - `UnloadedStutter` covers `Resolve`, which changes the list before it
    is loaded.

**Only model-checked:**

- `Terminates` and `AuditTerminates` (liveness);
- the violation runs.

## Not modelled

- **Text-level matching.** Line text is abstracted, so the model does not
  cover:
  - `expect_any`'s extra match on the raw line;
  - the prefix-insensitivity of `join`'s regex;
  - nick generation from the clock.
- **Backpressure.** `drain()` and `wait_closed()` have no timeout, but the
  model's streams are unbounded.
- **`timeout or self.timeout`.** It turns an explicit `0` into the
  default; timeouts in the model are positive.
- **Server lifecycle.** Process supervision, configuration generation and
  the irctest runner are out of scope.
- **Script details.**
  - `pkill`'s own 1 s/2 s timeouts: `pkill` is assumed to finish.
  - A pytest orphaned when the timeout kills bash: `irctest_safe.sh` is
    not in the repository, so the model's child stops with bash.
  - Results keyed by `test_file.name`: error messages are not modelled,
    so two files with one name cannot be told apart.
  - Printing and timing.
- **Other scripts.**
  - `load_test.py`, the bouncer and NFC scripts: one-shot socket or load
    generators with no property beyond "it ran".
  - The irctest controller: it is a plugin of the external irctest
    framework.
- **NickServ timing.** A NickServ reply that arrives after the script's
  last read is reachable in the model. It prints "Check output above",
  which claims nothing.

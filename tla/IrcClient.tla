----------------------------- MODULE IrcClient -----------------------------
(***************************************************************************)
(* The e2e test client of slircd-ng (tests/e2e/irc_client.py, IrcClient):  *)
(* one Connection per session, the expectation engine (recv, recv_all,     *)
(* expect, expect_any, expect_numeric) and the session helpers (register,  *)
(* cap_ls, cap_req, cap_end, join, whois, quit), run by one test task per  *)
(* session against a server that answers, injects unrelated traffic and    *)
(* may close the stream.                                                   *)
(*                                                                         *)
(* Time is a timer per waiting session: left[s] is what remains of the     *)
(* timeout of the recv the session is blocked in (deadline - time.time()), *)
(* spent[s] is the time since the current helper call began.  Data is      *)
(* abstracted to the fields the helpers inspect: a command, the CAP        *)
(* subcommand and capability list, a JOIN channel, a PING token.           *)
(***************************************************************************)
EXTENDS Naturals, Sequences

CONSTANTS
    Sessions,       \* the IrcClient objects of a scenario
    Caps,           \* capability names a test may request
    ServerCaps,     \* the capabilities the server advertises and ACKs
    Chans,          \* channel names
    Tokens,         \* PING tokens
    Timeout,        \* IrcClient.timeout: default of recv, expect, join, register
    HelperTimeout,  \* the literal timeout=5 of cap_ls, cap_req and whois
    DrainWindow,    \* the recv_all window used by the tests (0.5 s)
    ExpectSets,     \* the pattern lists tests pass to expect / expect_any
    MaxCalls,       \* bound: helper calls per session
    MaxNoise        \* bound: unsolicited server lines per session

ASSUME TimeoutAssumption ==
    /\ Timeout \in Nat \ {0}
    /\ HelperTimeout \in Nat \ {0}
    /\ DrainWindow \in Nat \ {0}
ASSUME CapsAssumption == ServerCaps \subseteq Caps
ASSUME BoundsAssumption == MaxCalls \in Nat /\ MaxNoise \in Nat

VARIABLES
    writer,       \* self._writer: "none" before connect, "open", "closed" by disconnect
    connected,    \* self._connected
    registered,   \* self._registered
    capsAvail,    \* self._caps_available
    capsEnabled,  \* self._caps_enabled
    op,           \* the helper the session's task is running, "idle" between calls
    pat,          \* its argument: command set, channel or requested capabilities
    left,         \* time left before the pending recv times out
    spent,        \* time since the current call began
    res,          \* outcome of the last call
    calls,        \* helper calls made so far
    inq,          \* server -> client stream: lines not yet read
    outq,         \* client -> server stream: lines not yet handled by the server
    eof,          \* the server has closed the stream
    srvReg,       \* the server has registered the session (sent 001)
    srvCaps,      \* capabilities the server has ACKed for the session
    noise         \* unsolicited lines the server has sent

clientVars == <<writer, connected, registered, capsAvail, capsEnabled>>
taskVars == <<op, pat, left, spent, res, calls>>
netVars == <<inq, outq, eof>>
srvVars == <<srvReg, srvCaps, noise>>
vars == <<clientVars, taskVars, netVars, srvVars>>

-----------------------------------------------------------------------------
(* Lines.  A server line carries what IrcMessage.parse extracts and the    *)
(* helpers look at: the command, for CAP the subcommand params[1], the     *)
(* continuation marker "*" and the capability list params[-1].            *)

PingMsg(t) == [cmd |-> "PING", tok |-> t]
CapMsg(sub, more, cs) == [cmd |-> "CAP", sub |-> sub, more |-> more, caps |-> cs]
JoinMsg(c, own) == [cmd |-> "JOIN", chan |-> c, own |-> own]
Plain(c) == [cmd |-> c]

PlainCmds == {"001", "433", "311", "318", "401", "PRIVMSG"}
SrvMsg ==
    [cmd : {"PING"}, tok : Tokens]
    \cup [cmd : {"CAP"}, sub : {"LS", "ACK", "NAK"}, more : BOOLEAN, caps : SUBSET Caps]
    \cup [cmd : {"JOIN"}, chan : Chans, own : BOOLEAN]
    \cup [cmd : PlainCmds]
SrvCmds == PlainCmds \cup {"PING", "CAP", "JOIN"}

\* expect() is given command names the server sends.
ASSUME ExpectSetsAssumption == ExpectSets \subseteq SUBSET SrvCmds

CliMsg ==
    [cmd : {"NICKUSER", "CAPLS", "CAPEND", "WHOIS", "QUIT", "PRIVMSG"}]
    \cup [cmd : {"CAPREQ"}, caps : SUBSET Caps]
    \cup [cmd : {"JOIN"}, chan : Chans]
    \cup [cmd : {"PONG"}, tok : Tokens]

\* Raw lines a test sends with send(): a PRIVMSG, or CAP END (cap_end).
RawSends == {Plain("PRIVMSG"), Plain("CAPEND")}

Ops == {"expect", "register", "capls", "capreq", "join", "whois", "recvall"}
Results == {"none", "ok", "true", "false", "timeout", "connerr"}

\* The timeout each helper's deadline is computed from.
TimeoutOf(o) ==
    IF o \in {"capls", "capreq", "whois"} THEN HelperTimeout
    ELSE IF o = "recvall" THEN DrainWindow ELSE Timeout

TypeOK ==
    /\ writer \in [Sessions -> {"none", "open", "closed"}]
    /\ connected \in [Sessions -> BOOLEAN]
    /\ registered \in [Sessions -> BOOLEAN]
    /\ capsAvail \in [Sessions -> SUBSET Caps]
    /\ capsEnabled \in [Sessions -> SUBSET Caps]
    /\ op \in [Sessions -> Ops \cup {"idle"}]
    /\ pat \in [Sessions -> (SUBSET SrvCmds) \cup Chans \cup (SUBSET Caps)]
    /\ left \in [Sessions -> Nat]
    /\ spent \in [Sessions -> Nat]
    /\ res \in [Sessions -> Results]
    /\ calls \in [Sessions -> 0..MaxCalls]
    /\ inq \in [Sessions -> Seq(SrvMsg)]
    /\ outq \in [Sessions -> Seq(CliMsg)]
    /\ eof \in [Sessions -> BOOLEAN]
    /\ srvReg \in [Sessions -> BOOLEAN]
    /\ srvCaps \in [Sessions -> SUBSET Caps]
    /\ noise \in [Sessions -> 0..MaxNoise]

Init ==
    /\ writer = [s \in Sessions |-> "none"]
    /\ connected = [s \in Sessions |-> FALSE]
    /\ registered = [s \in Sessions |-> FALSE]
    /\ capsAvail = [s \in Sessions |-> {}]
    /\ capsEnabled = [s \in Sessions |-> {}]
    /\ op = [s \in Sessions |-> "idle"]
    /\ pat = [s \in Sessions |-> {}]
    /\ left = [s \in Sessions |-> 0]
    /\ spent = [s \in Sessions |-> 0]
    /\ res = [s \in Sessions |-> "none"]
    /\ calls = [s \in Sessions |-> 0]
    /\ inq = [s \in Sessions |-> <<>>]
    /\ outq = [s \in Sessions |-> <<>>]
    /\ eof = [s \in Sessions |-> FALSE]
    /\ srvReg = [s \in Sessions |-> FALSE]
    /\ srvCaps = [s \in Sessions |-> {}]
    /\ noise = [s \in Sessions |-> 0]

-----------------------------------------------------------------------------
(* Writing.  send() raises ConnectionError when there is no writer; after  *)
(* disconnect() closed it, drain() raises ConnectionResetError.  A line    *)
(* written after the server closed the stream is lost.                     *)

Write(s, lines) ==
    outq' = [outq EXCEPT ![s] = IF eof[s] THEN @ ELSE @ \o lines]

\* A test task starts helper o with argument p; its deadline is now + t.
Begin(s, o, p, t) ==
    /\ op' = [op EXCEPT ![s] = o]
    /\ pat' = [pat EXCEPT ![s] = p]
    /\ left' = [left EXCEPT ![s] = t]
    /\ spent' = [spent EXCEPT ![s] = 0]
    /\ res' = [res EXCEPT ![s] = "none"]
    /\ calls' = [calls EXCEPT ![s] = @ + 1]

\* The helper returns (or raises) with outcome r.
Finish(s, r) ==
    /\ op' = [op EXCEPT ![s] = "idle"]
    /\ res' = [res EXCEPT ![s] = r]

\* A call whose first send() (or recv()) raises ConnectionError.
Fail(s) ==
    /\ res' = [res EXCEPT ![s] = "connerr"]
    /\ calls' = [calls EXCEPT ![s] = @ + 1]
    /\ UNCHANGED <<clientVars, op, pat, left, spent, netVars, srvVars>>

CanCall(s) == op[s] = "idle" /\ calls[s] < MaxCalls

\* connect(): open_connection succeeds, or times out / is refused.
Connect(s) ==
    /\ CanCall(s)
    /\ writer[s] = "none"
    /\ \/ /\ writer' = [writer EXCEPT ![s] = "open"]
          /\ connected' = [connected EXCEPT ![s] = TRUE]
          /\ res' = [res EXCEPT ![s] = "ok"]
          /\ calls' = [calls EXCEPT ![s] = @ + 1]
          /\ UNCHANGED <<registered, capsAvail, capsEnabled, op, pat, left,
                         spent, netVars, srvVars>>
       \/ Fail(s)

\* send(): a raw line written by the test (send_many is repeated send).
Send(s, m) ==
    /\ CanCall(s)
    /\ \/ /\ writer[s] = "open"
          /\ Write(s, <<m>>)
          /\ res' = [res EXCEPT ![s] = "ok"]
          /\ calls' = [calls EXCEPT ![s] = @ + 1]
          /\ UNCHANGED <<clientVars, op, pat, left, spent, inq, eof, srvVars>>
       \/ /\ writer[s] # "open"
          /\ Fail(s)

\* A helper that first writes `lines` and then waits in a recv loop.
\* With no open writer its first send() raises.
StartHelper(s, lines, o, p) ==
    /\ CanCall(s)
    /\ \/ /\ writer[s] = "open"
          /\ Write(s, lines)
          /\ Begin(s, o, p, TimeoutOf(o))
          /\ UNCHANGED <<clientVars, inq, eof, srvVars>>
       \/ /\ writer[s] # "open"
          /\ Fail(s)

\* A helper that only reads: recv() raises when there is no reader.
StartReader(s, o, p) ==
    /\ CanCall(s)
    /\ \/ /\ writer[s] # "none"
          /\ Begin(s, o, p, TimeoutOf(o))
          /\ UNCHANGED <<clientVars, netVars, srvVars>>
       \/ /\ writer[s] = "none"
          /\ Fail(s)

\* expect(pattern) / expect_numeric(n) / expect_any(patterns), matched on
\* the command.
Expect(s, P) == StartReader(s, "expect", P)

\* recv_all(timeout): drain what arrives within the window.
RecvAll(s) == StartReader(s, "recvall", {})

\* register(): NICK and USER, then expect_numeric("001").
Register(s) == StartHelper(s, <<Plain("NICKUSER")>>, "register", {"001"})

\* cap_ls(): CAP LS 302, then expect("CAP", timeout=5) in a loop.
CapLs(s) == StartHelper(s, <<Plain("CAPLS")>>, "capls", {"CAP"})

\* cap_req(*caps): CAP REQ, then one expect("CAP", timeout=5).
CapReq(s, cs) ==
    StartHelper(s, <<[cmd |-> "CAPREQ", caps |-> cs]>>, "capreq", cs)

\* join(channel): JOIN, then expect("JOIN.*<channel>", field="raw").
Join(s, c) == StartHelper(s, <<[cmd |-> "JOIN", chan |-> c]>>, "join", c)

\* whois(nick): WHOIS, then recv(timeout=5) until 318/401 or None.
Whois(s) == StartHelper(s, <<Plain("WHOIS")>>, "whois", {})

\* disconnect(): close the writer if there is one (errors swallowed).
CloseClient(s) ==
    /\ writer' = [writer EXCEPT ![s] = IF @ = "none" THEN "none" ELSE "closed"]
    /\ connected' = [connected EXCEPT ![s] = FALSE]
    /\ registered' = [registered EXCEPT ![s] = FALSE]

Disconnect(s) ==
    /\ CanCall(s)
    /\ CloseClient(s)
    /\ res' = [res EXCEPT ![s] = "ok"]
    /\ calls' = [calls EXCEPT ![s] = @ + 1]
    /\ UNCHANGED <<capsAvail, capsEnabled, op, pat, left, spent, netVars, srvVars>>

\* quit(): QUIT (a failing send is swallowed), then disconnect().
Quit(s) ==
    /\ CanCall(s)
    /\ IF writer[s] = "open" THEN Write(s, <<Plain("QUIT")>>)
                             ELSE UNCHANGED outq
    /\ CloseClient(s)
    /\ res' = [res EXCEPT ![s] = "ok"]
    /\ calls' = [calls EXCEPT ![s] = @ + 1]
    /\ UNCHANGED <<capsAvail, capsEnabled, op, pat, left, spent, inq, eof, srvVars>>

-----------------------------------------------------------------------------
(* Reading.  recv() reads one line: on a PING it first writes the PONG     *)
(* (that send() raises once disconnect() closed the writer); it returns    *)
(* None when its timeout expires or at end of stream, and at end of stream *)
(* clears _connected.  What each helper does with the result follows.      *)

Closed(s) == eof[s] \/ writer[s] = "closed"

\* The PONG recv() writes for a PING before returning it.
Pong(s, m) ==
    IF m.cmd = "PING" THEN Write(s, <<[cmd |-> "PONG", tok |-> m.tok]>>)
                      ELSE UNCHANGED outq

Stay(s) == UNCHANGED <<op, res>>

\* Mutant: a `while True` loop that never checks the deadline.
LoopNoDeadline(s) == Stay(s)

\* The check `while time.time() < deadline` after a line that ended
\* nothing: wait again, or raise TimeoutError.
Loop(s) ==
    \/ left[s] > 0 /\ Stay(s)
    \/ left[s] = 0 /\ Finish(s, "timeout")

KeepFlags == UNCHANGED <<registered, capsAvail, capsEnabled>>

\* Mutant: the deadline recomputed after every line that does not match.
ExpectGotFreshDeadline(s, m) ==
    /\ op[s] = "expect"
    /\ KeepFlags
    /\ \/ m.cmd \in pat[s] /\ Finish(s, "ok") /\ UNCHANGED left
       \/ /\ m.cmd \notin pat[s]
          /\ left' = [left EXCEPT ![s] = Timeout]
          /\ Stay(s)

\* expect / expect_any: return the first line whose command matches.
ExpectGot(s, m) ==
    /\ op[s] = "expect"
    /\ KeepFlags /\ UNCHANGED left
    /\ \/ m.cmd \in pat[s] /\ Finish(s, "ok")
       \/ m.cmd \notin pat[s] /\ Loop(s)

\* Mutant: register waits with expect_any(["001", "433"]).
RegisterGotAny(s, m) ==
    /\ op[s] = "register"
    /\ UNCHANGED <<capsAvail, capsEnabled, left>>
    /\ \/ /\ m.cmd \in {"001", "433"}
          /\ registered' = [registered EXCEPT ![s] = TRUE]
          /\ Finish(s, "ok")
       \/ m.cmd \notin {"001", "433"} /\ UNCHANGED registered /\ Loop(s)

\* register: 001 sets _registered; anything else (433 included) is dropped.
RegisterGot(s, m) ==
    /\ op[s] = "register"
    /\ UNCHANGED <<capsAvail, capsEnabled, left>>
    /\ \/ /\ m.cmd = "001"
          /\ registered' = [registered EXCEPT ![s] = TRUE]
          /\ Finish(s, "ok")
       \/ m.cmd # "001" /\ UNCHANGED registered /\ Loop(s)

\* join: the raw pattern JOIN.*<channel> matches any JOIN to the channel.
JoinMatch(m, c) == m.cmd = "JOIN" /\ m.chan = c

JoinGot(s, m) ==
    /\ op[s] = "join"
    /\ KeepFlags /\ UNCHANGED left
    /\ \/ JoinMatch(m, pat[s]) /\ Finish(s, "ok")
       \/ ~JoinMatch(m, pat[s]) /\ Loop(s)

\* cap_req: the first CAP line decides; on ACK the requested capabilities
\* are added to _caps_enabled.
CapReqGot(s, m) ==
    /\ op[s] = "capreq"
    /\ UNCHANGED <<registered, capsAvail, left>>
    /\ \/ /\ m.cmd = "CAP" /\ m.sub = "ACK"
          /\ capsEnabled' = [capsEnabled EXCEPT ![s] = @ \cup pat[s]]
          /\ Finish(s, "true")
       \/ /\ m.cmd = "CAP" /\ m.sub # "ACK"
          /\ UNCHANGED capsEnabled
          /\ Finish(s, "false")
       \/ m.cmd # "CAP" /\ UNCHANGED capsEnabled /\ Loop(s)

\* cap_ls: a CAP line with params[1] = "LS" contributes its capabilities;
\* the continuation test reads params[1] again, which is "LS", so the loop
\* always ends on the first LS line.  Another CAP line starts a new
\* expect("CAP", timeout=5) with a fresh deadline.
CapLsGot(s, m) ==
    /\ op[s] = "capls"
    /\ UNCHANGED <<registered, capsEnabled>>
    /\ \/ /\ m.cmd = "CAP" /\ m.sub = "LS"
          /\ capsAvail' = [capsAvail EXCEPT ![s] = m.caps]
          /\ UNCHANGED left
          /\ Finish(s, "ok")
       \/ /\ m.cmd = "CAP" /\ m.sub # "LS"
          /\ left' = [left EXCEPT ![s] = HelperTimeout]
          /\ UNCHANGED capsAvail /\ Stay(s)
       \/ m.cmd # "CAP" /\ UNCHANGED <<capsAvail, left>> /\ Loop(s)

\* whois: every line is collected; 318 or 401 ends the loop, anything else
\* is followed by a new recv(timeout=5).
WhoisGot(s, m) ==
    /\ op[s] = "whois"
    /\ KeepFlags
    /\ \/ m.cmd \in {"318", "401"} /\ UNCHANGED left /\ Finish(s, "ok")
       \/ /\ m.cmd \notin {"318", "401"}
          /\ left' = [left EXCEPT ![s] = HelperTimeout]
          /\ Stay(s)

\* recv_all: collect, and stop when the window is over.
RecvAllGot(s, m) ==
    /\ op[s] = "recvall"
    /\ KeepFlags /\ UNCHANGED left
    /\ \/ left[s] > 0 /\ Stay(s)
       \/ left[s] = 0 /\ Finish(s, "ok")

\* recv() returns the next line to the running helper.
RecvLine(s) ==
    /\ op[s] # "idle"
    /\ inq[s] # <<>>
    /\ LET m == Head(inq[s]) IN
       /\ m.cmd = "PING" => writer[s] = "open"
       /\ inq' = [inq EXCEPT ![s] = Tail(@)]
       /\ Pong(s, m)
       /\ \/ ExpectGot(s, m) \/ RegisterGot(s, m) \/ JoinGot(s, m)
          \/ CapReqGot(s, m) \/ CapLsGot(s, m) \/ WhoisGot(s, m)
          \/ RecvAllGot(s, m)
    /\ UNCHANGED <<writer, connected, pat, spent, calls, eof, srvVars>>

\* recv() reads a PING after disconnect(): the PONG's drain() raises out of
\* recv() and out of the helper.
RecvPingClosed(s) ==
    /\ op[s] # "idle"
    /\ inq[s] # <<>>
    /\ Head(inq[s]).cmd = "PING"
    /\ writer[s] = "closed"
    /\ inq' = [inq EXCEPT ![s] = Tail(@)]
    /\ Finish(s, "connerr")
    /\ UNCHANGED <<clientVars, pat, left, spent, calls, outq, eof, srvVars>>

\* Mutant: the expect loops `break` on None instead of `continue`.
RecvNoneBreak(s) ==
    /\ op[s] # "idle"
    /\ inq[s] = <<>>
    /\ left[s] = 0 \/ Closed(s)
    /\ connected' = [connected EXCEPT ![s] = @ /\ ~Closed(s)]
    /\ \/ op[s] \in {"whois", "recvall"} /\ Finish(s, "ok")
       \/ op[s] \notin {"whois", "recvall"} /\ Finish(s, "timeout")
    /\ UNCHANGED <<writer, registered, capsAvail, capsEnabled, pat, left,
                   spent, calls, netVars, srvVars>>

\* recv() returns None: its timeout expired, or the stream is at its end
\* (then _connected becomes FALSE).  recv_all and whois stop; the expect
\* loops `continue` and re-check the deadline.
RecvNone(s) ==
    /\ op[s] # "idle"
    /\ inq[s] = <<>>
    /\ left[s] = 0 \/ Closed(s)
    /\ connected' = [connected EXCEPT ![s] = @ /\ ~Closed(s)]
    /\ \/ op[s] \in {"whois", "recvall"} /\ Finish(s, "ok")
       \/ op[s] \notin {"whois", "recvall"} /\ Loop(s)
    /\ UNCHANGED <<writer, registered, capsAvail, capsEnabled, pat, left,
                   spent, calls, netVars, srvVars>>

Waiting(s) == op[s] # "idle"

\* Mutant: time passes without the expired timers firing first.
TickLate ==
    /\ \E s \in Sessions : Waiting(s)
    /\ left' = [s \in Sessions |-> IF Waiting(s) THEN left[s] - 1 ELSE left[s]]
    /\ spent' = [s \in Sessions |-> IF Waiting(s) THEN spent[s] + 1 ELSE spent[s]]
    /\ UNCHANGED <<clientVars, op, pat, res, calls, netVars, srvVars>>

\* Time passes for every waiting task.  An expired timer fires before time
\* moves on: a task whose recv timeout has run out is scheduled first.
Tick ==
    /\ \E s \in Sessions : Waiting(s)
    /\ \A s \in Sessions : Waiting(s) => left[s] > 0
    /\ left' = [s \in Sessions |-> IF Waiting(s) THEN left[s] - 1 ELSE left[s]]
    /\ spent' = [s \in Sessions |-> IF Waiting(s) THEN spent[s] + 1 ELSE spent[s]]
    /\ UNCHANGED <<clientVars, op, pat, res, calls, netVars, srvVars>>

-----------------------------------------------------------------------------
(* The server under test, as the client sees it: it answers each line in   *)
(* order, possibly late, sends unrelated traffic and may drop the link.    *)

Deliver(s, lines) == inq' = [inq EXCEPT ![s] = @ \o lines]

SrvRegister(s, c) ==
    /\ c.cmd = "NICKUSER"
    /\ UNCHANGED <<srvCaps, eof>>
    /\ \/ /\ ~srvReg[s]
          /\ srvReg' = [srvReg EXCEPT ![s] = TRUE]
          /\ Deliver(s, <<Plain("001")>>)
       \/ ~srvReg[s] /\ Deliver(s, <<Plain("433")>>) /\ UNCHANGED srvReg
       \/ srvReg[s] /\ UNCHANGED <<inq, srvReg>>

\* CAP LS 302: one line, or a continuation line "CAP * LS * :..." first.
SrvCapLs(s, c) ==
    /\ c.cmd = "CAPLS"
    /\ UNCHANGED <<srvReg, srvCaps, eof>>
    /\ \/ Deliver(s, <<CapMsg("LS", FALSE, ServerCaps)>>)
       \/ \E part \in SUBSET ServerCaps \ {{}, ServerCaps} :
             Deliver(s, <<CapMsg("LS", TRUE, part),
                          CapMsg("LS", FALSE, ServerCaps \ part)>>)

SrvCapReq(s, c) ==
    /\ c.cmd = "CAPREQ"
    /\ UNCHANGED <<srvReg, eof>>
    /\ \/ /\ c.caps \subseteq ServerCaps
          /\ srvCaps' = [srvCaps EXCEPT ![s] = @ \cup c.caps]
          /\ Deliver(s, <<CapMsg("ACK", FALSE, c.caps)>>)
       \/ /\ ~(c.caps \subseteq ServerCaps)
          /\ UNCHANGED srvCaps
          /\ Deliver(s, <<CapMsg("NAK", FALSE, c.caps)>>)

SrvOther(s, c) ==
    /\ UNCHANGED <<srvReg, srvCaps>>
    /\ \/ c.cmd = "JOIN" /\ Deliver(s, <<JoinMsg(c.chan, TRUE)>>) /\ UNCHANGED eof
       \/ /\ c.cmd = "WHOIS" /\ UNCHANGED eof
          /\ \/ Deliver(s, <<Plain("311"), Plain("318")>>)
             \/ Deliver(s, <<Plain("401")>>)
       \/ c.cmd = "QUIT" /\ eof' = [eof EXCEPT ![s] = TRUE] /\ UNCHANGED inq
       \/ c.cmd \in {"PONG", "CAPEND", "PRIVMSG"} /\ UNCHANGED <<inq, eof>>

SrvHandle(s) ==
    /\ ~eof[s]
    /\ outq[s] # <<>>
    /\ outq' = [outq EXCEPT ![s] = Tail(@)]
    /\ LET c == Head(outq[s]) IN
          SrvRegister(s, c) \/ SrvCapLs(s, c) \/ SrvCapReq(s, c) \/ SrvOther(s, c)
    /\ UNCHANGED <<clientVars, taskVars, noise>>

NoiseMsgs ==
    {PingMsg(t) : t \in Tokens} \cup {Plain("PRIVMSG")}
    \cup {JoinMsg(c, FALSE) : c \in Chans}

\* A line nobody asked for: a keepalive PING, a message, another user's JOIN.
SrvNoise(s) ==
    /\ writer[s] # "none"
    /\ ~eof[s]
    /\ noise[s] < MaxNoise
    /\ \E m \in NoiseMsgs : Deliver(s, <<m>>)
    /\ noise' = [noise EXCEPT ![s] = @ + 1]
    /\ UNCHANGED <<clientVars, taskVars, outq, eof, srvReg, srvCaps>>

\* The server closes the connection.
SrvClose(s) ==
    /\ writer[s] # "none"
    /\ ~eof[s]
    /\ eof' = [eof EXCEPT ![s] = TRUE]
    /\ UNCHANGED <<clientVars, taskVars, inq, outq, srvVars>>

-----------------------------------------------------------------------------

\* What the test task of session s may call next.
Call(s) ==
    \/ Connect(s) \/ Disconnect(s) \/ Quit(s)
    \/ \E m \in RawSends : Send(s, m)
    \/ \E P \in ExpectSets : Expect(s, P)
    \/ RecvAll(s) \/ Register(s) \/ CapLs(s) \/ Whois(s)
    \/ \E cs \in {{c} : c \in Caps} : CapReq(s, cs)
    \/ \E c \in Chans : Join(s, c)

\* One step of session s's task inside a helper.
Step(s) == RecvLine(s) \/ RecvPingClosed(s) \/ RecvNone(s)

Server(s) == SrvHandle(s) \/ SrvNoise(s) \/ SrvClose(s)

Next ==
    \/ \E s \in Sessions : Call(s) \/ Step(s) \/ Server(s)
    \/ Tick

Spec == Init /\ [][Next]_vars

\* The event loop runs every ready task and fires every expired timer; the
\* test's own calls and the server are not assumed to make progress.
FairSpec == Spec /\ \A s \in Sessions : WF_vars(Step(s)) /\ WF_vars(Tick)

-----------------------------------------------------------------------------
(* Properties.                                                             *)

\* The helpers that measure every retry against one deadline.
DeadlineOps == {"expect", "register", "join", "capreq", "recvall"}

\* The helpers built on expect(), and recv_all(), compute their deadline
\* once (deadline = time.time() + timeout) and measure every retry against
\* it: unrelated lines, PINGs and None at end of stream never extend a
\* call past its timeout.
WaitWithinDeadline ==
    \A s \in Sessions : op[s] \in DeadlineOps => spent[s] <= TimeoutOf(op[s])

\* Every helper call, whois and cap_ls included, ends within the timeout
\* its caller gave it (spec: a deadline is computed once and never reset).
HelperWithinDeadline ==
    \A s \in Sessions : Waiting(s) => spent[s] <= TimeoutOf(op[s])

\* TimeoutError is raised only once the call's whole timeout has elapsed,
\* never early (e.g. when recv() returns None at end of stream).
TimeoutOnlyAtDeadline ==
    [][\A s \in Sessions :
          (Waiting(s) /\ res'[s] = "timeout") => spent[s] >= TimeoutOf(op[s])]_vars

\* register() sets _registered only when the server really registered
\* the connection: a 433 (nick in use) or other reply never counts.
RegisteredOnlyAfterWelcome ==
    \A s \in Sessions : registered[s] => srvReg[s]

\* cap_ls() stores the whole list the server advertised, across all the
\* lines of a multi-line CAP LS reply (spec 4.4).
CapLsComplete ==
    \A s \in Sessions : capsAvail[s] # {} => capsAvail[s] = ServerCaps

\* _caps_enabled only holds capabilities the server ACKed for this
\* connection: cap_req() never credits an ACK to the wrong request.
CapsEnabledAcked ==
    \A s \in Sessions : capsEnabled[s] \subseteq srvCaps[s]

\* cap_req() reports the outcome of the negotiation as a boolean: on NAK
\* and on timeout it returns failure without raising (spec 4.4).
CapReqNeverRaises ==
    [][\A s \in Sessions :
          (op[s] = "capreq" /\ op'[s] = "idle") => res'[s] \in {"true", "false"}]_vars

\* No call of expect, expect_any, expect_numeric, register, join, cap_req
\* or recv_all blocks forever: whatever the server sends (PINGs, unrelated
\* lines, end of stream, a PING read after disconnect), the call returns or
\* raises.  whois and cap_ls are left out: they restart their timeout on
\* every line, so steady traffic can keep them waiting (HelperWithinDeadline).
CallsReturn ==
    \A s \in Sessions : op[s] \in DeadlineOps ~> ~Waiting(s)

=============================================================================

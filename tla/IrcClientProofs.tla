------------------------- MODULE IrcClientProofs -------------------------
(* Machine-checked proofs about the IrcClient model: type correctness and *)
(* the fixed deadline of the expect-based helpers, for every value of the *)
(* constants that satisfies the module's assumptions.                     *)
EXTENDS IrcClient, TLAPS

USE TimeoutAssumption, CapsAssumption, BoundsAssumption, ExpectSetsAssumption

\* What a line of the server stream carries, by its command.
LEMMA SrvMsgFields ==
    ASSUME NEW m \in SrvMsg
    PROVE  /\ m.cmd \in SrvCmds
           /\ m.cmd = "PING" => m.tok \in Tokens
           /\ m.cmd = "CAP" => m.caps \in SUBSET Caps
  BY DEF SrvMsg, SrvCmds, PlainCmds

\* What a line of the client stream carries, by its command.
LEMMA CliMsgFields ==
    ASSUME NEW c \in CliMsg
    PROVE  /\ c.cmd = "CAPREQ" => c.caps \in SUBSET Caps
           /\ c.cmd = "JOIN" => c.chan \in Chans
  BY DEF CliMsg

\* The argument of a running cap_req is the set of capabilities requested.
CapReqPat == \A s \in Sessions : op[s] = "capreq" => pat[s] \in SUBSET Caps

TypeInv == TypeOK /\ CapReqPat

LEMMA InitTypeInv == Init => TypeInv
  BY DEF Init, TypeInv, TypeOK, CapReqPat, Results

\* A call whose first send() or recv() raises keeps the types.
LEMMA FailType ==
    ASSUME TypeInv, NEW s \in Sessions, CanCall(s), Fail(s)
    PROVE  TypeInv'
<1>1. res' \in [Sessions -> Results] /\ calls' \in [Sessions -> 0..MaxCalls]
  BY DEF TypeInv, TypeOK, CanCall, Fail, Results
<1>2. UNCHANGED <<writer, connected, registered, capsAvail, capsEnabled, op, pat,
                  left, spent, inq, outq, eof, srvReg, srvCaps, noise>>
  BY DEF Fail, clientVars, netVars, srvVars
<1>3. QED
  BY <1>1, <1>2 DEF TypeInv, TypeOK, CapReqPat

\* Writing well-formed lines keeps the client stream well-formed.
LEMMA WriteType ==
    ASSUME TypeInv, NEW s \in Sessions, NEW lines \in Seq(CliMsg), Write(s, lines)
    PROVE  outq' \in [Sessions -> Seq(CliMsg)]
  BY DEF TypeInv, TypeOK, Write

\* Starting helper o on a well-formed argument keeps the task's types.
LEMMA BeginType ==
    ASSUME TypeInv, NEW s \in Sessions, CanCall(s),
           NEW o \in Ops, NEW p \in (SUBSET SrvCmds) \cup Chans \cup (SUBSET Caps),
           o = "capreq" => p \in SUBSET Caps,
           Begin(s, o, p, TimeoutOf(o))
    PROVE  /\ op' \in [Sessions -> Ops \cup {"idle"}]
           /\ pat' \in [Sessions -> (SUBSET SrvCmds) \cup Chans \cup (SUBSET Caps)]
           /\ left' \in [Sessions -> Nat]
           /\ spent' \in [Sessions -> Nat]
           /\ res' \in [Sessions -> Results]
           /\ calls' \in [Sessions -> 0..MaxCalls]
           /\ \A x \in Sessions : op'[x] = "capreq" => pat'[x] \in SUBSET Caps
<1>1. TimeoutOf(o) \in Nat
  BY DEF TimeoutOf
<1>2. op' \in [Sessions -> Ops \cup {"idle"}]
  BY DEF TypeInv, TypeOK, Begin
<1>3. pat' \in [Sessions -> (SUBSET SrvCmds) \cup Chans \cup (SUBSET Caps)]
  BY DEF TypeInv, TypeOK, Begin
<1>4. left' \in [Sessions -> Nat] /\ spent' \in [Sessions -> Nat]
  BY <1>1 DEF TypeInv, TypeOK, Begin
<1>5. res' \in [Sessions -> Results] /\ calls' \in [Sessions -> 0..MaxCalls]
  BY DEF TypeInv, TypeOK, CanCall, Begin, Results
<1>6. \A x \in Sessions : op'[x] = "capreq" => pat'[x] \in SUBSET Caps
  BY DEF TypeInv, TypeOK, CapReqPat, Begin
<1>7. QED
  BY <1>2, <1>3, <1>4, <1>5, <1>6

\* A helper call that writes well-formed lines and waits on a well-formed
\* argument keeps the types.
LEMMA StartHelperType ==
    ASSUME TypeInv, NEW s \in Sessions, NEW lines \in Seq(CliMsg),
           NEW o \in Ops, NEW p \in (SUBSET SrvCmds) \cup Chans \cup (SUBSET Caps),
           o = "capreq" => p \in SUBSET Caps,
           StartHelper(s, lines, o, p)
    PROVE  TypeInv'
<1>1. CASE writer[s] = "open" /\ Write(s, lines) /\ Begin(s, o, p, TimeoutOf(o))
           /\ UNCHANGED <<clientVars, inq, eof, srvVars>>
  <2>1. outq' \in [Sessions -> Seq(CliMsg)]
    BY <1>1, WriteType
  <2>2. UNCHANGED <<writer, connected, registered, capsAvail, capsEnabled,
                    inq, eof, srvReg, srvCaps, noise>>
    BY <1>1 DEF clientVars, srvVars
  <2>3. QED
    BY <1>1, <2>1, <2>2, BeginType DEF StartHelper, TypeInv, TypeOK, CapReqPat
<1>2. CASE Fail(s)
  BY <1>2, FailType DEF StartHelper
<1>3. QED
  BY <1>1, <1>2 DEF StartHelper

\* A helper call that only reads keeps the types.
LEMMA StartReaderType ==
    ASSUME TypeInv, NEW s \in Sessions, NEW o \in Ops \ {"capreq"},
           NEW p \in (SUBSET SrvCmds) \cup Chans \cup (SUBSET Caps),
           StartReader(s, o, p)
    PROVE  TypeInv'
<1>1. CASE writer[s] # "none" /\ Begin(s, o, p, TimeoutOf(o))
           /\ UNCHANGED <<clientVars, netVars, srvVars>>
  <2>1. UNCHANGED <<writer, connected, registered, capsAvail, capsEnabled,
                    inq, outq, eof, srvReg, srvCaps, noise>>
    BY <1>1 DEF clientVars, netVars, srvVars
  <2>2. QED
    BY <1>1, <2>1, BeginType DEF StartReader, TypeInv, TypeOK, CapReqPat
<1>2. CASE Fail(s)
  BY <1>2, FailType DEF StartReader
<1>3. QED
  BY <1>1, <1>2 DEF StartReader

\* The test task's calls keep the types.
LEMMA CallType ==
    ASSUME TypeInv, NEW s \in Sessions, Call(s)
    PROVE  TypeInv'
<1> USE DEF TypeInv, TypeOK, CapReqPat
<1>1. CASE Connect(s)
  <2>1. CASE /\ writer' = [writer EXCEPT ![s] = "open"]
             /\ connected' = [connected EXCEPT ![s] = TRUE]
             /\ res' = [res EXCEPT ![s] = "ok"]
             /\ calls' = [calls EXCEPT ![s] = @ + 1]
             /\ UNCHANGED <<registered, capsAvail, capsEnabled, op, pat, left,
                            spent, netVars, srvVars>>
    <3>1. UNCHANGED <<inq, outq, eof, srvReg, srvCaps, noise>>
      BY <2>1 DEF netVars, srvVars
    <3>2. res' \in [Sessions -> Results] /\ calls' \in [Sessions -> 0..MaxCalls]
      BY <1>1, <2>1 DEF Connect, CanCall, Results
    <3>3. QED
      BY <2>1, <3>1, <3>2
  <2>2. CASE Fail(s)
    BY <1>1, <2>2, FailType DEF Connect
  <2>3. QED
    BY <1>1, <2>1, <2>2 DEF Connect
<1>2. CASE Disconnect(s)
  <2>1. UNCHANGED <<inq, outq, eof, srvReg, srvCaps, noise>>
    BY <1>2 DEF Disconnect, netVars, srvVars
  <2>2. res' \in [Sessions -> Results] /\ calls' \in [Sessions -> 0..MaxCalls]
    BY <1>2 DEF Disconnect, CanCall, Results
  <2>3. QED
    BY <1>2, <2>1, <2>2 DEF Disconnect, CloseClient
<1>3. CASE Quit(s)
  <2>1. UNCHANGED <<inq, eof, srvReg, srvCaps, noise>>
    BY <1>3 DEF Quit, srvVars
  <2>2. res' \in [Sessions -> Results] /\ calls' \in [Sessions -> 0..MaxCalls]
    BY <1>3 DEF Quit, CanCall, Results
  <2>3. outq' \in [Sessions -> Seq(CliMsg)]
    <3>1. <<Plain("QUIT")>> \in Seq(CliMsg)
      BY DEF CliMsg, Plain
    <3>2. QED
      BY <1>3, <3>1, WriteType DEF Quit
  <2>4. QED
    BY <1>3, <2>1, <2>2, <2>3 DEF Quit, CloseClient
<1>4. CASE \E m \in RawSends : Send(s, m)
  <2>1. PICK m \in RawSends : Send(s, m)
    BY <1>4
  <2>2. CASE writer[s] = "open" /\ Write(s, <<m>>)
             /\ res' = [res EXCEPT ![s] = "ok"]
             /\ calls' = [calls EXCEPT ![s] = @ + 1]
             /\ UNCHANGED <<clientVars, op, pat, left, spent, inq, eof, srvVars>>
    <3>1. UNCHANGED <<writer, connected, registered, capsAvail, capsEnabled,
                      srvReg, srvCaps, noise>>
      BY <2>2 DEF clientVars, srvVars
    <3>2. res' \in [Sessions -> Results] /\ calls' \in [Sessions -> 0..MaxCalls]
      BY <2>1, <2>2 DEF Send, CanCall, Results
    <3>3. outq' \in [Sessions -> Seq(CliMsg)]
      <4>1. <<m>> \in Seq(CliMsg)
        BY DEF RawSends, CliMsg, Plain
      <4>2. QED
        BY <2>2, <4>1, WriteType
    <3>4. QED
      BY <2>2, <3>1, <3>2, <3>3
  <2>3. CASE Fail(s)
    BY <2>1, <2>3, FailType DEF Send
  <2>4. QED
    BY <2>1, <2>2, <2>3 DEF Send
<1>5. CASE \E P \in ExpectSets : Expect(s, P)
  BY <1>5, StartReaderType DEF Expect, Ops
<1>6. CASE RecvAll(s)
  BY <1>6, StartReaderType DEF RecvAll, Ops
<1>7. CASE Register(s)
  <2>1. <<Plain("NICKUSER")>> \in Seq(CliMsg) /\ {"001"} \in SUBSET SrvCmds
    BY DEF CliMsg, Plain, SrvCmds, PlainCmds
  <2>2. QED BY <1>7, <2>1, StartHelperType DEF Register, Ops
<1>8. CASE CapLs(s)
  <2>1. <<Plain("CAPLS")>> \in Seq(CliMsg) /\ {"CAP"} \in SUBSET SrvCmds
    BY DEF CliMsg, Plain, SrvCmds
  <2>2. QED BY <1>8, <2>1, StartHelperType DEF CapLs, Ops
<1>9. CASE Whois(s)
  <2>1. <<Plain("WHOIS")>> \in Seq(CliMsg)
    BY DEF CliMsg, Plain
  <2>2. QED BY <1>9, <2>1, StartHelperType DEF Whois, Ops
<1>10. CASE \E cs \in {{c} : c \in Caps} : CapReq(s, cs)
  <2>1. PICK cs \in {{c} : c \in Caps} : CapReq(s, cs)
    BY <1>10
  <2>2. <<[cmd |-> "CAPREQ", caps |-> cs]>> \in Seq(CliMsg) /\ cs \in SUBSET Caps
    BY DEF CliMsg
  <2>3. QED BY <2>1, <2>2, StartHelperType DEF CapReq, Ops
<1>11. CASE \E c \in Chans : Join(s, c)
  <2>1. PICK c \in Chans : Join(s, c)
    BY <1>11
  <2>2. <<[cmd |-> "JOIN", chan |-> c]>> \in Seq(CliMsg)
    BY DEF CliMsg
  <2>3. QED BY <2>1, <2>2, StartHelperType DEF Join, Ops
<1>12. QED
  BY <1>1, <1>2, <1>3, <1>4, <1>5, <1>6, <1>7, <1>8, <1>9, <1>10, <1>11 DEF Call

\* What a helper's handling of one line may change, and how: the task only
\* returns (op becomes "idle"), timers are reset to a timeout, and the
\* client's flags get well-formed values.
HandlerPost(s) ==
    /\ op' \in [Sessions -> Ops \cup {"idle"}]
    /\ \A x \in Sessions : op'[x] = "idle" \/ op'[x] = op[x]
    /\ res' \in [Sessions -> Results]
    /\ left' \in [Sessions -> Nat]
    /\ registered' \in [Sessions -> BOOLEAN]
    /\ capsAvail' \in [Sessions -> SUBSET Caps]
    /\ capsEnabled' \in [Sessions -> SUBSET Caps]

\* Finish(s, r) returns to the idle state with a result.
LEMMA FinishType ==
    ASSUME TypeInv, NEW s \in Sessions, NEW r \in Results, Finish(s, r)
    PROVE  /\ op' \in [Sessions -> Ops \cup {"idle"}]
           /\ \A x \in Sessions : op'[x] = "idle" \/ op'[x] = op[x]
           /\ res' \in [Sessions -> Results]
  BY DEF TypeInv, TypeOK, Finish

LEMMA LoopType ==
    ASSUME TypeInv, NEW s \in Sessions, Loop(s)
    PROVE  /\ op' \in [Sessions -> Ops \cup {"idle"}]
           /\ \A x \in Sessions : op'[x] = "idle" \/ op'[x] = op[x]
           /\ res' \in [Sessions -> Results]
<1>1. CASE Stay(s)
  BY <1>1 DEF TypeInv, TypeOK, Stay
<1>2. CASE Finish(s, "timeout")
  BY <1>2, FinishType DEF Results
<1>3. QED
  BY <1>1, <1>2 DEF Loop

\* Every helper's handling of a line read from the server keeps the types.
LEMMA HandlerType ==
    ASSUME TypeInv, NEW s \in Sessions, NEW m \in SrvMsg,
           \/ ExpectGot(s, m) \/ RegisterGot(s, m) \/ JoinGot(s, m)
           \/ CapReqGot(s, m) \/ CapLsGot(s, m) \/ WhoisGot(s, m)
           \/ RecvAllGot(s, m)
    PROVE  HandlerPost(s)
<1> USE DEF HandlerPost
<1>1. CASE ExpectGot(s, m)
  BY <1>1, FinishType, LoopType DEF ExpectGot, KeepFlags, Results, TypeInv, TypeOK
<1>2. CASE RegisterGot(s, m)
  BY <1>2, FinishType, LoopType DEF RegisterGot, Results, TypeInv, TypeOK
<1>3. CASE JoinGot(s, m)
  BY <1>3, FinishType, LoopType DEF JoinGot, KeepFlags, Results, TypeInv, TypeOK
<1>4. CASE CapReqGot(s, m)
  <2>1. capsEnabled' \in [Sessions -> SUBSET Caps]
    BY <1>4 DEF CapReqGot, TypeInv, TypeOK, CapReqPat
  <2>2. QED
    BY <1>4, <2>1, FinishType, LoopType DEF CapReqGot, Results, TypeInv, TypeOK
<1>5. CASE CapLsGot(s, m)
  <2>1. capsAvail' \in [Sessions -> SUBSET Caps]
    BY <1>5, SrvMsgFields DEF CapLsGot, TypeInv, TypeOK
  <2>2. left' \in [Sessions -> Nat]
    BY <1>5 DEF CapLsGot, TypeInv, TypeOK
  <2>3. QED
    BY <1>5, <2>1, <2>2, FinishType, LoopType DEF CapLsGot, Stay, Results, TypeInv, TypeOK
<1>6. CASE WhoisGot(s, m)
  BY <1>6, FinishType DEF WhoisGot, KeepFlags, Stay, Results, TypeInv, TypeOK
<1>7. CASE RecvAllGot(s, m)
  BY <1>7, FinishType DEF RecvAllGot, KeepFlags, Stay, Results, TypeInv, TypeOK
<1>8. QED
  BY <1>1, <1>2, <1>3, <1>4, <1>5, <1>6, <1>7

\* The session's task reading from the stream keeps the types.
LEMMA StepType ==
    ASSUME TypeInv, NEW s \in Sessions, Step(s)
    PROVE  TypeInv'
<1>1. CASE RecvLine(s)
  <2> DEFINE m == Head(inq[s])
  <2>1. m \in SrvMsg /\ Tail(inq[s]) \in Seq(SrvMsg)
    BY <1>1 DEF RecvLine, TypeInv, TypeOK
  <2>2. /\ inq' = [inq EXCEPT ![s] = Tail(inq[s])]
        /\ Pong(s, m)
        /\ \/ ExpectGot(s, m) \/ RegisterGot(s, m) \/ JoinGot(s, m)
           \/ CapReqGot(s, m) \/ CapLsGot(s, m) \/ WhoisGot(s, m)
           \/ RecvAllGot(s, m)
        /\ UNCHANGED <<writer, connected, pat, spent, calls, eof, srvVars>>
    BY <1>1 DEF RecvLine
  <2>3. HandlerPost(s)
    BY <2>1, <2>2, HandlerType
  <2>4. outq' \in [Sessions -> Seq(CliMsg)]
    <3>1. CASE m.cmd = "PING"
      <4>1. <<[cmd |-> "PONG", tok |-> m.tok]>> \in Seq(CliMsg)
        BY <2>1, <3>1, SrvMsgFields DEF CliMsg
      <4>2. QED
        BY <2>2, <3>1, <4>1, WriteType DEF Pong
    <3>2. CASE m.cmd # "PING"
      BY <2>2, <3>2 DEF Pong, TypeInv, TypeOK
    <3>3. QED
      BY <3>1, <3>2
  <2>5. inq' \in [Sessions -> Seq(SrvMsg)]
    BY <2>1, <2>2 DEF TypeInv, TypeOK
  <2>6. UNCHANGED <<writer, connected, pat, spent, calls, eof, srvReg, srvCaps, noise>>
    BY <2>2 DEF srvVars
  <2>7. CapReqPat'
    BY <2>3, <2>6 DEF HandlerPost, CapReqPat, TypeInv
  <2>8. QED
    BY <2>3, <2>4, <2>5, <2>6, <2>7 DEF HandlerPost, TypeInv, TypeOK
<1>2. CASE RecvPingClosed(s)
  <2>1. /\ op' \in [Sessions -> Ops \cup {"idle"}]
        /\ \A x \in Sessions : op'[x] = "idle" \/ op'[x] = op[x]
        /\ res' \in [Sessions -> Results]
    BY <1>2, FinishType DEF RecvPingClosed, Results
  <2>2. inq' \in [Sessions -> Seq(SrvMsg)]
    BY <1>2 DEF RecvPingClosed, TypeInv, TypeOK
  <2>3. UNCHANGED <<writer, connected, registered, capsAvail, capsEnabled,
                    pat, left, spent, calls, outq, eof, srvReg, srvCaps, noise>>
    BY <1>2 DEF RecvPingClosed, clientVars, srvVars
  <2>4. QED
    BY <2>1, <2>2, <2>3 DEF TypeInv, TypeOK, CapReqPat
<1>3. CASE RecvNone(s)
  <2>1. /\ op' \in [Sessions -> Ops \cup {"idle"}]
        /\ \A x \in Sessions : op'[x] = "idle" \/ op'[x] = op[x]
        /\ res' \in [Sessions -> Results]
    BY <1>3, FinishType, LoopType DEF RecvNone, Results
  <2>2. connected' \in [Sessions -> BOOLEAN]
    BY <1>3 DEF RecvNone, TypeInv, TypeOK
  <2>3. UNCHANGED <<writer, registered, capsAvail, capsEnabled, pat, left,
                    spent, calls, inq, outq, eof, srvReg, srvCaps, noise>>
    BY <1>3 DEF RecvNone, netVars, srvVars
  <2>4. QED
    BY <2>1, <2>2, <2>3 DEF TypeInv, TypeOK, CapReqPat
<1>4. QED
  BY <1>1, <1>2, <1>3 DEF Step

\* Delivering well-formed lines keeps the server stream well-formed.
LEMMA DeliverType ==
    ASSUME TypeInv, NEW s \in Sessions, NEW lines \in Seq(SrvMsg), Deliver(s, lines)
    PROVE  inq' \in [Sessions -> Seq(SrvMsg)]
  BY DEF TypeInv, TypeOK, Deliver

\* The server's reply to one line of the client keeps the types.
LEMMA ReplyType ==
    ASSUME TypeInv, NEW s \in Sessions, NEW c \in CliMsg,
           SrvRegister(s, c) \/ SrvCapLs(s, c) \/ SrvCapReq(s, c) \/ SrvOther(s, c)
    PROVE  /\ inq' \in [Sessions -> Seq(SrvMsg)]
           /\ eof' \in [Sessions -> BOOLEAN]
           /\ srvReg' \in [Sessions -> BOOLEAN]
           /\ srvCaps' \in [Sessions -> SUBSET Caps]
<1> USE DEF TypeInv, TypeOK
<1>1. CASE SrvRegister(s, c)
  <2>1. <<Plain("001")>> \in Seq(SrvMsg) /\ <<Plain("433")>> \in Seq(SrvMsg)
    BY DEF SrvMsg, Plain, PlainCmds
  <2>2. QED
    BY <1>1, <2>1, DeliverType DEF SrvRegister
<1>2. CASE SrvCapLs(s, c)
  <2>1. <<CapMsg("LS", FALSE, ServerCaps)>> \in Seq(SrvMsg)
    BY DEF SrvMsg, CapMsg
  <2>2. \A part \in SUBSET ServerCaps :
          <<CapMsg("LS", TRUE, part), CapMsg("LS", FALSE, ServerCaps \ part)>>
            \in Seq(SrvMsg)
    BY DEF SrvMsg, CapMsg
  <2>3. QED
    BY <1>2, <2>1, <2>2, DeliverType DEF SrvCapLs
<1>3. CASE SrvCapReq(s, c)
  <2>1. c.caps \in SUBSET Caps
    BY <1>3, CliMsgFields DEF SrvCapReq
  <2>2. <<CapMsg("ACK", FALSE, c.caps)>> \in Seq(SrvMsg)
        /\ <<CapMsg("NAK", FALSE, c.caps)>> \in Seq(SrvMsg)
    BY <2>1 DEF SrvMsg, CapMsg
  <2>3. srvCaps' \in [Sessions -> SUBSET Caps]
    <3>1. CASE c.caps \subseteq ServerCaps
      <4>1. srvCaps' = [srvCaps EXCEPT ![s] = srvCaps[s] \cup c.caps]
        BY <1>3, <3>1 DEF SrvCapReq
      <4>2. QED
        BY <2>1, <4>1
    <3>2. CASE ~(c.caps \subseteq ServerCaps)
      BY <1>3, <3>2 DEF SrvCapReq
    <3>3. QED
      BY <3>1, <3>2
  <2>4. QED
    BY <1>3, <2>2, <2>3, DeliverType DEF SrvCapReq
<1>4. CASE SrvOther(s, c)
  <2>1. CASE c.cmd = "JOIN"
    <3>1. <<JoinMsg(c.chan, TRUE)>> \in Seq(SrvMsg)
      BY <2>1, CliMsgFields DEF SrvMsg, JoinMsg
    <3>2. QED
      BY <1>4, <2>1, <3>1, DeliverType DEF SrvOther
  <2>2. CASE c.cmd # "JOIN"
    <3>1. <<Plain("311"), Plain("318")>> \in Seq(SrvMsg)
          /\ <<Plain("401")>> \in Seq(SrvMsg)
      BY DEF SrvMsg, Plain, PlainCmds
    <3>2. QED
      BY <1>4, <2>2, <3>1, DeliverType DEF SrvOther
  <2>3. QED
    BY <2>1, <2>2
<1>5. QED
  BY <1>1, <1>2, <1>3, <1>4

\* The server's steps keep the types.
LEMMA ServerType ==
    ASSUME TypeInv, NEW s \in Sessions, Server(s)
    PROVE  TypeInv'
<1>1. CASE SrvHandle(s)
  <2> DEFINE c == Head(outq[s])
  <2>1. c \in CliMsg /\ Tail(outq[s]) \in Seq(CliMsg)
    BY <1>1 DEF SrvHandle, TypeInv, TypeOK
  <2>2. /\ outq' = [outq EXCEPT ![s] = Tail(outq[s])]
        /\ SrvRegister(s, c) \/ SrvCapLs(s, c) \/ SrvCapReq(s, c) \/ SrvOther(s, c)
        /\ UNCHANGED <<clientVars, taskVars, noise>>
    BY <1>1 DEF SrvHandle
  <2>3. UNCHANGED <<writer, connected, registered, capsAvail, capsEnabled,
                    op, pat, left, spent, res, calls, noise>>
    BY <2>2 DEF clientVars, taskVars
  <2>4. outq' \in [Sessions -> Seq(CliMsg)]
    BY <2>1, <2>2 DEF TypeInv, TypeOK
  <2>5. QED
    BY <2>1, <2>2, <2>3, <2>4, ReplyType DEF TypeInv, TypeOK, CapReqPat
<1>2. CASE SrvNoise(s)
  <2>1. \A m \in NoiseMsgs : <<m>> \in Seq(SrvMsg)
    <3>1. \A t \in Tokens : <<PingMsg(t)>> \in Seq(SrvMsg)
      BY DEF SrvMsg, PingMsg
    <3>2. <<Plain("PRIVMSG")>> \in Seq(SrvMsg)
      BY DEF SrvMsg, Plain, PlainCmds
    <3>3. \A ch \in Chans : <<JoinMsg(ch, FALSE)>> \in Seq(SrvMsg)
      BY DEF SrvMsg, JoinMsg
    <3>4. QED
      BY <3>1, <3>2, <3>3 DEF NoiseMsgs
  <2>2. inq' \in [Sessions -> Seq(SrvMsg)]
    BY <1>2, <2>1, DeliverType DEF SrvNoise
  <2>3. noise' \in [Sessions -> 0..MaxNoise]
    BY <1>2 DEF SrvNoise, TypeInv, TypeOK
  <2>4. UNCHANGED <<writer, connected, registered, capsAvail, capsEnabled,
                    op, pat, left, spent, res, calls, outq, eof, srvReg, srvCaps>>
    BY <1>2 DEF SrvNoise, clientVars, taskVars
  <2>5. QED
    BY <2>2, <2>3, <2>4 DEF TypeInv, TypeOK, CapReqPat
<1>3. CASE SrvClose(s)
  <2>1. UNCHANGED <<writer, connected, registered, capsAvail, capsEnabled,
                    op, pat, left, spent, res, calls, inq, outq, srvReg, srvCaps, noise>>
    BY <1>3 DEF SrvClose, clientVars, taskVars, srvVars
  <2>2. QED
    BY <1>3, <2>1 DEF SrvClose, TypeInv, TypeOK, CapReqPat
<1>4. QED
  BY <1>1, <1>2, <1>3 DEF Server

\* Time passing keeps the types: only running timers move, and a running
\* timer is positive when time passes.
LEMMA TickType ==
    ASSUME TypeInv, Tick
    PROVE  TypeInv'
<1>1. left' \in [Sessions -> Nat]
  <2>1. \A x \in Sessions : op[x] # "idle" => left[x] - 1 \in Nat
    BY DEF Tick, Waiting, TypeInv, TypeOK
  <2>2. QED
    BY <2>1 DEF Tick, Waiting, TypeInv, TypeOK
<1>2. spent' \in [Sessions -> Nat]
  BY DEF Tick, TypeInv, TypeOK
<1>3. UNCHANGED <<writer, connected, registered, capsAvail, capsEnabled,
                  op, pat, res, calls, inq, outq, eof, srvReg, srvCaps, noise>>
  BY DEF Tick, clientVars, netVars, srvVars
<1>4. QED
  BY <1>1, <1>2, <1>3 DEF TypeInv, TypeOK, CapReqPat

\* Every step of the model keeps the type invariant.
LEMMA NextTypeInv == TypeInv /\ [Next]_vars => TypeInv'
<1> SUFFICES ASSUME TypeInv, [Next]_vars PROVE TypeInv'
  OBVIOUS
<1>1. ASSUME NEW s \in Sessions, Call(s) \/ Step(s) \/ Server(s) PROVE TypeInv'
  BY <1>1, CallType, StepType, ServerType
<1>2. CASE Tick
  BY <1>2, TickType
<1>3. CASE UNCHANGED vars
  BY <1>3 DEF vars, clientVars, taskVars, netVars, srvVars, TypeInv, TypeOK, CapReqPat
<1>4. QED
  BY <1>1, <1>2, <1>3 DEF Next

\* Type correctness of the client model: every reachable state gives every
\* variable of IrcClient (the Connection fields, the helper's task, the two
\* streams and the server's view) a value of its declared kind.
THEOREM TypeCorrect == Spec => []TypeOK
<1>1. TypeInv => TypeOK
  BY DEF TypeInv
<1>2. QED
  BY <1>1, InitTypeInv, NextTypeInv, PTL DEF Spec

-----------------------------------------------------------------------------
(* The fixed deadline.  WaitWithinDeadline is not inductive: a Tick from a *)
(* state with spent = timeout and left > 0 would break it.  DeadlineFixed  *)
(* (spent + left = timeout for the calls built on expect() and recv_all)   *)
(* is, together with the type invariant, and implies it because left is a *)
(* natural number.                                                         *)

\* The deadline of those calls is fixed when the call begins: at every
\* moment the time spent in the call and the time left before its recv
\* times out add up to the call's timeout.
DeadlineFixed ==
    \A s \in Sessions :
        op[s] \in DeadlineOps => spent[s] + left[s] = TimeoutOf(op[s])

DInv == TypeInv /\ DeadlineFixed

LEMMA InitDInv == Init => DInv
  BY InitTypeInv DEF Init, DInv, DeadlineFixed, DeadlineOps

\* A step that keeps spent, and keeps op and left of every call that is (still)
\* one of the expect-based helpers, keeps the deadline.
LEMMA DeadlineFrame ==
    ASSUME TypeInv, DeadlineFixed, spent' = spent,
           \A x \in Sessions : op'[x] \in DeadlineOps =>
                                  op'[x] = op[x] /\ left'[x] = left[x]
    PROVE  DeadlineFixed'
  BY DEF DeadlineFixed

\* Beginning a helper call sets spent to 0 and left to its timeout.
LEMMA BeginDeadline ==
    ASSUME TypeInv, DeadlineFixed, NEW s \in Sessions, NEW o \in Ops, NEW p,
           Begin(s, o, p, TimeoutOf(o))
    PROVE  DeadlineFixed'
<1>1. TimeoutOf(o) \in Nat
  BY DEF TimeoutOf
<1>2. QED
  BY <1>1 DEF DeadlineFixed, Begin, TypeInv, TypeOK

\* The test task's calls either leave the task's timers alone or begin a call.
LEMMA CallDeadline ==
    ASSUME TypeInv, DeadlineFixed, NEW s \in Sessions, Call(s)
    PROVE  DeadlineFixed'
<1>1. CASE UNCHANGED <<op, left, spent>>
  BY <1>1, DeadlineFrame
<1>2. CASE \E o \in Ops : \E p : Begin(s, o, p, TimeoutOf(o))
  BY <1>2, BeginDeadline
<1>3. ASSUME NEW lines, NEW o \in Ops, NEW p, StartHelper(s, lines, o, p)
      PROVE  UNCHANGED <<op, left, spent>> \/ \E oo \in Ops : \E pp : Begin(s, oo, pp, TimeoutOf(oo))
  BY <1>3 DEF StartHelper, Fail
<1>4. ASSUME NEW o \in Ops, NEW p, StartReader(s, o, p)
      PROVE  UNCHANGED <<op, left, spent>> \/ \E oo \in Ops : \E pp : Begin(s, oo, pp, TimeoutOf(oo))
  BY <1>4 DEF StartReader, Fail
<1>5. UNCHANGED <<op, left, spent>> \/ \E o \in Ops : \E p : Begin(s, o, p, TimeoutOf(o))
  <2>1. CASE Connect(s) \/ Disconnect(s) \/ Quit(s) \/ \E m \in RawSends : Send(s, m)
    BY <2>1 DEF Connect, Disconnect, Quit, Send, Fail
  <2>2. CASE \E P \in ExpectSets : Expect(s, P)
    BY <2>2, <1>4 DEF Expect, Ops
  <2>3. CASE RecvAll(s)
    BY <2>3, <1>4 DEF RecvAll, Ops
  <2>4. CASE Register(s) \/ CapLs(s) \/ Whois(s)
    BY <2>4, <1>3 DEF Register, CapLs, Whois, Ops
  <2>5. CASE \E cs \in {{c} : c \in Caps} : CapReq(s, cs)
    BY <2>5, <1>3 DEF CapReq, Ops
  <2>6. CASE \E c \in Chans : Join(s, c)
    BY <2>6, <1>3 DEF Join, Ops
  <2>7. QED
    BY <2>1, <2>2, <2>3, <2>4, <2>5, <2>6 DEF Call
<1>6. QED
  BY <1>1, <1>2, <1>5

\* Handling a line only moves the timer of cap_ls and whois, the two helpers
\* that start a new timeout after a line.
LEMMA HandlerLeft ==
    ASSUME TypeInv, NEW s \in Sessions, NEW m \in SrvMsg,
           \/ ExpectGot(s, m) \/ RegisterGot(s, m) \/ JoinGot(s, m)
           \/ CapReqGot(s, m) \/ CapLsGot(s, m) \/ WhoisGot(s, m)
           \/ RecvAllGot(s, m)
    PROVE  \A x \in Sessions : left'[x] = left[x] \/ op[x] \in {"capls", "whois"}
<1>1. CASE CapLsGot(s, m) \/ WhoisGot(s, m)
  BY <1>1 DEF CapLsGot, WhoisGot, TypeInv, TypeOK
<1>2. CASE ExpectGot(s, m) \/ RegisterGot(s, m) \/ JoinGot(s, m)
           \/ CapReqGot(s, m) \/ RecvAllGot(s, m)
  BY <1>2 DEF ExpectGot, RegisterGot, JoinGot, CapReqGot, RecvAllGot
<1>3. QED
  BY <1>1, <1>2

\* Reading from the stream never moves the deadline of an expect-based call.
LEMMA StepDeadline ==
    ASSUME TypeInv, DeadlineFixed, NEW s \in Sessions, Step(s)
    PROVE  DeadlineFixed'
<1>1. CASE RecvLine(s)
  <2> DEFINE m == Head(inq[s])
  <2>1. m \in SrvMsg
    BY <1>1 DEF RecvLine, TypeInv, TypeOK
  <2>2. /\ \/ ExpectGot(s, m) \/ RegisterGot(s, m) \/ JoinGot(s, m)
           \/ CapReqGot(s, m) \/ CapLsGot(s, m) \/ WhoisGot(s, m)
           \/ RecvAllGot(s, m)
        /\ spent' = spent
    BY <1>1 DEF RecvLine
  <2>3. \A x \in Sessions : op'[x] = "idle" \/ op'[x] = op[x]
    BY <2>1, <2>2, HandlerType DEF HandlerPost
  <2>4. \A x \in Sessions : left'[x] = left[x] \/ op[x] \in {"capls", "whois"}
    BY <2>1, <2>2, HandlerLeft
  <2>5. QED
    BY <2>2, <2>3, <2>4, DeadlineFrame DEF DeadlineOps
<1>2. CASE RecvPingClosed(s) \/ RecvNone(s)
  <2>1. \A x \in Sessions : op'[x] = "idle" \/ op'[x] = op[x]
    BY <1>2, FinishType, LoopType DEF RecvPingClosed, RecvNone, Results
  <2>2. left' = left /\ spent' = spent
    BY <1>2 DEF RecvPingClosed, RecvNone
  <2>3. QED
    BY <2>1, <2>2, DeadlineFrame DEF DeadlineOps
<1>3. QED
  BY <1>1, <1>2 DEF Step

\* Time moves spent up and left down together.
LEMMA TickDeadline ==
    ASSUME TypeInv, DeadlineFixed, Tick
    PROVE  DeadlineFixed'
  BY DEF Tick, Waiting, DeadlineFixed, DeadlineOps, TypeInv, TypeOK

\* Every step keeps the deadline of the expect-based calls fixed.
LEMMA NextDInv == DInv /\ [Next]_vars => DInv'
<1> SUFFICES ASSUME TypeInv, DeadlineFixed, [Next]_vars PROVE DInv'
  BY DEF DInv
<1>1. TypeInv'
  BY NextTypeInv
<1>2. ASSUME NEW s \in Sessions, Server(s) PROVE DeadlineFixed'
  BY <1>2, DeadlineFrame DEF Server, SrvHandle, SrvNoise, SrvClose, taskVars
<1>3. ASSUME UNCHANGED vars PROVE DeadlineFixed'
  <2>1. op' = op /\ left' = left /\ spent' = spent
    BY <1>3 DEF vars, taskVars
  <2>2. QED
    BY <2>1 DEF DeadlineFixed
<1>4. DeadlineFixed'
  <2>1. CASE \E s \in Sessions : Call(s) \/ Step(s) \/ Server(s)
    <3>1. PICK s \in Sessions : Call(s) \/ Step(s) \/ Server(s)
      BY <2>1
    <3>2. QED
      BY <3>1, <1>2, CallDeadline, StepDeadline
  <2>2. CASE Tick
    BY <2>2, TickDeadline
  <2>3. QED
    BY <1>3, <2>1, <2>2 DEF Next
<1>5. QED
  BY <1>1, <1>4 DEF DInv

\* The helpers built on expect() (expect, expect_any, expect_numeric,
\* register, join, cap_req) and recv_all() never wait past their timeout:
\* for every timeout, capability set and number of sessions, the time spent
\* in such a call is at most the timeout it was given.
THEOREM DeadlineRespected == Spec => []WaitWithinDeadline
<1>1. DInv => WaitWithinDeadline
  BY DEF DInv, TypeInv, TypeOK, DeadlineFixed, WaitWithinDeadline
<1>2. QED
  BY <1>1, InitDInv, NextDInv, PTL DEF Spec

=============================================================================

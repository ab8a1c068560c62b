--------------------- MODULE IrcClientProtocolProofs ---------------------
(* Proofs about what the IrcClient helpers conclude from the server's     *)
(* lines: register() sets _registered only after a real 001, and a helper *)
(* raises TimeoutError only once its whole timeout has elapsed.  They     *)
(* rest on the type invariant and the fixed deadline of IrcClientProofs.  *)
EXTENDS IrcClientProofs, SequenceTheorems

USE TimeoutAssumption, CapsAssumption, BoundsAssumption, ExpectSetsAssumption

\* A welcome (001) is among the lines of q.
Has001(q) == \E i \in 1..Len(q) : q[i].cmd = "001"

\* A welcome the client holds, read or not yet read, was sent by a server
\* that registered the connection; the server never forgets it did.
WelcomeSent ==
    \A s \in Sessions : (registered[s] \/ Has001(inq[s])) => srvReg[s]

\* While a helper runs, its outcome is still open: only the helper's own
\* return (Finish) sets it.
OpenOutcome == \A s \in Sessions : Waiting(s) => res[s] = "none"

\* cap_ls and whois restart their recv timeout after a line, so the time
\* spent plus the time left is at least their timeout.
DeadlineAtLeast ==
    \A s \in Sessions :
        op[s] \in {"capls", "whois"} => spent[s] + left[s] >= TimeoutOf(op[s])

-----------------------------------------------------------------------------
(* Lemmas about Has001.                                                    *)

\* Reading a line cannot make a welcome appear.
LEMMA Has001Tail ==
    ASSUME NEW q \in Seq(SrvMsg), q # <<>>, Has001(Tail(q))
    PROVE  Has001(q)
<1>1. PICK i \in 1..Len(Tail(q)) : Tail(q)[i].cmd = "001"
    BY DEF Has001
<1>2. i + 1 \in 1..Len(q) /\ q[i + 1] = Tail(q)[i]
    BY HeadTailProperties
<1>. QED
    BY <1>1, <1>2 DEF Has001

\* The line being read is a welcome.
LEMMA Has001Head ==
    ASSUME NEW q \in Seq(SrvMsg), q # <<>>, Head(q).cmd = "001"
    PROVE  Has001(q)
BY DEF Has001

\* Appending lines none of which is a welcome adds no welcome.
LEMMA Has001Concat ==
    ASSUME NEW q \in Seq(SrvMsg), NEW l \in Seq(SrvMsg),
           \A j \in 1..Len(l) : l[j].cmd # "001",
           Has001(q \o l)
    PROVE  Has001(q)
<1>1. PICK i \in 1..Len(q \o l) : (q \o l)[i].cmd = "001"
    BY DEF Has001
<1>2. i \in 1..Len(q) + Len(l)
    BY <1>1, ConcatProperties
<1>3. CASE i <= Len(q)
    BY <1>1, <1>2, <1>3, ConcatProperties DEF Has001
<1>4. CASE i > Len(q)
    <2>1. i - Len(q) \in 1..Len(l) /\ (q \o l)[i] = l[i - Len(q)]
        BY <1>2, <1>4, ConcatProperties
    <2>. QED
        BY <1>1, <2>1
<1>. QED
    BY <1>3, <1>4

\* The invariant is kept when the server does not forget a registration,
\* _registered is set only on a welcome at the head of the stream, and a
\* welcome enters the stream only from a server that registered.
LEMMA WelcomeFrame ==
    ASSUME WelcomeSent,
           \A x \in Sessions :
              /\ srvReg[x] => srvReg'[x]
              /\ registered'[x] => registered[x] \/ Has001(inq[x])
              /\ Has001(inq'[x]) => Has001(inq[x]) \/ srvReg'[x]
    PROVE  WelcomeSent'
BY DEF WelcomeSent

\* The test task's calls never touch the streams or the server, and
\* disconnect() only clears _registered.
LEMMA CallWelcome ==
    ASSUME TypeInv, WelcomeSent, NEW s \in Sessions, Call(s)
    PROVE  WelcomeSent'
<1>1. inq' = inq /\ srvReg' = srvReg
    BY DEF Call, Connect, Disconnect, Quit, Send, Expect, RecvAll, Register,
           CapLs, Whois, CapReq, Join, StartHelper, StartReader, Fail,
           clientVars, netVars, srvVars
<1>2. \A x \in Sessions : registered'[x] => registered[x]
    <2>1. CASE Disconnect(s) \/ Quit(s)
        BY <2>1 DEF Disconnect, Quit, CloseClient, TypeInv, TypeOK
    <2>2. CASE ~(Disconnect(s) \/ Quit(s))
        <3>1. registered' = registered
            BY <2>2 DEF Call, Connect, Send, Expect, RecvAll, Register, CapLs,
                        Whois, CapReq, Join, StartHelper, StartReader, Fail,
                        clientVars
        <3>. QED
            BY <3>1
    <2>. QED
        BY <2>1, <2>2
<1>. QED
    BY <1>1, <1>2, WelcomeFrame

\* Reading a line sets _registered only when the line is a welcome.
LEMMA StepWelcome ==
    ASSUME TypeInv, WelcomeSent, NEW s \in Sessions, Step(s)
    PROVE  WelcomeSent'
<1>1. srvReg' = srvReg
    BY DEF Step, RecvLine, RecvPingClosed, RecvNone, srvVars, clientVars
<1>2. CASE RecvLine(s)
    <2> DEFINE m == Head(inq[s])
    <2>1. inq[s] \in Seq(SrvMsg) /\ inq[s] # <<>>
        BY <1>2 DEF RecvLine, TypeInv, TypeOK
    <2>2. inq' = [inq EXCEPT ![s] = Tail(inq[s])]
        BY <1>2 DEF RecvLine
    <2>3. \A x \in Sessions : Has001(inq'[x]) => Has001(inq[x])
        BY <2>1, <2>2, Has001Tail DEF TypeInv, TypeOK
    <2>4. registered' = registered
          \/ (m.cmd = "001" /\ registered' = [registered EXCEPT ![s] = TRUE])
        BY <1>2 DEF RecvLine, ExpectGot, RegisterGot, JoinGot, CapReqGot,
                    CapLsGot, WhoisGot, RecvAllGot, KeepFlags
    <2>5. \A x \in Sessions : registered'[x] => registered[x] \/ Has001(inq[x])
        BY <2>1, <2>4, Has001Head DEF TypeInv, TypeOK
    <2>. QED
        BY <1>1, <2>3, <2>5, WelcomeFrame
<1>3. CASE RecvPingClosed(s)
    <2>1. inq[s] \in Seq(SrvMsg) /\ inq[s] # <<>>
          /\ inq' = [inq EXCEPT ![s] = Tail(inq[s])] /\ registered' = registered
        BY <1>3 DEF RecvPingClosed, TypeInv, TypeOK, clientVars
    <2>2. \A x \in Sessions : Has001(inq'[x]) => Has001(inq[x])
        BY <2>1, Has001Tail DEF TypeInv, TypeOK
    <2>. QED
        BY <1>1, <2>1, <2>2, WelcomeFrame
<1>4. CASE RecvNone(s)
    BY <1>1, <1>4, WelcomeFrame DEF RecvNone, netVars
<1>. QED
    BY <1>2, <1>3, <1>4 DEF Step

\* Lines a server appends that are not welcomes.
NoWelcome(l) == l \in Seq(SrvMsg) /\ \A j \in 1..Len(l) : l[j].cmd # "001"

\* One or two lines other than welcomes.
LEMMA NoWelcome1 ==
    ASSUME NEW m \in SrvMsg, m.cmd # "001"
    PROVE  NoWelcome(<<m>>)
<1>1. <<m>> \in Seq(SrvMsg)
    OBVIOUS
<1>. QED
    BY <1>1 DEF NoWelcome

LEMMA NoWelcome2 ==
    ASSUME NEW m \in SrvMsg, NEW n \in SrvMsg, m.cmd # "001", n.cmd # "001"
    PROVE  NoWelcome(<<m, n>>)
<1>1. <<m, n>> \in Seq(SrvMsg)
    OBVIOUS
<1>. QED
    BY <1>1 DEF NoWelcome

\* A server that appends lines other than welcomes, or appends a welcome
\* while it registers the connection, keeps the invariant.
LEMMA DeliverWelcome ==
    ASSUME TypeInv, WelcomeSent, NEW s \in Sessions,
           registered' = registered,
           \/ srvReg' = srvReg /\ inq' = inq
           \/ srvReg' = srvReg /\ \E l \in Seq(SrvMsg) : NoWelcome(l) /\ Deliver(s, l)
           \/ srvReg' = [srvReg EXCEPT ![s] = TRUE] /\ Deliver(s, <<Plain("001")>>)
    PROVE  WelcomeSent'
<1>1. CASE srvReg' = srvReg /\ inq' = inq
    BY <1>1, WelcomeFrame
<1>2. CASE srvReg' = srvReg /\ \E l \in Seq(SrvMsg) : NoWelcome(l) /\ Deliver(s, l)
    <2>1. PICK l \in Seq(SrvMsg) : NoWelcome(l) /\ Deliver(s, l)
        BY <1>2
    <2>2. \A x \in Sessions : Has001(inq'[x]) => Has001(inq[x])
        BY <2>1, Has001Concat DEF Deliver, NoWelcome, TypeInv, TypeOK
    <2>. QED
        BY <1>2, <2>2, WelcomeFrame
<1>3. CASE srvReg' = [srvReg EXCEPT ![s] = TRUE] /\ Deliver(s, <<Plain("001")>>)
    <2>1. \A x \in Sessions : x # s => inq'[x] = inq[x]
        BY <1>3 DEF Deliver, TypeInv, TypeOK
    <2>2. srvReg'[s] /\ \A x \in Sessions : srvReg[x] => srvReg'[x]
        BY <1>3 DEF TypeInv, TypeOK
    <2>. QED
        BY <2>1, <2>2, WelcomeFrame
<1>. QED
    BY <1>1, <1>2, <1>3

\* The server answers NICK/USER with 001 only as it registers the
\* connection; all its other lines are not welcomes.
LEMMA ServerWelcome ==
    ASSUME TypeInv, WelcomeSent, NEW s \in Sessions, Server(s)
    PROVE  WelcomeSent'
<1>1. CASE SrvHandle(s)
    <2> DEFINE c == Head(outq[s])
    <2>1. c \in CliMsg
        BY <1>1 DEF SrvHandle, TypeInv, TypeOK
    <2>2. registered' = registered
        BY <1>1 DEF SrvHandle, clientVars
    <2>3. CASE SrvRegister(s, c)
        <3>1. <<Plain("433")>> \in Seq(SrvMsg) /\ NoWelcome(<<Plain("433")>>)
            BY DEF Plain, SrvMsg, PlainCmds, NoWelcome
        <3>. QED
            BY <2>2, <2>3, <3>1, DeliverWelcome DEF SrvRegister
    <2>4. CASE SrvCapLs(s, c)
        <3>1. \A more \in BOOLEAN, cs \in SUBSET Caps :
                 CapMsg("LS", more, cs) \in SrvMsg /\ CapMsg("LS", more, cs).cmd # "001"
            BY DEF CapMsg, SrvMsg
        <3>2. NoWelcome(<<CapMsg("LS", FALSE, ServerCaps)>>)
            <4>1. CapMsg("LS", FALSE, ServerCaps) \in SrvMsg
                  /\ CapMsg("LS", FALSE, ServerCaps).cmd # "001"
                BY <3>1, CapsAssumption
            <4>. QED
                BY <4>1, NoWelcome1
        <3>3. \A part \in SUBSET ServerCaps :
                 NoWelcome(<<CapMsg("LS", TRUE, part), CapMsg("LS", FALSE, ServerCaps \ part)>>)
            <4> TAKE part \in SUBSET ServerCaps
            <4>1. /\ CapMsg("LS", TRUE, part) \in SrvMsg
                  /\ CapMsg("LS", TRUE, part).cmd # "001"
                  /\ CapMsg("LS", FALSE, ServerCaps \ part) \in SrvMsg
                  /\ CapMsg("LS", FALSE, ServerCaps \ part).cmd # "001"
                BY <3>1, CapsAssumption
            <4>. QED
                BY <4>1, NoWelcome2
        <3>. QED
            BY <2>2, <2>4, <3>2, <3>3, DeliverWelcome DEF SrvCapLs, NoWelcome
    <2>5. CASE SrvCapReq(s, c)
        <3>1. c.caps \in SUBSET Caps
            BY <2>1, <2>5, CliMsgFields DEF SrvCapReq
        <3>2. \A sub \in {"ACK", "NAK"} : NoWelcome(<<CapMsg(sub, FALSE, c.caps)>>)
            BY <3>1 DEF NoWelcome, CapMsg, SrvMsg
        <3>. QED
            BY <2>2, <2>5, <3>2, DeliverWelcome DEF SrvCapReq, NoWelcome
    <2>6. CASE SrvOther(s, c)
        <3>1. c.cmd = "JOIN" => NoWelcome(<<JoinMsg(c.chan, TRUE)>>)
            BY <2>1, CliMsgFields DEF NoWelcome, JoinMsg, SrvMsg
        <3>2. /\ NoWelcome(<<Plain("311"), Plain("318")>>)
              /\ NoWelcome(<<Plain("401")>>)
            BY DEF NoWelcome, Plain, SrvMsg, PlainCmds
        <3>. QED
            BY <2>2, <2>6, <3>1, <3>2, DeliverWelcome DEF SrvOther, NoWelcome
    <2>. QED
        BY <1>1, <2>3, <2>4, <2>5, <2>6 DEF SrvHandle
<1>2. CASE SrvNoise(s)
    <2>1. \A m \in NoiseMsgs : m \in SrvMsg /\ m.cmd # "001"
        <3> TAKE m \in NoiseMsgs
        <3>1. CASE \E t \in Tokens : m = PingMsg(t)
            BY <3>1 DEF PingMsg, SrvMsg
        <3>2. CASE m = Plain("PRIVMSG")
            BY <3>2 DEF Plain, SrvMsg, PlainCmds
        <3>3. CASE \E c \in Chans : m = JoinMsg(c, FALSE)
            BY <3>3 DEF JoinMsg, SrvMsg
        <3>. QED
            BY <3>1, <3>2, <3>3 DEF NoiseMsgs
    <2>2. PICK m \in NoiseMsgs : Deliver(s, <<m>>)
        BY <1>2 DEF SrvNoise
    <2>3. registered' = registered /\ srvReg' = srvReg
        BY <1>2 DEF SrvNoise, clientVars
    <2>4. NoWelcome(<<m>>)
        BY <2>1, NoWelcome1
    <2>5. \E l \in Seq(SrvMsg) : NoWelcome(l) /\ Deliver(s, l)
        BY <2>2, <2>4 DEF NoWelcome
    <2>. QED
        BY <2>3, <2>5, DeliverWelcome
<1>3. CASE SrvClose(s)
    BY <1>3, DeliverWelcome DEF SrvClose, clientVars, srvVars
<1>. QED
    BY <1>1, <1>2, <1>3 DEF Server

LEMMA NextWelcome ==
    ASSUME TypeInv, WelcomeSent, [Next]_vars
    PROVE  WelcomeSent'
<1>1. CASE \E s \in Sessions : Call(s) \/ Step(s) \/ Server(s)
    BY <1>1, CallWelcome, StepWelcome, ServerWelcome
<1>2. CASE Tick \/ UNCHANGED vars
    BY <1>2, WelcomeFrame DEF Tick, vars, clientVars, netVars, srvVars
<1>. QED
    BY <1>1, <1>2 DEF Next

\* register() sets _registered only after the server really registered the
\* connection (sent 001): a 433, a late or foreign line never counts, and a
\* disconnect clears it.
THEOREM RegisteredOnlyAfterWelcomeHolds == Spec => []RegisteredOnlyAfterWelcome
<1>1. Init => TypeInv /\ WelcomeSent
    BY InitTypeInv DEF Init, WelcomeSent, Has001
<1>2. TypeInv /\ WelcomeSent /\ [Next]_vars => (TypeInv /\ WelcomeSent)'
    BY NextTypeInv, NextWelcome
<1>3. WelcomeSent => RegisteredOnlyAfterWelcome
    BY DEF WelcomeSent, RegisteredOnlyAfterWelcome
<1>. QED
    BY <1>1, <1>2, <1>3, PTL DEF Spec

-----------------------------------------------------------------------------
(* TimeoutError is raised only at the deadline.                            *)

\* A helper returns with an outcome other than a timeout.
Done(s) == \E r \in {"ok", "true", "false", "connerr"} : Finish(s, r)

\* The deadline check finds no time left and raises TimeoutError.
TimedOut(s) == left[s] = 0 /\ Finish(s, "timeout")

\* What one step of session s's task does to the task's variables: wait on,
\* possibly restarting the recv timeout of cap_ls and whois, or return.
StepCases(s) ==
    /\ spent' = spent
    /\ \/ op' = op /\ res' = res /\ left' = left
       \/ /\ op' = op /\ res' = res /\ op[s] \in {"capls", "whois"}
          /\ left' = [left EXCEPT ![s] = HelperTimeout]
       \/ (Done(s) \/ TimedOut(s)) /\ left' = left

LEMMA LoopCases ==
    ASSUME NEW s \in Sessions, Loop(s)
    PROVE  (op' = op /\ res' = res) \/ TimedOut(s)
BY DEF Loop, Stay, TimedOut

LEMMA HandlerCases ==
    ASSUME NEW s \in Sessions, NEW m,
           \/ ExpectGot(s, m) \/ RegisterGot(s, m) \/ JoinGot(s, m)
           \/ CapReqGot(s, m) \/ CapLsGot(s, m) \/ WhoisGot(s, m)
           \/ RecvAllGot(s, m),
           spent' = spent
    PROVE  StepCases(s)
<1>1. CASE ExpectGot(s, m) \/ RegisterGot(s, m) \/ JoinGot(s, m)
    BY <1>1, LoopCases DEF ExpectGot, RegisterGot, JoinGot, StepCases, Done
<1>2. CASE CapReqGot(s, m)
    BY <1>2, LoopCases DEF CapReqGot, StepCases, Done
<1>3. CASE CapLsGot(s, m)
    BY <1>3, LoopCases DEF CapLsGot, Stay, StepCases, Done
<1>4. CASE WhoisGot(s, m)
    BY <1>4 DEF WhoisGot, Stay, StepCases, Done
<1>5. CASE RecvAllGot(s, m)
    BY <1>5 DEF RecvAllGot, Stay, StepCases, Done
<1>. QED
    BY <1>1, <1>2, <1>3, <1>4, <1>5

LEMMA StepCasesHold ==
    ASSUME NEW s \in Sessions, Step(s)
    PROVE  StepCases(s)
<1>1. CASE RecvLine(s)
    BY <1>1, HandlerCases DEF RecvLine
<1>2. CASE RecvPingClosed(s)
    BY <1>2 DEF RecvPingClosed, StepCases, Done
<1>3. CASE RecvNone(s)
    BY <1>3, LoopCases DEF RecvNone, StepCases, Done
<1>. QED
    BY <1>1, <1>2, <1>3 DEF Step

\* A call of the test task starts from an idle task, and either leaves the
\* task's timers alone, changing only its own outcome, or begins a helper.
CallCases(s) ==
    /\ op[s] = "idle"
    /\ \/ /\ op' = op /\ left' = left /\ spent' = spent
          /\ \E r \in Results : res' = [res EXCEPT ![s] = r]
       \/ \E o \in Ops : \E p : Begin(s, o, p, TimeoutOf(o))

LEMMA FailCases ==
    ASSUME NEW s \in Sessions, Fail(s)
    PROVE  /\ op' = op /\ left' = left /\ spent' = spent
           /\ \E r \in Results : res' = [res EXCEPT ![s] = r]
BY DEF Fail, Results

LEMMA CallCasesHold ==
    ASSUME NEW s \in Sessions, Call(s)
    PROVE  CallCases(s)
<1>1. op[s] = "idle"
    BY DEF Call, Connect, Disconnect, Quit, Send, Expect, RecvAll, Register,
           CapLs, Whois, CapReq, Join, StartHelper, StartReader, CanCall
<1>2. CASE Connect(s) \/ Disconnect(s) \/ Quit(s) \/ \E m \in RawSends : Send(s, m)
    BY <1>1, <1>2, FailCases DEF Connect, Disconnect, Quit, Send, CallCases, Results
<1>3. ASSUME NEW lines, NEW o \in Ops, NEW p, StartHelper(s, lines, o, p)
      PROVE  CallCases(s)
    BY <1>1, <1>3, FailCases DEF StartHelper, CallCases
<1>4. ASSUME NEW o \in Ops, NEW p, StartReader(s, o, p)
      PROVE  CallCases(s)
    BY <1>1, <1>4, FailCases DEF StartReader, CallCases
<1>. QED
    BY <1>2, <1>3, <1>4 DEF Call, Expect, RecvAll, Register, CapLs, Whois,
                            CapReq, Join, Ops

\* The invariant behind TimeoutOnlyAtDeadline.
TInv == TypeInv /\ DeadlineFixed /\ OpenOutcome /\ DeadlineAtLeast

LEMMA InitTInv == Init => TInv
<1>1. Init => OpenOutcome /\ DeadlineAtLeast
    BY DEF Init, OpenOutcome, DeadlineAtLeast, Waiting
<1>. QED
    BY <1>1, InitDInv DEF TInv, DInv

LEMMA CallTInv ==
    ASSUME TypeInv, OpenOutcome, DeadlineAtLeast, NEW s \in Sessions, Call(s)
    PROVE  (OpenOutcome /\ DeadlineAtLeast)'
<1>1. CallCases(s)
    BY CallCasesHold
<1>2. CASE /\ op' = op /\ left' = left /\ spent' = spent
           /\ \E r \in Results : res' = [res EXCEPT ![s] = r]
    BY <1>1, <1>2 DEF OpenOutcome, DeadlineAtLeast, Waiting, CallCases, TypeInv, TypeOK
<1>3. ASSUME NEW o \in Ops, NEW p, Begin(s, o, p, TimeoutOf(o))
      PROVE  (OpenOutcome /\ DeadlineAtLeast)'
    <2>1. TimeoutOf(o) \in Nat
        BY DEF TimeoutOf
    <2>2. OpenOutcome'
        BY <1>3 DEF Begin, OpenOutcome, Waiting, TypeInv, TypeOK
    <2>3. ASSUME NEW x \in Sessions, op'[x] \in {"capls", "whois"}
          PROVE  spent'[x] + left'[x] >= TimeoutOf(op'[x])
        <3>1. CASE x = s
            BY <1>3, <2>1, <3>1 DEF Begin, TypeInv, TypeOK
        <3>2. CASE x # s
            BY <1>3, <2>3, <3>2 DEF Begin, DeadlineAtLeast, TypeInv, TypeOK
        <3>. QED
            BY <3>1, <3>2
    <2>. QED
        BY <2>2, <2>3 DEF DeadlineAtLeast
<1>. QED
    BY <1>1, <1>2, <1>3 DEF CallCases

LEMMA StepTInv ==
    ASSUME TypeInv, OpenOutcome, DeadlineAtLeast, NEW s \in Sessions, Step(s)
    PROVE  (OpenOutcome /\ DeadlineAtLeast)'
<1>1. StepCases(s)
    BY StepCasesHold
<1>2. CASE op' = op /\ res' = res /\ left' = left /\ spent' = spent
    BY <1>2 DEF OpenOutcome, DeadlineAtLeast, Waiting
<1>3. CASE /\ op' = op /\ res' = res /\ op[s] \in {"capls", "whois"}
           /\ left' = [left EXCEPT ![s] = HelperTimeout] /\ spent' = spent
    <2>1. TimeoutOf(op[s]) = HelperTimeout /\ spent[s] \in Nat
        BY <1>3 DEF TimeoutOf, TypeInv, TypeOK
    <2>2. OpenOutcome'
        BY <1>3 DEF OpenOutcome, Waiting
    <2>3. ASSUME NEW x \in Sessions, op'[x] \in {"capls", "whois"}
          PROVE  spent'[x] + left'[x] >= TimeoutOf(op'[x])
        <3>1. CASE x = s
            BY <1>3, <2>1, <3>1 DEF TypeInv, TypeOK
        <3>2. CASE x # s
            BY <1>3, <2>3, <3>2 DEF DeadlineAtLeast, TypeInv, TypeOK
        <3>. QED
            BY <3>1, <3>2
    <2>. QED
        BY <2>2, <2>3 DEF DeadlineAtLeast
<1>4. CASE (Done(s) \/ TimedOut(s)) /\ left' = left /\ spent' = spent
    <2>1. PICK r \in Results : Finish(s, r)
        BY <1>4 DEF Done, TimedOut, Results
    <2>. QED
        BY <1>4, <2>1 DEF Finish, OpenOutcome, DeadlineAtLeast, Waiting, TypeInv, TypeOK
<1>. QED
    BY <1>1, <1>2, <1>3, <1>4 DEF StepCases

LEMMA NextTInv == TInv /\ [Next]_vars => TInv'
<1> SUFFICES ASSUME TInv, [Next]_vars PROVE TInv'
    OBVIOUS
<1>1. (TypeInv /\ DeadlineFixed)'
    BY NextDInv DEF TInv, DInv
<1>2. CASE \E s \in Sessions : Call(s) \/ Step(s)
    BY <1>1, <1>2, CallTInv, StepTInv DEF TInv
<1>3. CASE (\E s \in Sessions : Server(s)) \/ UNCHANGED vars
    <2>1. UNCHANGED <<op, res, left, spent>>
        BY <1>3 DEF Server, SrvHandle, SrvNoise, SrvClose, vars, taskVars
    <2>. QED
        BY <1>1, <2>1 DEF TInv, OpenOutcome, DeadlineAtLeast, Waiting
<1>4. CASE Tick
    <2>1. op' = op /\ res' = res
        BY <1>4 DEF Tick
    <2>2. \A x \in Sessions : spent'[x] + left'[x] = spent[x] + left[x]
        BY <1>4 DEF Tick, TInv, TypeInv, TypeOK
    <2>. QED
        BY <1>1, <2>1, <2>2 DEF TInv, OpenOutcome, DeadlineAtLeast, Waiting
<1>. QED
    BY <1>2, <1>3, <1>4 DEF Next

\* A waiting helper's outcome becomes "timeout" only by its own deadline
\* check finding no time left.
LEMMA TimeoutOnlyFromLoop ==
    ASSUME TInv, [Next]_vars, NEW s \in Sessions, Waiting(s), res'[s] = "timeout"
    PROVE  left[s] = 0
<1>1. res[s] = "none"
    BY DEF TInv, OpenOutcome
<1>2. CASE \E x \in Sessions : Call(x)
    <2>1. PICK x \in Sessions : CallCases(x)
        BY <1>2, CallCasesHold
    <2>2. x # s
        BY <2>1 DEF CallCases, Waiting
    <2>3. res'[s] = res[s] \/ res'[s] = "none"
        BY <2>1, <2>2 DEF CallCases, Begin, TInv, TypeInv, TypeOK
    <2>. QED
        BY <1>1, <2>3
<1>3. CASE \E x \in Sessions : Step(x)
    <2>1. PICK x \in Sessions : StepCases(x)
        BY <1>3, StepCasesHold
    <2>2. CASE x # s
        <3>1. res'[s] = res[s]
            BY <2>1, <2>2 DEF StepCases, Done, TimedOut, Finish, TInv, TypeInv, TypeOK
        <3>. QED
            BY <1>1, <3>1
    <2>3. CASE x = s
        <3>1. CASE res' = res
            BY <1>1, <3>1
        <3>2. CASE Done(s)
            BY <3>2 DEF Done, Finish, TInv, TypeInv, TypeOK
        <3>3. CASE TimedOut(s)
            BY <3>3 DEF TimedOut
        <3>. QED
            BY <2>1, <2>3, <3>1, <3>2, <3>3 DEF StepCases
    <2>. QED
        BY <2>2, <2>3
<1>4. CASE (\E x \in Sessions : Server(x)) \/ Tick \/ UNCHANGED vars
    <2>1. res' = res
        BY <1>4 DEF Server, SrvHandle, SrvNoise, SrvClose, Tick, vars, taskVars
    <2>. QED
        BY <1>1, <2>1
<1>. QED
    BY <1>2, <1>3, <1>4 DEF Next

\* Under the invariant, no step raises TimeoutError before the call's
\* whole timeout has elapsed.
LEMMA TimeoutStep ==
    ASSUME TInv, [Next]_vars
    PROVE  \A s \in Sessions :
              (Waiting(s) /\ res'[s] = "timeout") => spent[s] >= TimeoutOf(op[s])
<1> SUFFICES ASSUME NEW s \in Sessions, Waiting(s), res'[s] = "timeout"
             PROVE  spent[s] >= TimeoutOf(op[s])
    OBVIOUS
<1>1. left[s] = 0
    BY TimeoutOnlyFromLoop
<1>2. op[s] \in DeadlineOps \/ op[s] \in {"capls", "whois"}
    BY DEF TInv, TypeInv, TypeOK, Waiting, Ops, DeadlineOps
<1>. QED
    BY <1>1, <1>2 DEF TInv, DeadlineFixed, DeadlineAtLeast, TypeInv, TypeOK

\* TimeoutError is raised only once the call's whole timeout has elapsed:
\* never early, neither at end of stream (recv() returning None at once)
\* nor for cap_ls and whois, whose recv timeout restarts after a line.
THEOREM TimeoutOnlyAtDeadlineHolds == Spec => TimeoutOnlyAtDeadline
<1>1. TInv /\ [Next]_vars =>
        [\A s \in Sessions :
            (Waiting(s) /\ res'[s] = "timeout") => spent[s] >= TimeoutOf(op[s])]_vars
    BY TimeoutStep
<1>. QED
    BY <1>1, InitTInv, NextTInv, PTL DEF Spec, TimeoutOnlyAtDeadline

=============================================================================

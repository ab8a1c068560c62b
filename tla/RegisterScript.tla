--------------------------- MODULE RegisterScript ---------------------------
(***************************************************************************)
(* register_via_nickserv.py: connect to 127.0.0.1:6667, register the       *)
(* connection as testuser, ask NickServ to REGISTER the account, and print *)
(* SUCCESS when a line of the second read mentions "registered".           *)
(*                                                                         *)
(* A server line is abstracted to its kind.  Time is abstracted to the     *)
(* order of the script's reads and the server's writes: recv_lines() takes *)
(* what has arrived by the end of its 2 s quiet window, so a line the      *)
(* server writes later is left for the next read or never read.  The       *)
(* server is not part of this repository; it is an environment that        *)
(* answers as an IRC server with NickServ does.                            *)
(***************************************************************************)
EXTENDS Sequences

VARIABLES
    listening,  \* a server listens on 6667 (input)
    nickTaken,  \* another connection already uses the nick testuser (input)
    accountOld, \* the account testuser exists already (input)
    pc,         \* the script's position
    toSrv,      \* lines sent, not yet handled by the server
    toCli,      \* lines written by the server, not yet read
    eof,        \* the server has closed the connection
    srvReg,     \* the server has registered the connection
    created,    \* NickServ has created the account for this script
    lines,      \* what the second recv_lines() returned
    verdict     \* what the script printed: "none", "success" or "check"

inputs == <<listening, nickTaken, accountOld>>
srvVars == <<toSrv, toCli, eof, srvReg, created>>
vars == <<inputs, pc, srvVars, lines, verdict>>

\* Server lines, by what the script's test can see of them.
\*   welcome   001 RPL_WELCOME
\*   nickInUse 433 ERR_NICKNAMEINUSE
\*   notReg    451 ERR_NOTREGISTERED ":You have not registered"
\*   nsDone    NickServ: the account has been registered
\*   nsTaken   NickServ: the nick is already registered
\*   nsOther   any other NickServ notice
Kinds == {"welcome", "nickInUse", "notReg", "nsDone", "nsTaken", "nsOther"}

\* The lines whose lower-cased text contains "registered" (line 46).
MentionsRegistered == {"notReg", "nsDone", "nsTaken"}

\* Types.
TypeOK ==
    /\ listening \in BOOLEAN /\ nickTaken \in BOOLEAN /\ accountOld \in BOOLEAN
    /\ pc \in {"connect", "sendReg", "read1", "sendNs", "read2", "done", "crashed"}
    /\ toSrv \in Seq({"nickuser", "nsregister"})
    /\ toCli \in Seq(Kinds)
    /\ eof \in BOOLEAN /\ srvReg \in BOOLEAN /\ created \in BOOLEAN
    /\ lines \in Seq(Kinds)
    /\ verdict \in {"none", "success", "check"}

Init ==
    /\ listening \in BOOLEAN /\ nickTaken \in BOOLEAN /\ accountOld \in BOOLEAN
    /\ pc = "connect"
    /\ toSrv = <<>> /\ toCli = <<>>
    /\ eof = FALSE /\ srvReg = FALSE /\ created = FALSE
    /\ lines = <<>> /\ verdict = "none"

-----------------------------------------------------------------------------
(* The script.                                                             *)

\* sock.connect(): refused when nothing listens, which ends the script.
Connect ==
    /\ pc = "connect"
    /\ pc' = IF listening THEN "sendReg" ELSE "crashed"
    /\ UNCHANGED <<inputs, srvVars, lines, verdict>>

\* send_line() with sock.sendall(): once the server has closed the
\* connection, the write may still be buffered or may raise.
SendLine(l, nextPc) ==
    \/ /\ toSrv' = Append(toSrv, l)
       /\ pc' = nextPc
    \/ /\ eof
       /\ pc' = "crashed" /\ UNCHANGED toSrv

\* NICK testuser, USER test 0 * :Test User, then time.sleep(1).
SendRegistration ==
    /\ pc = "sendReg"
    /\ SendLine("nickuser", "read1")
    /\ UNCHANGED <<inputs, toCli, eof, srvReg, created, lines, verdict>>

\* recv_lines(): sock.recv() until EOF or 2 s without data.  Either way it
\* returns what arrived; the first read's lines are only printed.
Read1 ==
    /\ pc = "read1"
    /\ toCli' = <<>> /\ pc' = "sendNs"
    /\ UNCHANGED <<inputs, toSrv, eof, srvReg, created, lines, verdict>>

\* PRIVMSG NickServ :REGISTER testpass testuser@example.com, time.sleep(1).
SendRegister ==
    /\ pc = "sendNs"
    /\ SendLine("nsregister", "read2")
    /\ UNCHANGED <<inputs, toCli, eof, srvReg, created, lines, verdict>>

\* The second recv_lines(), the test of line 46 on what it returned, and
\* sock.close().
Read2 ==
    /\ pc = "read2"
    /\ lines' = toCli /\ toCli' = <<>>
    /\ verdict' = IF \E k \in DOMAIN toCli : toCli[k] \in MentionsRegistered
                     THEN "success" ELSE "check"
    /\ pc' = "done"
    /\ UNCHANGED <<inputs, toSrv, eof, srvReg, created>>

Script == Connect \/ SendRegistration \/ Read1 \/ SendRegister \/ Read2

-----------------------------------------------------------------------------
(* The server, in the order it reads the script's lines.                   *)

\* NICK/USER: 001 when the nick is free, 433 when another client holds it;
\* a registered nick also draws a NickServ notice.
SrvRegistration ==
    /\ ~eof /\ toSrv # <<>> /\ Head(toSrv) = "nickuser"
    /\ toSrv' = Tail(toSrv)
    /\ IF nickTaken
          THEN toCli' = Append(toCli, "nickInUse") /\ UNCHANGED srvReg
          ELSE /\ srvReg' = TRUE
               /\ toCli' = toCli \o (IF accountOld THEN <<"welcome", "nsOther">>
                                                   ELSE <<"welcome">>)
    /\ UNCHANGED <<inputs, pc, eof, created, lines, verdict>>

\* PRIVMSG NickServ REGISTER: 451 before registration, otherwise NickServ
\* either creates the account or says the nick is taken.
SrvNickServ ==
    /\ ~eof /\ toSrv # <<>> /\ Head(toSrv) = "nsregister"
    /\ toSrv' = Tail(toSrv)
    /\ CASE ~srvReg    -> toCli' = Append(toCli, "notReg") /\ UNCHANGED created
         [] accountOld -> toCli' = Append(toCli, "nsTaken") /\ UNCHANGED created
         [] OTHER      -> toCli' = Append(toCli, "nsDone") /\ created' = TRUE
    /\ UNCHANGED <<inputs, pc, eof, srvReg, lines, verdict>>

\* The server drops the connection.
SrvClose ==
    /\ ~eof /\ listening
    /\ eof' = TRUE
    /\ UNCHANGED <<inputs, pc, toSrv, toCli, srvReg, created, lines, verdict>>

Server == SrvRegistration \/ SrvNickServ \/ SrvClose

Next == Script \/ Server

Spec == Init /\ [][Next]_vars

-----------------------------------------------------------------------------
(* Properties.                                                             *)

\* The script prints SUCCESS only when NickServ registered the account for
\* it (the print says "Account registered!").
SuccessOnlyIfRegistered == verdict = "success" => created

====

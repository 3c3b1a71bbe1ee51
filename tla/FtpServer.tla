----------------------------- MODULE FtpServer -----------------------------
(***************************************************************************)
(* The FTP server the client of Work2 talks to, and the two connections,   *)
(* as far as the client can tell: not part of the repository.  A reply is  *)
(* a line of three parts: the code, the text the client looks for (with an *)
(* underscore for a space) and the rest.  A connection is a sequence of    *)
(* such parts; TCP keeps their order and says nothing about how many of    *)
(* them one recv returns.                                                  *)
(***************************************************************************)
EXTENDS Integers, Sequences

CONSTANTS
  File,          \* the file asked for, a sequence of parts
  Refusals,      \* replies by which the server may refuse RETR
  Greetings,     \* the replies to a connection, each a sequence of lines
  PassReplies,   \* the replies to a password
  Faults         \* what may go wrong: "abort" the transfer, "close" the session, "open"

ASSUME ServerAssumption ==
  /\ File \in Seq(STRING)
  /\ Refusals \subseteq {"550_Failed_to_open_file", "550_Permission_denied"}
  /\ Greetings \subseteq { <<"220">>, <<"220-", "220">> }
  /\ PassReplies \subseteq { <<"230">>, <<"230-", "230">>, <<"530_Login_incorrect">> }
  /\ Faults \subseteq {"abort", "close", "open"}

VARIABLES
  commands,   \* commands under way to the server
  replies,    \* parts of replies under way to the client
  session,    \* how far the login has come
  data,       \* the data connection
  parts,      \* parts of the file under way
  transfer    \* what became of the file

server == << commands, replies, session, data, parts, transfer >>

Lines == {"220-", "220", "530_Please_login", "331", "230-", "230", "530_Login_incorrect", "227",
          "150", "226", "426", "550_Failed_to_open_file", "550_Permission_denied", "221"}

Commands == {"hello", "user", "pass", "pasv", "RETR", "quit"}

Parts == [line : Lines, part : {"code", "text", "end"}]

ServerTypeOK ==
  /\ commands \in Seq(Commands)
  /\ replies \in Seq(Parts)
  /\ session \in {"none", "new", "ready", "user", "in", "closed"}
  /\ data \in {"none", "listening", "connected", "eof", "reset"}
  /\ parts \in Seq(STRING)
  /\ transfer \in [sent : 0 .. Len(File), state : {"none", "sending", "complete", "refused", "aborted"}]

Line(l) == << [line |-> l, part |-> "code"], [line |-> l, part |-> "text"], [line |-> l, part |-> "end"] >>

\* The command a line answers; 220 answers the connect.
AnswerTo(l) ==
  CASE l \in {"220-", "220"} -> "connect"
    [] l = "530_Please_login" -> "hello"
    [] l = "331" -> "user"
    [] l \in {"230-", "230", "530_Login_incorrect"} -> "pass"
    [] l = "227" -> "pasv"
    [] l = "221" -> "quit"
    [] OTHER -> "RETR"

ServerInit ==
  /\ commands = << >> /\ replies = << >> /\ session = "none"
  /\ data = "none" /\ parts = << >>
  /\ transfer = [sent |-> 0, state |-> "none"]

Say(l) == replies' = replies \o Line(l)
SayLines(ls) ==
  replies' = replies \o IF Len(ls) = 1 THEN Line(ls[1]) ELSE Line(ls[1]) \o Line(ls[2])

Greet ==
  /\ session = "new" /\ session' = "ready"
  /\ \E ls \in Greetings : SayLines(ls)
  /\ UNCHANGED << commands, data, parts, transfer >>

\* The next command has arrived, and it is c.
Obey(c) ==
  /\ session \in {"ready", "user", "in"}
  /\ commands # << >> /\ Head(commands) = c
  /\ commands' = Tail(commands)

OnHello ==
  /\ Obey("hello") /\ Say("530_Please_login")
  /\ UNCHANGED << session, data, parts, transfer >>

OnUser ==
  /\ Obey("user") /\ Say("331") /\ session' = "user"
  /\ UNCHANGED << data, parts, transfer >>

OnPass ==
  /\ Obey("pass")
  /\ \E ls \in PassReplies :
       /\ SayLines(ls)
       /\ session' = IF ls[Len(ls)] = "230" THEN "in" ELSE "ready"
  /\ UNCHANGED << data, parts, transfer >>

OnPasv ==
  /\ Obey("pasv")
  /\ IF session = "in" THEN Say("227") /\ data' = "listening"
                       ELSE Say("530_Please_login") /\ UNCHANGED data
  /\ UNCHANGED << session, parts, transfer >>

OnRetr ==
  /\ Obey("RETR") /\ data = "connected"
  /\ \/ Say("150") /\ transfer' = [transfer EXCEPT !.state = "sending"] /\ UNCHANGED data
     \/ \E r \in Refusals : Say(r) /\ data' \in {"eof", "reset"}
                              /\ transfer' = [transfer EXCEPT !.state = "refused"]
  /\ UNCHANGED << session, parts >>

OnQuit ==
  /\ Obey("quit") /\ Say("221") /\ session' = "closed"
  /\ UNCHANGED << data, parts, transfer >>

SendPart ==
  /\ transfer.state = "sending" /\ transfer.sent < Len(File)
  /\ parts' = Append(parts, File[transfer.sent + 1])
  /\ transfer' = [transfer EXCEPT !.sent = @ + 1]
  /\ UNCHANGED << commands, replies, session, data >>

SendEnd ==
  /\ transfer.state = "sending" /\ transfer.sent = Len(File)
  /\ data' = "eof" /\ Say("226")
  /\ transfer' = [transfer EXCEPT !.state = "complete"]
  /\ UNCHANGED << commands, session, parts >>

\* The transfer breaks off; a reset may lose what was under way.
Abort ==
  /\ "abort" \in Faults /\ transfer.state = "sending"
  /\ \/ data' = "eof" /\ UNCHANGED parts
     \/ data' = "reset" /\ \E n \in 0 .. Len(parts) : parts' = SubSeq(parts, 1, n)
  /\ Say("426")
  /\ transfer' = [transfer EXCEPT !.state = "aborted"]
  /\ UNCHANGED << commands, session >>

\* The server ends an idle session.
Close ==
  /\ "close" \in Faults /\ session \notin {"none", "closed"} /\ transfer.state # "sending"
  /\ session' = "closed"
  /\ data' = IF data = "listening" THEN "none" ELSE IF data = "connected" THEN "eof" ELSE data
  /\ UNCHANGED << commands, replies, parts, transfer >>

\* What the server does in any case, and what may happen to it.
Serve ==
  \/ Greet \/ OnHello \/ OnUser \/ OnPass \/ OnPasv \/ OnRetr \/ OnQuit \/ SendPart \/ SendEnd

ServerNext == Serve \/ Abort \/ Close

=============================================================================

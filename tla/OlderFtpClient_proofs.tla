----------------------- MODULE OlderFtpClient_proofs -----------------------
(***************************************************************************)
(* The earlier client looks at no reply to user and pass: that it asks for *)
(* the file only when logged in rests on the order of its commands alone,  *)
(* and on what the server says with 227.                                   *)
(***************************************************************************)
EXTENDS OlderFtpClient, FtpClient_proofs

\* The place of a command in a session.
Rank(c) ==
  CASE c = "hello" -> 0 [] c = "user" -> 1 [] c = "pass" -> 2
    [] c = "pasv"  -> 3 [] c = "RETR" -> 4 [] OTHER      -> 5

\* Nothing is under way that a client does not send, or a server.
OlderTypes == ServerTypeOK /\ command \in Commands

\* Each command is sent once, in this order.
Ordered ==
  /\ \A i, j \in 1 .. Len(commands) : i < j => Rank(commands[i]) < Rank(commands[j])
  /\ \A i \in 1 .. Len(commands) : Rank(commands[i]) <= Rank(command)
  /\ pc \in {"start", "write"} => \A i \in 1 .. Len(commands) : Rank(commands[i]) < Rank(command)

\* No user or pass is to come that would end the login of a client.
LoginLasts ==
  session = "in" => /\ Rank(command) >= 2
                    /\ pc \in {"start", "write"} => Rank(command) > 2
                    /\ \A i \in 1 .. Len(commands) : Rank(commands[i]) > 2

\* What 227 says, and what connect and RETR rest on.
AddressFits ==
  /\ "227" \in LinesUnderWay => session = "in" /\ (Rank(command) <= 3 => data = "listening")
  /\ pc = "connect" => command = "pasv" /\ session = "in" /\ data = "listening"
  /\ pc = "receive" => command = "RETR"
  /\ command = "RETR" => session = "in"

\* Once the server has obeyed RETR, neither it nor a pasv is to come.
RetrLast ==
  transfer.state # "none" => /\ Rank(command) >= 4
                             /\ pc \in {"start", "write"} => Rank(command) > 4
                             /\ \A i \in 1 .. Len(commands) : Rank(commands[i]) > 4

InTurn == session = "closed" \/ (Ordered /\ LoginLasts /\ RetrLast /\ AddressFits)

OlderIInv == OlderTypes /\ NotConnected /\ InTurn

-----------------------------------------------------------------------------
\* The commands have these places.
LEMMA Ranks ==
  /\ Rank("hello") = 0 /\ Rank("user") = 1 /\ Rank("pass") = 2
  /\ Rank("pasv") = 3 /\ Rank("RETR") = 4 /\ Rank("quit") = 5
  /\ \A c \in Commands : Rank(c) \in 0 .. 5
  BY DEF Rank, Commands

\* Nothing is under way at first.
LEMMA OlderInit == Init => OlderIInv
<1> SUFFICES ASSUME Init PROVE OlderIInv
  OBVIOUS
<1>1. LinesUnderWay = {}
  BY DEF Init, ServerInit, LinesUnderWay, LinesOf
<1>2. ServerTypeOK /\ "hello" \in Commands
  BY TypeInit DEF TypeOK, Commands
<1>3. commands = << >> /\ replies = << >> /\ session = "none" /\ pc = "start"
      /\ command = "hello" /\ transfer.state = "none"
  BY DEF Init, ServerInit
<1> QED
  BY <1>1, <1>2, <1>3 DEF OlderIInv, OlderTypes, NotConnected, InTurn, Ordered, LoginLasts, RetrLast, AddressFits

\* The server takes the first command; the others stay in their order.
LEMMA ObeyTakes ==
  ASSUME OlderTypes, Ordered, NEW c, Obey(c)
  PROVE  /\ commands' \in Seq(Commands) /\ c \in Commands
         /\ Rank(c) <= Rank(command) /\ (pc \in {"start", "write"} => Rank(c) < Rank(command))
         /\ Len(commands') \in Nat
         /\ \A i \in 1 .. Len(commands') : Rank(commands'[i]) > Rank(c)
         /\ \A i, j \in 1 .. Len(commands') : i < j => Rank(commands'[i]) < Rank(commands'[j])
         /\ \A i \in 1 .. Len(commands') :
              \E j \in 1 .. Len(commands) : commands'[i] = commands[j]
<1>1. commands \in Seq(Commands) /\ commands # << >> /\ c = commands[1] /\ commands' = Tail(commands)
  BY DEF OlderTypes, ServerTypeOK, Obey
<1>2. /\ commands' \in Seq(Commands) /\ Len(commands) \in Nat \ {0}
      /\ Len(commands') = Len(commands) - 1
      /\ \A i \in 1 .. Len(commands') : commands'[i] = commands[i + 1]
  BY <1>1, HeadTailProperties, LenProperties, EmptySeq
<1>3. \A i \in 1 .. Len(commands) : commands[i] \in Commands
  BY <1>1, ElementOfSeq
<1>4. c \in Commands /\ Rank(c) <= Rank(command) /\ (pc \in {"start", "write"} => Rank(c) < Rank(command))
  <2>1. 1 \in 1 .. Len(commands)
    BY <1>2
  <2> QED
    BY <1>1, <1>3, <2>1 DEF Ordered
<1>5. ASSUME NEW i \in 1 .. Len(commands') PROVE i + 1 \in 1 .. Len(commands) /\ 1 < i + 1
  BY <1>2, <1>5
<1>6. ASSUME NEW i \in 1 .. Len(commands') PROVE Rank(commands'[i]) > Rank(c)
  <2>1. Rank(commands[1]) < Rank(commands[i + 1])
    BY <1>2, <1>5 DEF Ordered
  <2>2. Rank(c) \in Int /\ Rank(commands[i + 1]) \in Int
    BY <1>3, <1>4, <1>5, Ranks
  <2> QED
    BY <1>1, <1>2, <2>1, <2>2
<1>7. ASSUME NEW i \in 1 .. Len(commands'), NEW j \in 1 .. Len(commands'), i < j
      PROVE  Rank(commands'[i]) < Rank(commands'[j])
  <2>1. i + 1 < j + 1
    BY <1>2, <1>7
  <2> QED
    BY <1>2, <1>5, <2>1 DEF Ordered
<1> QED
  BY <1>2, <1>4, <1>5, <1>6, <1>7

-----------------------------------------------------------------------------
\* What the server says adds no 227, unless it is one.
LEMMA SayOther ==
  ASSUME replies \in Seq(Parts), NEW l, Say(l),
         l \in {"530_Please_login", "331", "227", "150", "221", "226", "426"} \cup Refusals
  PROVE  "227" \in LinesUnderWay' => "227" \in LinesUnderWay \/ l = "227"
<1>1. l \in Lines
  BY ServerAssumption DEF ServerAssumption, Lines
<1> QED
  BY <1>1, SayAdds DEF LinesUnderWay

\* Nor does a greeting or the answer to a password, of one line or of two.
LEMMA SayLinesOther ==
  ASSUME replies \in Seq(Parts), NEW ls \in Greetings \cup PassReplies, SayLines(ls)
  PROVE  "227" \in LinesUnderWay' => "227" \in LinesUnderWay
<1>1. ls \in {<<"220">>, <<"220-", "220">>, <<"230">>, <<"230-", "230">>, <<"530_Login_incorrect">>}
  BY ServerAssumption DEF ServerAssumption
<1>2. ls[1] # "227" /\ ls[Len(ls)] # "227"
  <2>1. ASSUME NEW l, ls = <<l>> PROVE ls[1] = l /\ ls[Len(ls)] = l
    BY <2>1
  <2>2. ASSUME NEW l, NEW m, ls = <<l, m>> PROVE ls[1] = l /\ ls[Len(ls)] = m
    BY <2>2
  <2>3. CASE ls = <<"220">> \/ ls = <<"230">> \/ ls = <<"530_Login_incorrect">>
    BY <2>1, <2>3
  <2>4. CASE ls = <<"220-", "220">> \/ ls = <<"230-", "230">>
    BY <2>2, <2>4
  <2> QED
    BY <1>1, <2>3, <2>4
<1> QED
  BY <1>2, SayLinesAdds DEF LinesUnderWay

(***************************************************************************)
(* The server keeps the order, the login and what 227 says.                *)
(***************************************************************************)
LEMMA OlderServerKeeps ==
  ASSUME OlderIInv, ServerNext, UNCHANGED client, session' # "closed"
  PROVE  Ordered' /\ LoginLasts' /\ RetrLast' /\ AddressFits'
<1>1. session # "closed"
  BY DEF ServerNext, Serve, Greet, OnHello, OnUser, OnPass, OnPasv, OnRetr, OnQuit, Obey, SendPart,
         SendEnd, Abort, Close
<1>2. /\ Ordered /\ LoginLasts /\ RetrLast /\ AddressFits /\ OlderTypes
      /\ replies \in Seq(Parts) /\ UNCHANGED << pc, command >>
      /\ command \in Commands /\ Rank(command) \in 0 .. 5
  BY <1>1, Ranks DEF OlderIInv, InTurn, client, OlderTypes, ServerTypeOK
\* The steps that leave the commands alone.
<1>3. ASSUME UNCHANGED commands, session' = "in" => session = "in",
             session = "in" => session' = "in",
             "227" \in LinesUnderWay' => "227" \in LinesUnderWay,
             data' = data \/ transfer.state = "sending",
             transfer'.state # "none" => transfer.state # "none"
      PROVE  Ordered' /\ LoginLasts' /\ RetrLast' /\ AddressFits'
  <2>1. Ordered' /\ LoginLasts' /\ RetrLast'
    BY <1>2, <1>3 DEF Ordered, LoginLasts, RetrLast
  <2>2. AddressFits'
    BY <1>2, <1>3, Ranks DEF AddressFits, RetrLast
  <2> QED
    BY <2>1, <2>2
<1>4. CASE Greet
  BY <1>2, <1>3, <1>4, SayLinesOther DEF Greet
<1>5. CASE SendPart
  <2>1. transfer'.state = transfer.state
    BY <1>2, <1>5 DEF SendPart, OlderTypes, ServerTypeOK
  <2> QED
    BY <1>2, <1>3, <1>5, <2>1 DEF SendPart, LinesUnderWay
<1>6. CASE SendEnd
  <2>1. transfer.state = "sending"
    BY <1>6 DEF SendEnd
  <2> QED
    BY <1>2, <1>3, <1>6, <2>1, SayOther DEF SendEnd
<1>7. CASE Abort
  <2>1. transfer.state = "sending"
    BY <1>7 DEF Abort
  <2> QED
    BY <1>2, <1>3, <1>7, <2>1, SayOther DEF Abort
\* The steps that obey a command.
<1>8. ASSUME NEW c, Obey(c)
      PROVE  /\ Ordered' /\ c \in Commands
             /\ Rank(c) <= Rank(command)
             /\ pc \in {"start", "write"} => Rank(c) < Rank(command)
             /\ session = "in" => Rank(c) > 2
             /\ transfer.state # "none" => Rank(c) > 4
             /\ UNCHANGED transfer => RetrLast'
             /\ \A i \in 1 .. Len(commands') : Rank(commands'[i]) > Rank(c)
             /\ session = "in" => \A i \in 1 .. Len(commands') : Rank(commands'[i]) > 2
  <2>1. /\ \A i \in 1 .. Len(commands') : Rank(commands'[i]) > Rank(c)
        /\ \A i, j \in 1 .. Len(commands') : i < j => Rank(commands'[i]) < Rank(commands'[j])
        /\ \A i \in 1 .. Len(commands') : \E j \in 1 .. Len(commands) : commands'[i] = commands[j]
        /\ Rank(c) <= Rank(command) /\ (pc \in {"start", "write"} => Rank(c) < Rank(command)) /\ c \in Commands
    BY <1>2, <1>8, ObeyTakes
  <2>2. Ordered'
    BY <1>2, <2>1 DEF Ordered
  <2>3. session = "in" => \A i \in 1 .. Len(commands') : Rank(commands'[i]) > 2
    BY <1>2, <2>1 DEF LoginLasts
  <2>4. (session = "in" => Rank(c) > 2) /\ (transfer.state # "none" => Rank(c) > 4)
    <3>1. 1 \in 1 .. Len(commands) /\ c = commands[1]
      BY <1>8, <1>2, LenProperties, EmptySeq DEF Obey, OlderTypes, ServerTypeOK
    <3> QED
      BY <1>2, <3>1 DEF LoginLasts, RetrLast
  <2>5. UNCHANGED transfer => RetrLast'
    BY <1>2, <2>1 DEF RetrLast
  <2> QED
    BY <2>1, <2>2, <2>3, <2>4, <2>5
<1>9. CASE OnHello
  \* Of a client that is not logged in.
  <2>0. Obey("hello") /\ UNCHANGED << session, data, transfer >>
    BY <1>9 DEF OnHello
  <2>1. Ordered' /\ RetrLast' /\ session # "in"
    BY <1>8, <2>0, Ranks
  <2>2. "227" \in LinesUnderWay' => "227" \in LinesUnderWay
    BY <1>2, <1>9, SayOther DEF OnHello
  <2> QED
    BY <1>2, <2>0, <2>1, <2>2 DEF LoginLasts, AddressFits
<1>10. CASE OnUser
  <2>1. Ordered' /\ RetrLast' /\ session # "in" /\ session' = "user" /\ UNCHANGED << data, transfer >>
    BY <1>8, <1>10, Ranks DEF OnUser
  <2>2. "227" \in LinesUnderWay' => "227" \in LinesUnderWay
    BY <1>2, <1>10, SayOther DEF OnUser
  <2> QED
    BY <1>2, <2>1, <2>2 DEF LoginLasts, AddressFits
<1>11. CASE OnPass
  \* It is the last command that bears on the login.
  <2>1. Ordered' /\ RetrLast' /\ session # "in" /\ UNCHANGED << data, transfer >>
    BY <1>8, <1>11, Ranks DEF OnPass
  <2>2. LoginLasts'
    <3>1. /\ Rank(command) >= 2 /\ (pc \in {"start", "write"} => Rank(command) > 2)
          /\ \A i \in 1 .. Len(commands') : Rank(commands'[i]) > 2
      BY <1>2, <1>8, <1>11, Ranks DEF OnPass
    <3> QED
      BY <1>2, <3>1 DEF LoginLasts
  <2>3. "227" \in LinesUnderWay' => "227" \in LinesUnderWay
    BY <1>2, <1>11, SayLinesOther DEF OnPass
  <2> QED
    BY <1>2, <2>1, <2>2, <2>3 DEF AddressFits
<1>12. CASE OnPasv
  <2>1. Ordered' /\ LoginLasts' /\ RetrLast' /\ UNCHANGED << session, transfer >>
    BY <1>2, <1>8, <1>12 DEF OnPasv, LoginLasts
  <2>2. CASE session = "in"
    BY <1>2, <1>12, <2>1, <2>2 DEF OnPasv, AddressFits
  <2>3. CASE session # "in"
    <3>1. "227" \notin LinesUnderWay' /\ UNCHANGED data
      BY <1>2, <1>12, <2>3, SayOther DEF OnPasv, AddressFits
    <3> QED
      BY <1>2, <2>1, <2>3, <3>1 DEF AddressFits
  <2> QED
    BY <2>1, <2>2, <2>3
<1>13. CASE OnRetr
  <2>0. Obey("RETR") /\ UNCHANGED session
    BY <1>13 DEF OnRetr
  <2>1. Ordered' /\ Rank(command) >= 4
    BY <1>2, <1>8, <2>0, Ranks
  <2>3. LoginLasts'
    BY <1>2, <1>8, <2>0 DEF LoginLasts
  <2>2. "227" \in LinesUnderWay' => "227" \in LinesUnderWay
    <3>1. CASE Say("150")
      BY <1>2, <3>1, SayOther
    <3>2. CASE \E r \in Refusals : Say(r)
      <4>1. "227" \notin Refusals
        BY ServerAssumption DEF ServerAssumption
      <4> QED
        BY <1>2, <3>2, <4>1, SayOther
    <3> QED
      BY <1>13, <3>1, <3>2 DEF OnRetr
  <2>4. AddressFits'
    BY <1>2, <2>0, <2>1, <2>2, Ranks DEF AddressFits
  <2>5. RetrLast'
    BY <1>2, <1>8, <2>0, <2>1, Ranks DEF RetrLast
  <2> QED
    BY <2>1, <2>3, <2>4, <2>5
<1>14. ~OnQuit /\ ~Close
  BY DEF OnQuit, Close
<1>15. \/ Greet \/ SendPart \/ SendEnd \/ Abort
       \/ OnHello \/ OnUser \/ OnPass \/ OnPasv \/ OnRetr
  BY <1>14 DEF ServerNext, Serve
<1> QED
  BY <1>4, <1>5, <1>6, <1>7, <1>9, <1>10, <1>11, <1>12, <1>13, <1>15

-----------------------------------------------------------------------------
\* A command more, of a place after all that are under way.
LEMMA WriteAdds ==
  ASSUME OlderTypes, Ordered, pc = "write", commands' = Append(commands, command),
         command' = command, pc' = "recv"
  PROVE  /\ commands' \in Seq(Commands) /\ Ordered'
         /\ \A i \in 1 .. Len(commands') :
              commands'[i] = command \/ \E j \in 1 .. Len(commands) : commands'[i] = commands[j]
<1>1. commands \in Seq(Commands) /\ command \in Commands
  BY DEF OlderTypes, ServerTypeOK
<1>2. /\ commands' \in Seq(Commands) /\ Len(commands) \in Nat
      /\ Len(commands') = Len(commands) + 1
      /\ \A i \in 1 .. Len(commands) : commands'[i] = commands[i]
      /\ commands'[Len(commands) + 1] = command
  BY <1>1, AppendProperties, LenProperties
<1>3. \A i \in 1 .. Len(commands') : i \in 1 .. Len(commands) \/ i = Len(commands) + 1
  BY <1>2
<1>4. Rank(command) \in Int /\ \A i \in 1 .. Len(commands) : Rank(commands[i]) \in Int
  <2>1. \A i \in 1 .. Len(commands) : commands[i] \in Commands
    BY <1>1, ElementOfSeq
  <2> QED
    BY <1>1, <2>1, Ranks
<1>5. ASSUME NEW i \in 1 .. Len(commands'), NEW j \in 1 .. Len(commands'), i < j
      PROVE  Rank(commands'[i]) < Rank(commands'[j])
  <2>1. i \in 1 .. Len(commands)
    BY <1>2, <1>5
  <2>2. CASE j \in 1 .. Len(commands)
    BY <1>2, <1>5, <2>1, <2>2 DEF Ordered
  <2>3. CASE j = Len(commands) + 1
    BY <1>2, <2>1, <2>3 DEF Ordered
  <2> QED
    BY <1>3, <2>2, <2>3
<1>6. ASSUME NEW i \in 1 .. Len(commands') PROVE Rank(commands'[i]) <= Rank(command)
  <2>1. CASE i \in 1 .. Len(commands)
    BY <1>2, <2>1 DEF Ordered
  <2>2. CASE i = Len(commands) + 1
    BY <1>2, <1>4, <2>2
  <2> QED
    BY <1>3, <2>1, <2>2
<1>7. Ordered'
  BY <1>5, <1>6 DEF Ordered
<1> QED
  BY <1>2, <1>3, <1>7

\* What get_new_port finds shows a 227.
LEMMA ParenthesesFind ==
  ASSUME NEW r \in Seq(Parts), Parentheses(r)
  PROVE  "227" \in LinesOf(r)
  BY DEF Parentheses, LinesOf

(***************************************************************************)
(* The client keeps the order, the login and what 227 says.                *)
(***************************************************************************)
LEMMA OlderClientKeeps ==
  ASSUME OlderTypes, NotConnected, session # "closed", Ordered, LoginLasts, RetrLast,
         AddressFits, OlderClientNext
  PROVE  Ordered' /\ LoginLasts' /\ RetrLast' /\ AddressFits'
<1>1. replies \in Seq(Parts) /\ command \in Commands /\ Rank(command) \in 0 .. 5
      /\ \A i \in 1 .. Len(commands) : Rank(commands[i]) \in 0 .. 5
  <2>1. commands \in Seq(Commands)
    BY DEF OlderTypes, ServerTypeOK
  <2> QED
    BY <2>1, Ranks, ElementOfSeq DEF OlderTypes, ServerTypeOK
\* The steps that go on to a later command, or leave the session alone.
<1>2. ASSUME UNCHANGED << commands, session, transfer >>,
             "227" \in LinesUnderWay' => "227" \in LinesUnderWay,
             command' \in Commands,
             \/ command' = command /\ pc' \notin {"start", "write"}
             \/ Rank(command) < Rank(command'),
             data' = data \/ Rank(command') >= 4,
             pc' = "connect" => /\ command' = "pasv" /\ session = "in"
                                /\ data' = "listening",
             pc' = "receive" => command' = "RETR",
             command' = "RETR" => session = "in"
      PROVE  Ordered' /\ LoginLasts' /\ RetrLast' /\ AddressFits'
  <2>1. Rank(command') \in 0 .. 5 /\ Rank(command) <= Rank(command')
    BY <1>1, <1>2, Ranks
  <2>2. Ordered'
    <3>1. commands' = commands
      BY <1>2
    <3>2. \A i \in 1 .. Len(commands) : Rank(commands[i]) <= Rank(command')
      BY <1>1, <2>1 DEF Ordered
    <3>3. pc' \in {"start", "write"} =>
            \A i \in 1 .. Len(commands) : Rank(commands[i]) < Rank(command')
      <4>1. pc' \in {"start", "write"} => Rank(command) < Rank(command')
        BY <1>2
      <4> QED
        BY <1>1, <2>1, <4>1 DEF Ordered
    <3> QED
      BY <3>1, <3>2, <3>3 DEF Ordered
  <2>3. LoginLasts' /\ RetrLast'
    BY <1>1, <1>2, <2>1 DEF LoginLasts, RetrLast
  <2>4. AddressFits'
    BY <1>1, <1>2, <2>1 DEF AddressFits
  <2> QED
    BY <2>2, <2>3, <2>4
<1>3. ASSUME Recv
      PROVE  /\ pc = "recv" /\ UNCHANGED << commands, session, data, transfer >>
             /\ "227" \in LinesUnderWay' => "227" \in LinesUnderWay
             /\ response' \in Seq(Parts)
             /\ "227" \in LinesOf(response') => "227" \in LinesUnderWay
  BY <1>1, <1>3, RecvTakes DEF Recv, LinesUnderWay
<1>4. CASE OlderStart
  <2>1. /\ pc = "start" /\ command = "hello" /\ command' = command /\ session = "none"
        /\ UNCHANGED << commands, replies, data, transfer >>
        /\ pc' \in {"write", "exited", "crashed"} /\ session' \in {session, "new"}
    BY <1>4 DEF OlderStart, Goto, NotConnected
  <2>2. LinesUnderWay' = LinesUnderWay
    BY <2>1 DEF LinesUnderWay
  <2> QED
    BY <1>1, <2>1, <2>2 DEF Ordered, LoginLasts, RetrLast, AddressFits
<1>5. CASE Write
  <2>1. /\ pc = "write" /\ pc' = "recv" /\ commands' = Append(commands, command)
        /\ UNCHANGED << command, replies, session, data, transfer >>
    BY <1>5 DEF Write, Goto
  <2>2. /\ commands' \in Seq(Commands) /\ Ordered'
        /\ \A i \in 1 .. Len(commands') :
             commands'[i] = command \/ \E j \in 1 .. Len(commands) : commands'[i] = commands[j]
    BY <2>1, WriteAdds
  <2>3. LoginLasts' /\ RetrLast'
    BY <2>1, <2>2 DEF LoginLasts, RetrLast
  <2>4. LinesUnderWay' = LinesUnderWay
    BY <2>1 DEF LinesUnderWay
  <2>5. AddressFits'
    BY <2>1, <2>4 DEF AddressFits
  <2> QED
    BY <2>2, <2>3, <2>5
<1>6. CASE RecvFails
  BY <1>6 DEF RecvFails
<1>7. CASE Hello
  <2>1. CASE Send("user")
    BY <1>2, <1>3, <1>7, <2>1, Ranks DEF Hello, Send, Commands
  <2>2. CASE Goto("recv")
    BY <1>1, <1>2, <1>3, <1>7, <2>2 DEF Hello, Goto
  <2> QED
    BY <1>7, <2>1, <2>2 DEF Hello
<1>8. CASE OlderUser
  BY <1>2, <1>3, <1>8, Ranks DEF OlderUser, Send, Commands
<1>9. CASE OlderPass
  BY <1>2, <1>3, <1>9, Ranks DEF OlderPass, Send, Commands
<1>10. CASE OlderPasv
  <2>1. Recv /\ command = "pasv" /\ command' = command /\ pc' \in {"connect", "exited"}
    BY <1>10 DEF OlderPasv, Goto
  <2>2. pc' = "connect" => "227" \in LinesUnderWay
    BY <1>3, <1>10, ParenthesesFind DEF OlderPasv, Goto
  <2>3. pc' = "connect" => session = "in" /\ data = "listening"
    BY <2>1, <2>2, Ranks DEF AddressFits
  <2> QED
    BY <1>1, <1>2, <1>3, <2>1, <2>3
<1>11. CASE Connect
  <2>1. /\ pc = "connect" /\ command = "pasv" /\ session = "in"
        /\ UNCHANGED << commands, replies, session, transfer >>
        /\ data' = "connected" /\ pc' = "write" /\ command' = "RETR"
    BY <1>11 DEF Connect, Send, AddressFits
  <2>2. LinesUnderWay' = LinesUnderWay
    BY <2>1 DEF LinesUnderWay
  <2> QED
    BY <1>2, <2>1, <2>2, Ranks DEF Commands
<1>12. CASE OlderRetr
  <2>1. command = "RETR" /\ session = "in" /\ Recv
    BY <1>12 DEF OlderRetr, AddressFits
  <2>2. CASE Send("quit")
    BY <1>2, <1>3, <2>1, <2>2, Ranks DEF Send, Commands
  <2>3. CASE Goto("receive")
    BY <1>1, <1>2, <1>3, <2>1, <2>3 DEF Goto
  <2> QED
    BY <1>12, <2>2, <2>3 DEF OlderRetr
<1>13. CASE receive_data
  <2>1. /\ command = "RETR" /\ session = "in"
        /\ UNCHANGED << commands, replies, session, data, transfer >>
    BY <1>13 DEF receive_data, AddressFits
  <2>2. LinesUnderWay' = LinesUnderWay
    BY <2>1 DEF LinesUnderWay
  <2>3. CASE Send("quit")
    BY <1>2, <2>1, <2>2, <2>3, Ranks DEF Send, Commands
  <2>4. CASE Goto("receive")
    BY <1>1, <1>2, <2>1, <2>2, <2>4 DEF Goto
  <2> QED
    BY <1>13, <2>3, <2>4 DEF receive_data
<1>14. CASE Quit
  <2>1. command = "quit" /\ Recv /\ command' = command /\ pc' \in {"exited", "done"}
    BY <1>14 DEF Quit, Goto
  <2> QED
    BY <1>1, <1>2, <1>3, <2>1
<1> QED
  BY <1>4, <1>5, <1>6, <1>7, <1>8, <1>9, <1>10, <1>11, <1>12, <1>13, <1>14
  DEF OlderClientNext, SameCode

-----------------------------------------------------------------------------
\* Every step keeps the types.
LEMMA OlderTypesStep ==
  ASSUME OlderTypes, [OlderNext]_vars PROVE OlderTypes'
<1> USE DEF OlderTypes
<1>0. replies \in Seq(Parts)
  BY DEF ServerTypeOK
<1>1. ASSUME Recv PROVE ServerTypeOK'
  BY <1>0, <1>1, RecvTakes DEF Recv, ServerTypeOK
<1>2. CASE OlderStart
  <2>1. /\ command' = command /\ session' \in {session, "new"}
        /\ UNCHANGED << commands, replies, data, parts, transfer >>
    BY <1>2 DEF OlderStart, Goto
  <2> QED
    BY <2>1 DEF ServerTypeOK
<1>3. CASE Write
  <2>1. commands' = Append(commands, command) \/ commands' = commands
    BY <1>3 DEF Write
  <2>2. commands \in Seq(Commands) /\ Append(commands, command) \in Seq(Commands)
    BY AppendProperties DEF ServerTypeOK
  <2> QED
    BY <1>3, <2>1, <2>2 DEF Write, Goto, ServerTypeOK
<1>4. CASE RecvFails
  BY <1>4 DEF RecvFails, Goto, ServerTypeOK, server
<1>5. CASE Hello \/ OlderUser \/ OlderPass \/ OlderPasv \/ OlderRetr \/ Quit
  <2>1. Recv /\ command' \in Commands
    BY <1>5 DEF Hello, OlderUser, OlderPass, OlderPasv, OlderRetr, Quit, Send, Goto, Commands
  <2> QED
    BY <1>1, <2>1
<1>6. CASE Connect
  BY <1>6 DEF Connect, Send, Goto, Commands, ServerTypeOK
<1>7. CASE receive_data
  <2>1. parts' \in Seq(STRING)
    <3>1. ASSUME NEW n \in 1 .. Len(parts), parts' = SubSeq(parts, n + 1, Len(parts))
          PROVE  parts' \in Seq(STRING)
      BY <3>1, SubSeqProperties DEF ServerTypeOK
    <3> QED
      BY <1>7, <3>1 DEF receive_data, ServerTypeOK
  <2> QED
    BY <1>7, <2>1 DEF receive_data, Send, Goto, Commands, ServerTypeOK
<1>8. CASE ServerNext /\ UNCHANGED client
  BY <1>8, ServerTypes DEF client
<1>9. CASE UNCHANGED vars
  BY <1>9 DEF vars, server, client, ServerTypeOK
<1> QED
  BY <1>2, <1>3, <1>4, <1>5, <1>6, <1>7, <1>8, <1>9 DEF OlderNext, OlderClientNext, SameCode

\* main connects once, and a closed session is not opened again.
LEMMA OlderConnectsOnce ==
  ASSUME NotConnected, [OlderNext]_vars
  PROVE  NotConnected' /\ (session = "closed" => session' = "closed")
<1>1. CASE OlderClientNext
  <2>1. pc' # "start"
    BY <1>1 DEF OlderClientNext, SameCode, OlderStart, Write, RecvFails, Hello, OlderUser, OlderPass,
                OlderPasv, Connect, OlderRetr, receive_data, Quit, Goto, Send
  <2>2. session = "closed" => session' = "closed"
    BY <1>1 DEF NotConnected, OlderClientNext, SameCode, OlderStart, Write, RecvFails, Hello, OlderUser,
                OlderPass, OlderPasv, Connect, OlderRetr, receive_data, Quit, Recv, server
  <2> QED
    BY <2>1, <2>2 DEF NotConnected
<1>2. CASE ServerNext /\ UNCHANGED client
  <2>1. /\ session = "none" => session' = "none"
        /\ session = "closed" => session' = "closed"
    BY <1>2 DEF ServerNext, Serve, Greet, OnHello, OnUser, OnPass, OnPasv, OnRetr, OnQuit, Obey,
                SendPart, SendEnd, Abort, Close
  <2> QED
    BY <1>2, <2>1 DEF NotConnected, client
<1>3. CASE UNCHANGED vars
  BY <1>3 DEF NotConnected, vars, server, client
<1> QED
  BY <1>1, <1>2, <1>3 DEF OlderNext

\* Every step keeps the invariant.
LEMMA OlderStep ==
  ASSUME OlderIInv, [OlderNext]_vars PROVE OlderIInv'
<1>1. OlderTypes /\ OlderTypes' /\ NotConnected /\ NotConnected' /\ InTurn
  BY OlderTypesStep, OlderConnectsOnce DEF OlderIInv
<1>2. CASE session' = "closed"
  BY <1>1, <1>2 DEF OlderIInv, InTurn
<1>3. CASE session' # "closed"
  <2>1. session # "closed" /\ Ordered /\ LoginLasts /\ RetrLast /\ AddressFits
    BY <1>1, <1>3, OlderConnectsOnce DEF InTurn
  <2>2. CASE OlderClientNext
    BY <1>1, <2>1, <2>2, OlderClientKeeps DEF OlderIInv, InTurn
  <2>3. CASE ServerNext /\ UNCHANGED client
    BY <1>1, <1>3, <2>3, OlderServerKeeps DEF OlderIInv, InTurn
  <2>4. CASE UNCHANGED vars
    BY <1>1, <2>1, <2>4 DEF vars, server, client, OlderIInv, InTurn, Ordered, LoginLasts,
                            RetrLast, AddressFits, LinesUnderWay, LinesOf
  <2> QED
    BY <2>2, <2>3, <2>4 DEF OlderNext
<1> QED
  BY <1>2, <1>3

(***************************************************************************)
(* The earlier client, which reads the replies to user and pass without    *)
(* looking at them, connects only to a server that listens and asks for    *)
(* the file only when logged in, unless the session has been closed: for   *)
(* every file, every fault and every way of cutting replies.               *)
(***************************************************************************)
THEOREM OlderNeverAhead == OlderSpec => []LoginStillNeeded
<1>1. OlderIInv => LoginStillNeeded
  BY DEF OlderIInv, InTurn, AddressFits, LoginStillNeeded
<1>2. OlderIInv /\ [OlderNext]_vars => OlderIInv'
  BY OlderStep
<1> QED
  BY <1>1, <1>2, OlderInit, PTL DEF OlderSpec

-----------------------------------------------------------------------------
\* The data connection has come to an end with the transfer, or with the session.
DataEnds == data \in {"eof", "reset"} => transfer.state # "none" \/ session = "closed"

\* main closes the connection when there is nothing left to be read.
Finished ==
  /\ command = "quit" /\ ~failed => parts = << >> /\ data \in {"eof", "reset"}
  /\ pc = "done" => command = "quit" /\ ~failed

PrintInv == TransferTypes /\ Stream /\ DataEnds /\ Finished

\* Nothing has been printed at first.
LEMMA PrintInit == Init => PrintInv
<1> SUFFICES ASSUME Init PROVE PrintInv
  OBVIOUS
<1>1. TransferTypes
  BY TypeInit DEF TypeOK, TransferTypes
<1> QED
  BY <1>1, StreamInit DEF Init, ServerInit, PrintInv, DataEnds, Finished

\* The server listens only before it has obeyed RETR.
LEMMA ListensBefore ==
  ASSUME OlderIInv, OnPasv
  PROVE  transfer.state = "none" /\ session # "closed"
<1>1. Obey("pasv") /\ session # "closed"
  BY DEF OnPasv, Obey
<1>2. OlderTypes /\ RetrLast
  BY <1>1 DEF OlderIInv, InTurn
<1>3. 1 \in 1 .. Len(commands) /\ commands[1] = "pasv"
  BY <1>1, <1>2, LenProperties, EmptySeq DEF Obey, OlderTypes, ServerTypeOK
<1> QED
  BY <1>1, <1>2, <1>3, Ranks DEF RetrLast

\* The steps of the server.
LEMMA PrintServer ==
  ASSUME OlderIInv, PrintInv, ServerNext, UNCHANGED client
  PROVE  Stream' /\ DataEnds' /\ Finished'
<1>1. TransferTypes /\ Stream /\ UNCHANGED << saved, command, failed, pc >>
  BY DEF PrintInv, client
<1>2. Stream'
  BY <1>1, ServerStream, ListensBefore
<1>3. transfer \in [sent : 0 .. Len(File),
                    state : {"none", "sending", "complete", "refused", "aborted"}]
  BY <1>1 DEF TransferTypes, ServerTypeOK
<1>4. DataEnds'
  <2>1. CASE SendPart \/ SendEnd \/ Abort \/ OnRetr
    BY <1>3, <2>1 DEF SendPart, SendEnd, Abort, OnRetr, PrintInv, DataEnds
  <2>2. CASE Greet \/ OnHello \/ OnUser \/ OnPass
    BY <2>2 DEF Greet, OnHello, OnUser, OnPass, Obey, PrintInv, DataEnds
  <2>3. CASE OnPasv
    BY <2>3 DEF OnPasv, PrintInv, DataEnds
  <2>4. CASE OnQuit \/ Close
    BY <2>4 DEF OnQuit, Close, DataEnds
  <2> QED
    BY <2>1, <2>2, <2>3, <2>4 DEF ServerNext, Serve
<1>5. ASSUME parts = << >>, data \in {"eof", "reset"}
      PROVE  parts' = << >> /\ data' \in {"eof", "reset"}
  <2>1. transfer.state # "sending" /\ data # "connected" /\ data # "listening"
    BY <1>1, <1>5 DEF Stream
  <2>2. ~OnPasv
    BY <1>5, ListensBefore DEF PrintInv, DataEnds
  <2> QED
    BY <1>5, <2>1, <2>2
    DEF ServerNext, Serve, Greet, OnHello, OnUser, OnPass, OnRetr, OnQuit, SendPart, SendEnd, Abort, Close
<1>6. Finished'
  BY <1>1, <1>5 DEF PrintInv, Finished
<1> QED
  BY <1>2, <1>4, <1>6

\* The steps of the client.
LEMMA PrintClient ==
  ASSUME OlderIInv, PrintInv, OlderClientNext
  PROVE  saved' \in Seq(STRING) /\ Stream' /\ DataEnds' /\ Finished'
<1>1. TransferTypes /\ Stream /\ DataEnds /\ Finished /\ saved \in Seq(STRING)
  BY DEF PrintInv, TransferTypes
<1>2. CASE receive_data
  <2>1. Stream' /\ DataEnds'
    BY <1>1, <1>2, ClientStream DEF receive_data, DataEnds
  <2>2. CASE \E n \in 1 .. Len(parts) : Fwrite(n) /\ Goto("receive")
    <3>1. PICK n \in 1 .. Len(parts) : Fwrite(n) /\ Goto("receive")
      BY <2>2
    <3>2. SubSeq(parts, 1, n) \in Seq(STRING)
      BY <1>1, SubSeqProperties DEF TransferTypes, ServerTypeOK
    <3>3. saved' \in Seq(STRING)
      BY <1>1, <3>1, <3>2, ConcatProperties DEF Fwrite
    <3>4. parts # << >>
      BY <3>1
    <3>5. Finished'
      BY <1>1, <1>2, <3>1, <3>4 DEF Finished, receive_data, Goto
    <3> QED
      BY <2>1, <3>3, <3>5
  <2>3. CASE parts = << >> /\ data \in {"eof", "reset"} /\ Send("quit") /\ UNCHANGED << saved, parts >>
    BY <1>1, <1>2, <2>1, <2>3 DEF receive_data, Send, Finished
  <2> QED
    BY <1>2, <2>2, <2>3 DEF receive_data
<1>3. CASE Connect
  <2>1. Stream' /\ saved' = saved
    BY <1>1, <1>3, ClientStream DEF Connect
  <2>2. DataEnds'
    BY <1>1, <1>3 DEF Connect, DataEnds
  <2>3. Finished'
    BY <1>1, <1>3 DEF Connect, Finished, Send, Goto
  <2> QED
    BY <1>1, <2>1, <2>2, <2>3
<1>4. CASE ~receive_data /\ ~Connect
  <2>1. UNCHANGED << saved, parts, transfer, data >> /\ (session' = session \/ pc = "start")
    BY <1>4 DEF OlderClientNext, SameCode, OlderStart, Write, RecvFails, Hello, OlderUser, OlderPass,
                OlderPasv, OlderRetr, Quit, Recv, server
  <2>2. Stream' /\ saved' \in Seq(STRING)
    BY <1>1, <2>1, ClientStream
  <2>3. DataEnds'
    BY <1>1, <2>1 DEF DataEnds, OlderIInv, NotConnected
  <2>4. /\ command' = "quit" /\ ~failed' => command = "quit" /\ ~failed
        /\ pc' = "done" => command' = "quit" /\ ~failed'
    BY <1>4 DEF OlderClientNext, SameCode, OlderStart, Write, RecvFails, Hello, OlderUser, OlderPass,
                OlderPasv, OlderRetr, Quit, Recv, server, Send, Goto
  <2> QED
    BY <1>1, <2>1, <2>2, <2>3, <2>4 DEF Finished
<1> QED
  BY <1>2, <1>3, <1>4

\* Every step keeps what has been printed a beginning of the file.
LEMMA PrintStep ==
  ASSUME OlderIInv, PrintInv, [OlderNext]_vars PROVE PrintInv'
<1>1. ServerTypeOK'
  BY OlderStep DEF OlderIInv, OlderTypes
<1>2. CASE OlderClientNext
  BY <1>1, <1>2, PrintClient DEF PrintInv, TransferTypes
<1>3. CASE ServerNext /\ UNCHANGED client
  BY <1>1, <1>3, PrintServer DEF PrintInv, TransferTypes, client
<1>4. CASE UNCHANGED vars
  BY <1>4 DEF vars, server, client, PrintInv, TransferTypes, ServerTypeOK, Stream, DataEnds, Finished
<1> QED
  BY <1>2, <1>3, <1>4 DEF OlderNext

(***************************************************************************)
(* A sequence as long as the file that begins it is the file.              *)
(***************************************************************************)
LEMMA PrintedAll ==
  ASSUME PrintInv PROVE PrintsFile
<1>1. TransferTypes /\ Stream /\ Finished
  BY DEF PrintInv
<1>2. IsPrefix(saved, File)
  BY <1>1, StreamIsPrefix DEF SavedPrefix
<1>3. ASSUME pc = "done", transfer.state = "complete" PROVE saved = File
  <2>1. /\ saved \in Seq(STRING) /\ Len(saved) \in Nat
        /\ \A i \in 1 .. Len(saved) : saved[i] = File[i]
    BY <1>1, StreamTypes DEF Stream
  <2>2. Len(saved) = Len(File)
    BY <1>1, <1>3, <2>1, FileType DEF Stream, Finished
  <2> QED
    BY <2>1, <2>2, FileType, SeqEqual
<1> QED
  BY <1>2, <1>3 DEF PrintsFile

(***************************************************************************)
(* However far the earlier client has fallen behind the server, what it    *)
(* prints is the file from its beginning, and all of it if the server has  *)
(* sent all and main returns 0: for every file, fault and way of cutting.  *)
(***************************************************************************)
THEOREM PrintsTheFile == OlderSpec => []PrintsFile
<1>1. Init => OlderIInv /\ PrintInv
  BY OlderInit, PrintInit
<1>2. (OlderIInv /\ PrintInv) /\ [OlderNext]_vars => (OlderIInv /\ PrintInv)'
  BY OlderStep, PrintStep
<1>3. OlderIInv /\ PrintInv => PrintsFile
  BY PrintedAll
<1> QED
  BY <1>1, <1>2, <1>3, PTL DEF OlderSpec

-----------------------------------------------------------------------------
(***************************************************************************)
(* The earlier client calls exit for a login without a password, and takes *)
(* the rest of a URL apart with the same calls.                            *)
(***************************************************************************)
LEMMA OlderParses ==
  ASSUME NEW u, WellFormed(u)
  PROVE  (IF Has(Format(u), "@") /\ strtok(Format(u), ":").rest = << >> THEN [status |-> "invalid"]
          ELSE Parse(Format(u))) = Exact(u.user, u.password, u.host, u.path)
         <=> u.password # Unset \/ (u.user = Anonymous /\ ~Has(u.path, "@"))
<1>1. [status |-> "invalid"] # Exact(u.user, u.password, u.host, u.path)
  BY DEF Exact
<1>2. CASE u.user = Anonymous
  BY <1>1, <1>2, ParsesWhatIsMeant DEF Understood
<1>3. CASE u.user # Anonymous /\ u.password = Unset
  BY <1>1, <1>3, ParsesWhatIsMeant DEF Understood
<1>4. CASE u.user # Anonymous /\ u.password # Unset
  <2>1. strtok(Format(u), ":").rest # << >>
    BY <1>4, ParsesWhatIsMeant
  <2>2. Parse(Format(u)) = Exact(u.user, u.password, u.host, u.path)
    BY <1>4, ParsesWhatIsMeant DEF Understood
  <2> QED
    BY <1>4, <2>1, <2>2
<1> QED
  BY <1>2, <1>3, <1>4

\* target is what main has made of the URL.
OlderTarget == request \in Requests /\ target \in {[status |-> "unparsed"], OlderTargets[request]}

LEMMA TargetStep ==
  ASSUME OlderTarget, [OlderNext]_vars
  PROVE  OlderTarget'
<1>1. CASE OlderStart
  BY <1>1 DEF OlderTarget, OlderStart, OlderTargets
<1>2. ASSUME UNCHANGED << request, target >> PROVE OlderTarget'
  BY <1>2 DEF OlderTarget, OlderTargets
<1>3. CASE OlderUser \/ OlderPass \/ OlderPasv \/ OlderRetr
  BY <1>2, <1>3 DEF OlderUser, OlderPass, OlderPasv, OlderRetr, Recv
<1>4. CASE SameCode
  BY <1>2, <1>4 DEF SameCode, Write, RecvFails, Hello, Connect, receive_data, Quit, Recv, server
<1>5. CASE UNCHANGED vars \/ UNCHANGED client
  BY <1>2, <1>5 DEF vars, client
<1> QED
  BY <1>1, <1>3, <1>4, <1>5 DEF OlderNext, OlderClientNext

(***************************************************************************)
(* What main takes from a URL is what it was made of exactly when it has a *)
(* password, or no login and no @ in the path: OlderStart, for requests of *)
(* any length.                                                             *)
(***************************************************************************)
LEMMA TargetParses == OlderTarget => OlderParsesExactly
<1> SUFFICES ASSUME OlderTarget, target.status # "unparsed"
             PROVE  target = Exact(request.user, request.password, request.host, request.path)
                    <=> \/ request.password # Unset
                        \/ request.user = Anonymous /\ ~Has(request.path, "@")
  BY DEF OlderParsesExactly, Exact
<1>1. request \in Requests /\ target = OlderParse(Format(request))
  BY DEF OlderTarget, OlderTargets
<1>2. WellFormed(request)
  BY <1>1, RequestsAssumption
<1> QED
  BY <1>1, <1>2, OlderParses, Zenon DEF OlderParse

THEOREM OlderParsesAll == OlderSpec => []OlderParsesExactly
<1>1. Init => OlderTarget
  BY DEF Init, OlderTarget
<1> QED
  BY <1>1, TargetStep, TargetParses, PTL DEF OlderSpec

=============================================================================

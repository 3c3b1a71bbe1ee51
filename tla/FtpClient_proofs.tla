-------------------------- MODULE FtpClient_proofs --------------------------
(***************************************************************************)
(* The FTP client is never ahead of the server, however the replies are    *)
(* cut and whatever the server says; and what it saves is how the file     *)
(* begins, for every file.  What it takes from a URL is what the URL says  *)
(* exactly when main's calls of strchr and strtok leave it whole.          *)
(***************************************************************************)
EXTENDS FtpClient, SequenceTheorems, WellFoundedInduction, TLAPS

-----------------------------------------------------------------------------
\* The lines of which r holds a part.
LinesOf(r) == { r[i].line : i \in 1 .. Len(r) }

(***************************************************************************)
(* A line is three parts of a reply.                                       *)
(***************************************************************************)
LEMMA LineType ==
  ASSUME NEW l \in Lines
  PROVE  Line(l) \in Seq(Parts) /\ LinesOf(Line(l)) = {l}
<1>1. \A p \in {"code", "text", "end"} : [line |-> l, part |-> p] \in Parts
  BY DEF Parts
<1>2. Line(l) \in Seq(Parts)
  BY <1>1 DEF Line
<1>3. LinesOf(Line(l)) = {l}
  BY DEF LinesOf, Line
<1> QED
  BY <1>2, <1>3

(***************************************************************************)
(* The lines of two replies one after the other, and of a piece of one.    *)
(***************************************************************************)
LEMMA ConcatLines ==
  ASSUME NEW r \in Seq(Parts), NEW s \in Seq(Parts)
  PROVE  r \o s \in Seq(Parts) /\ LinesOf(r \o s) = LinesOf(r) \cup LinesOf(s)
<1> DEFINE rs == r \o s
<1>1. /\ rs \in Seq(Parts)
      /\ Len(rs) = Len(r) + Len(s)
      /\ \A i \in 1 .. Len(r) + Len(s) : rs[i] = IF i <= Len(r) THEN r[i] ELSE s[i - Len(r)]
  BY ConcatProperties
<1>2. Len(r) \in Nat /\ Len(s) \in Nat
  OBVIOUS
<1> HIDE DEF rs
<1>3. LinesOf(rs) \subseteq LinesOf(r) \cup LinesOf(s)
  BY <1>1, <1>2 DEF LinesOf
<1>4. ASSUME NEW i \in 1 .. Len(r) PROVE r[i].line \in LinesOf(rs)
  <2>1. i \in 1 .. Len(rs) /\ rs[i] = r[i]
    BY <1>1, <1>2
  <2> QED
    BY <2>1 DEF LinesOf
<1>5. ASSUME NEW i \in 1 .. Len(s) PROVE s[i].line \in LinesOf(rs)
  <2>1. PICK k \in 1 .. Len(r) + Len(s) : k = Len(r) + i /\ ~(k <= Len(r)) /\ k - Len(r) = i
    BY <1>2
  <2>2. k \in 1 .. Len(rs) /\ rs[k] = s[i]
    BY <1>1, <2>1
  <2> QED
    BY <2>2 DEF LinesOf
<1>6. LinesOf(r) \cup LinesOf(s) \subseteq LinesOf(rs)
  BY <1>4, <1>5 DEF LinesOf
<1> QED
  BY <1>1, <1>3, <1>6 DEF rs

\* A piece of a sequence of parts has no lines but those of the sequence.
LEMMA PieceLines ==
  ASSUME NEW r \in Seq(Parts), NEW m \in Nat, NEW n \in Nat, 1 <= m, n <= Len(r)
  PROVE  SubSeq(r, m, n) \in Seq(Parts) /\ LinesOf(SubSeq(r, m, n)) \subseteq LinesOf(r)
<1> DEFINE s == SubSeq(r, m, n)
<1>1. Len(r) \in Nat /\ \A i \in 1 .. Len(r) : r[i] \in Parts
  BY ElementOfSeq
<1>2. \A i \in m .. n : i \in 1 .. Len(r)
  BY <1>1
<1>3. /\ s \in Seq(Parts)
      /\ Len(s) = IF m <= n THEN n - m + 1 ELSE 0
      /\ \A i \in 1 .. n - m + 1 : s[i] = r[m + i - 1]
  BY <1>1, <1>2, SubSeqProperties
<1> HIDE DEF s
<1>4. ASSUME NEW i \in 1 .. Len(s) PROVE s[i].line \in LinesOf(r)
  <2>1. m + i - 1 \in 1 .. Len(r) /\ s[i] = r[m + i - 1]
    BY <1>1, <1>3
  <2> QED
    BY <2>1 DEF LinesOf
<1>5. LinesOf(s) \subseteq LinesOf(r)
  BY <1>4 DEF LinesOf
<1> QED
  BY <1>3, <1>5 DEF s

-----------------------------------------------------------------------------
(***************************************************************************)
(* What the server says is added to what is under way to the client.       *)
(***************************************************************************)
LEMMA SayAdds ==
  ASSUME replies \in Seq(Parts), NEW l \in Lines, Say(l)
  PROVE  replies' \in Seq(Parts) /\ LinesOf(replies') = LinesOf(replies) \cup {l}
  BY LineType, ConcatLines DEF Say

\* A reply adds its own lines, and no other, to those under way.
LEMMA SayLinesAdds ==
  ASSUME replies \in Seq(Parts), NEW ls \in Greetings \cup PassReplies, SayLines(ls)
  PROVE  /\ replies' \in Seq(Parts)
         /\ LinesOf(replies') = LinesOf(replies) \cup {ls[1], ls[Len(ls)]}
<1>1. ls \in {<<"220">>, <<"220-", "220">>, <<"230">>, <<"230-", "230">>, <<"530_Login_incorrect">>}
  BY ServerAssumption DEF ServerAssumption
<1>2. /\ Len(ls) = 1 \/ Len(ls) = 2
      /\ ls[1] \in Lines /\ ls[Len(ls)] \in Lines
  <2>1. ASSUME NEW l \in Lines, ls = <<l>> PROVE Len(ls) = 1 /\ ls[1] \in Lines
    BY <2>1
  <2>2. ASSUME NEW l \in Lines, NEW m \in Lines, ls = <<l, m>>
        PROVE  Len(ls) = 2 /\ ls[1] \in Lines /\ ls[2] \in Lines
    BY <2>2
  <2>3. {"220-", "220", "230-", "230", "530_Login_incorrect"} \subseteq Lines
    BY DEF Lines
  <2>4. CASE ls = <<"220">> \/ ls = <<"230">> \/ ls = <<"530_Login_incorrect">>
    BY <2>1, <2>3, <2>4
  <2>5. CASE ls = <<"220-", "220">> \/ ls = <<"230-", "230">>
    BY <2>2, <2>3, <2>5
  <2> QED
    BY <1>1, <2>4, <2>5
<1>3. CASE Len(ls) = 1
  <2>1. replies' = replies \o Line(ls[1])
    BY <1>3 DEF SayLines
  <2> QED
    BY <1>2, <1>3, <2>1, LineType, ConcatLines
<1>4. CASE Len(ls) = 2
  <2>1. replies' = replies \o (Line(ls[1]) \o Line(ls[2]))
    BY <1>4 DEF SayLines
  <2>2. /\ Line(ls[1]) \o Line(ls[2]) \in Seq(Parts)
        /\ LinesOf(Line(ls[1]) \o Line(ls[2])) = {ls[1]} \cup {ls[2]}
    BY <1>2, <1>4, LineType, ConcatLines
  <2> QED
    BY ZenonT(30), <1>4, <2>1, <2>2, ConcatLines
<1> QED
  BY <1>2, <1>3, <1>4

(***************************************************************************)
(* What recv returns was under way, and so was what it leaves.             *)
(***************************************************************************)
LEMMA RecvTakes ==
  ASSUME replies \in Seq(Parts), Recv
  PROVE  /\ replies' \in Seq(Parts) /\ LinesOf(replies') \subseteq LinesOf(replies)
         /\ response' \in Seq(Parts) /\ LinesOf(response') \subseteq LinesOf(replies)
<1>1. CASE \E n \in 1 .. Len(replies) :
             /\ response' = SubSeq(replies, 1, n)
             /\ replies' = SubSeq(replies, n + 1, Len(replies))
  <2>1. PICK n \in 1 .. Len(replies) :
               /\ response' = SubSeq(replies, 1, n)
               /\ replies' = SubSeq(replies, n + 1, Len(replies))
    BY <1>1
  <2>2. Len(replies) \in Nat /\ n \in Nat /\ n + 1 \in Nat /\ 1 <= n + 1 /\ n <= Len(replies)
    OBVIOUS
  <2> QED
    BY <2>1, <2>2, PieceLines
<1>2. CASE replies = << >> /\ response' = << >> /\ replies' = replies
  BY <1>2 DEF LinesOf
<1> QED
  BY <1>1, <1>2 DEF Recv

(***************************************************************************)
(* A line that a test of main finds in a reply is one of its lines.        *)
(***************************************************************************)
LEMMA HoldsLine ==
  ASSUME NEW r \in Seq(Parts), NEW i \in Nat \ {0}, NEW l, NEW p, Holds(r, i, l, p)
  PROVE  l \in LinesOf(r)
<1>1. i \in 1 .. Len(r) /\ r[i].line = l
  BY DEF Holds
<1> QED
  BY <1>1 DEF LinesOf

\* What a test of main finds in a response shows a line of that response.
LEMMA TestsFind ==
  ASSUME NEW r \in Seq(Parts)
  PROVE  /\ LoginWanted(r) => "530_Please_login" \in LinesOf(r)
         /\ StartsWithText(r, "331") => "331" \in LinesOf(r)
         /\ LoggedIn(r) => "230-" \in LinesOf(r) \/ "230" \in LinesOf(r)
         /\ PortGiven(r) => "227" \in LinesOf(r)
<1>1. \A l : StartsWithCode(r, l) => l \in LinesOf(r)
  BY HoldsLine DEF StartsWithCode
<1>2. \A l : Mentions(r, l) => l \in LinesOf(r)
  BY HoldsLine DEF Mentions
<1> QED
  BY <1>1, <1>2 DEF LoginWanted, StartsWithText, LoggedIn, PortGiven

-----------------------------------------------------------------------------
\* The file is a sequence of strings of some length.
LEMMA FileType == File \in Seq(STRING) /\ Len(File) \in Nat /\ \A i \in 1 .. Len(File) : File[i] \in STRING
<1>1. File \in Seq(STRING)
  BY ServerAssumption DEF ServerAssumption
<1> QED
  BY <1>1, LenProperties, ElementOfSeq

\* The initial states have the types of TypeOK.
LEMMA TypeInit == Init => TypeOK
<1> SUFFICES ASSUME Init PROVE TypeOK
  OBVIOUS
<1>1. Len(File) \in Nat
  BY FileType
<1>2. transfer \in [sent : 0 .. Len(File),
                    state : {"none", "sending", "complete", "refused", "aborted"}]
  BY <1>1 DEF Init, ServerInit
<1>2a. << >> \in Seq(Parts) /\ << >> \in Seq(STRING)
       /\ << >> \in Seq(Commands)
  OBVIOUS
<1>3. ServerTypeOK
  BY <1>2, <1>2a DEF Init, ServerInit, ServerTypeOK
<1> QED
  BY <1>2a, <1>3 DEF Init, TypeOK, Commands

(***************************************************************************)
(* Every step of the server keeps the types of the server's variables.     *)
(***************************************************************************)
LEMMA ServerTypes ==
  ASSUME ServerTypeOK, ServerNext PROVE ServerTypeOK'
<1>0. replies \in Seq(Parts)
  BY DEF ServerTypeOK
<1>1. CASE Greet
  BY <1>0, <1>1, SayLinesAdds DEF Greet, ServerTypeOK
<1>2. ASSUME NEW c, Obey(c) PROVE commands' \in Seq(Commands)
  BY <1>2, HeadTailProperties DEF Obey, ServerTypeOK
<1>3. ASSUME NEW l \in {"530_Please_login", "331", "227", "150", "221", "226", "426"} \cup Refusals, Say(l)
      PROVE  replies' \in Seq(Parts)
  <2>1. l \in Lines
    BY ServerAssumption DEF ServerAssumption, Lines
  <2> QED
    BY <1>0, <1>3, <2>1, SayAdds
<1>4. CASE OnHello
  BY <1>2, <1>3, <1>4 DEF OnHello, ServerTypeOK
<1>5. CASE OnUser
  BY <1>2, <1>3, <1>5 DEF OnUser, ServerTypeOK
<1>6. CASE OnPass
  BY <1>0, <1>2, <1>6, SayLinesAdds DEF OnPass, ServerTypeOK
<1>7. CASE OnPasv
  BY <1>2, <1>3, <1>7 DEF OnPasv, ServerTypeOK
<1>8. CASE OnRetr
  BY <1>2, <1>3, <1>8 DEF OnRetr, ServerTypeOK
<1>9. CASE OnQuit
  BY <1>2, <1>3, <1>9 DEF OnQuit, ServerTypeOK
<1>10. CASE SendPart
  <2>1. transfer.sent + 1 \in 1 .. Len(File)
    BY <1>10, FileType DEF SendPart, ServerTypeOK
  <2>2. File[transfer.sent + 1] \in STRING
    BY <2>1, FileType
  <2> QED
    BY <1>10, <2>1, <2>2 DEF SendPart, ServerTypeOK
<1>11. CASE SendEnd
  BY <1>3, <1>11 DEF SendEnd, ServerTypeOK
<1>12. CASE Abort
  <2>1. parts' \in Seq(STRING)
    <3>1. CASE UNCHANGED parts
      BY <3>1 DEF ServerTypeOK
    <3>2. ASSUME NEW n \in 0 .. Len(parts), parts' = SubSeq(parts, 1, n)
          PROVE  parts' \in Seq(STRING)
      <4>1. parts \in Seq(STRING)
        BY DEF ServerTypeOK
      <4>2. \A i \in 1 .. n : i \in 1 .. Len(parts)
        OBVIOUS
      <4>3. \A i \in 1 .. n : parts[i] \in STRING
        BY <4>1, <4>2, ElementOfSeq
      <4> QED
        BY <3>2, <4>3, SubSeqProperties
    <3> QED
      BY <1>12, <3>1, <3>2 DEF Abort
  <2> QED
    BY <1>3, <1>12, <2>1 DEF Abort, ServerTypeOK
<1>13. CASE Close
  BY <1>13 DEF Close, ServerTypeOK
<1> QED
  BY <1>1, <1>4, <1>5, <1>6, <1>7, <1>8, <1>9, <1>10, <1>11, <1>12, <1>13 DEF ServerNext, Serve

(***************************************************************************)
(* Every step keeps the types.                                             *)
(***************************************************************************)
LEMMA TypeStep ==
  ASSUME TypeOK, [Next]_vars PROVE TypeOK'
<1> USE DEF TypeOK
<1>0. replies \in Seq(Parts) /\ ServerTypeOK
  BY DEF ServerTypeOK
<1>1. ASSUME Recv
      PROVE  ServerTypeOK' /\ response' \in Seq(Parts) /\ UNCHANGED << request, target, saved >>
  BY <1>0, <1>1, RecvTakes DEF Recv, ServerTypeOK
<1>1a. CASE Start
  <2>1. /\ target' = Targets[request] /\ request' = request /\ command' = command
        /\ pc' \in {"write", "exited", "crashed"} /\ session' \in {session, "new"}
    BY <1>1a DEF Start, Goto
  <2>2. UNCHANGED << commands, replies, data, parts, transfer, response, saved, failed >>
    BY <1>1a DEF Start
  <2> QED
    BY <2>1, <2>2 DEF Outcomes, ServerTypeOK
<1>2. CASE Write
  <2>1. commands' \in Seq(Commands)
    <3>1. commands \in Seq(Commands) /\ Append(commands, command) \in Seq(Commands)
      BY AppendProperties DEF ServerTypeOK
    <3>2. commands' = Append(commands, command) \/ commands' = commands
      BY <1>2 DEF Write
    <3> QED
      BY <3>1, <3>2
  <2>2. pc' \in {"recv", "killed"} /\ command' = command
    BY <1>2 DEF Write, Goto
  <2> QED
    BY <1>2, <2>1, <2>2 DEF Write, Outcomes, ServerTypeOK
<1>3. CASE RecvFails
  BY <1>3 DEF RecvFails, Goto, Outcomes, ServerTypeOK, server
<1>4. CASE Hello
  BY <1>1, <1>4 DEF Hello, Send, Goto, Commands
<1>5. CASE User
  BY <1>1, <1>5 DEF User, Send, Goto, Outcomes, Commands
<1>6. CASE Pass
  BY <1>1, <1>6 DEF Pass, Send, Goto, Outcomes, Commands
<1>7. CASE Pasv
  BY <1>1, <1>7 DEF Pasv, Goto, Outcomes
<1>8. CASE Connect
  BY <1>8 DEF Connect, Send, Goto, Outcomes, Commands, ServerTypeOK
<1>9. CASE Retr
  BY <1>1, <1>9 DEF Retr, Send, Goto, Outcomes, Commands
<1>10. CASE receive_data
  <2>1. CASE \E n \in 1 .. Len(parts) :
               Fwrite(n) /\ parts' = SubSeq(parts, n + 1, Len(parts)) /\ Goto("receive")
    <3>1. PICK n \in 1 .. Len(parts) :
                 Fwrite(n) /\ parts' = SubSeq(parts, n + 1, Len(parts)) /\ Goto("receive")
      BY <2>1
    <3>2. SubSeq(parts, 1, n) \in Seq(STRING) /\ parts' \in Seq(STRING)
      BY <3>1, SubSeqProperties DEF ServerTypeOK
    <3>3. saved' \in Seq(STRING)
      BY <3>1, <3>2, ConcatProperties DEF Fwrite
    <3> QED
      BY <1>10, <3>1, <3>2, <3>3 DEF receive_data, Goto, ServerTypeOK
  <2>2. CASE Send("quit") /\ UNCHANGED << saved, parts >>
    BY <1>10, <2>2 DEF receive_data, Send, Commands, ServerTypeOK
  <2> QED
    BY <1>10, <2>1, <2>2 DEF receive_data
<1>11. CASE Quit
  BY <1>1, <1>11 DEF Quit, Goto, Outcomes
<1>12. CASE ServerNext /\ UNCHANGED client
  BY <1>12, ServerTypes DEF client
<1>13. CASE UNCHANGED vars
  BY <1>13 DEF vars, server, client, ServerTypeOK
<1> QED
  BY <1>1a, <1>2, <1>3, <1>4, <1>5, <1>6, <1>7, <1>8, <1>9, <1>10, <1>11, <1>12, <1>13
  DEF Next, ClientNext

(***************************************************************************)
(* The variables of the client and of the two connections keep their types *)
(* for every file, every way of cutting replies and every fault.           *)
(***************************************************************************)
THEOREM ClientTypes == Spec => []TypeOK
  BY TypeInit, TypeStep, PTL DEF Spec

-----------------------------------------------------------------------------
(***************************************************************************)
(* strtok cuts a string at the first delimiter, if it does not begin with  *)
(* one.                                                                    *)
(***************************************************************************)
LEMMA StrtokCuts ==
  ASSUME NEW C, NEW s \in Seq(C), NEW d, NEW k \in 2 .. Len(s), s[k] = d, \A i \in 1 .. k - 1 : s[i] # d
  PROVE  strtok(s, d) = [token |-> SubSeq(s, 1, k - 1), rest |-> SubSeq(s, k + 1, Len(s))]
<1> DEFINE I == { i \in DOMAIN s : s[i] # d }
           J == { i \in 2 .. Len(s) : s[i] = d }
<1>1. 1 \in I /\ \A i \in I : 1 <= i
  OBVIOUS
<1>2. Min(I) = 1
  <2>1. \A x \in I : (\A y \in I : x <= y) => x = 1
    BY <1>1
  <2> QED
    BY <1>1, <2>1 DEF Min
<1>3. k \in J /\ \A i \in J : k <= i
  OBVIOUS
<1>4. Min(J) = k
  <2>1. \A x \in J : (\A y \in J : x <= y) => x = k
    BY <1>3
  <2> QED
    BY <1>3, <2>1 DEF Min
<1> DEFINE from == Min(I)
<1>5. { i \in from + 1 .. Len(s) : s[i] = d } = J
  <2>1. from + 1 = 2
    BY <1>2
  <2> HIDE DEF from
  <2> QED
    BY <2>1
<1>6. I # {} /\ J # {}
  BY <1>1, <1>3
<1>7. strtok(s, d) = [token |-> SubSeq(s, Min(I), Min(J) - 1), rest |-> SubSeq(s, Min(J) + 1, Len(s))]
  BY <1>5, <1>6 DEF strtok
<1> QED
  BY <1>2, <1>4, <1>7

(***************************************************************************)
(* It takes all of a string without one, and leaves NULL.                  *)
(***************************************************************************)
LEMMA StrtokWhole ==
  ASSUME NEW C, NEW s \in Seq(C), s # << >>, NEW d, ~Has(s, d)
  PROVE  strtok(s, d) = [token |-> s, rest |-> << >>]
<1> DEFINE I == { i \in DOMAIN s : s[i] # d }
           J == { i \in 2 .. Len(s) : s[i] = d }
<1>0. Len(s) \in Nat \ {0} /\ \A i \in 1 .. Len(s) : s[i] # d
  BY EmptySeq DEF Has
<1>1. 1 \in I /\ \A i \in I : 1 <= i
  BY <1>0
<1>2. Min(I) = 1
  <2>1. \A x \in I : (\A y \in I : x <= y) => x = 1
    BY <1>1
  <2> QED
    BY <1>1, <2>1 DEF Min
<1>3. J = {}
  BY <1>0
<1>7. SubSeq(s, 1, Len(s)) = s
  OBVIOUS
<1> DEFINE from == Min(I)
<1>5. { i \in from + 1 .. Len(s) : s[i] = d } = J
  <2>1. from + 1 = 2
    BY <1>2
  <2> HIDE DEF from
  <2> QED
    BY <2>1
<1>6. I # {}
  BY <1>1
<1>8. strtok(s, d) = [token |-> SubSeq(s, Min(I), Len(s)), rest |-> << >>]
  BY <1>3, <1>5, <1>6 DEF strtok
<1> QED
  BY <1>2, <1>7, <1>8

\* A concatenation has a character when one of its parts has.
LEMMA ConcatHas ==
  ASSUME NEW C, NEW a \in Seq(C), NEW b \in Seq(C), NEW d
  PROVE  a \o b \in Seq(C) /\ (Has(a \o b, d) <=> Has(a, d) \/ Has(b, d))
<1> DEFINE ab == a \o b
<1>1. /\ ab \in Seq(C)
      /\ Len(ab) = Len(a) + Len(b)
      /\ \A i \in 1 .. Len(a) + Len(b) : ab[i] = IF i <= Len(a) THEN a[i] ELSE b[i - Len(a)]
  BY ConcatProperties
<1>2. /\ Len(a) \in Nat /\ Len(b) \in Nat
      /\ DOMAIN a = 1 .. Len(a) /\ DOMAIN b = 1 .. Len(b) /\ DOMAIN ab = 1 .. Len(ab)
  BY <1>1, LenProperties
<1> HIDE DEF ab
<1>3. ASSUME NEW i \in 1 .. Len(ab)
      PROVE  (i \in 1 .. Len(a) /\ ab[i] = a[i]) \/ (i - Len(a) \in 1 .. Len(b) /\ ab[i] = b[i - Len(a)])
  BY <1>1, <1>2
<1>4. Has(ab, d) => Has(a, d) \/ Has(b, d)
  BY <1>2, <1>3 DEF Has
<1>5. ASSUME NEW i \in 1 .. Len(a) PROVE i \in 1 .. Len(ab) /\ ab[i] = a[i]
  BY <1>1, <1>2
<1>6. ASSUME NEW i \in 1 .. Len(b) PROVE \E j \in 1 .. Len(ab) : ab[j] = b[i]
  <2>1. PICK j \in 1 .. Len(a) + Len(b) : j = Len(a) + i /\ ~(j <= Len(a)) /\ j - Len(a) = i
    BY <1>2
  <2> QED
    BY <1>1, <2>1
<1>7. Has(a, d) \/ Has(b, d) => Has(ab, d)
  BY <1>2, <1>5, <1>6 DEF Has
<1> QED
  BY <1>1, <1>4, <1>7 DEF ab

\* Three strings, one after the other.
LEMMA ThreeStrings ==
  ASSUME NEW C, NEW a \in Seq(C), NEW b \in Seq(C), NEW c \in Seq(C)
  PROVE  (a \o b) \o c = a \o (b \o c) /\ a \o b \in Seq(C) /\ b \o c \in Seq(C)
<1>1. (a \o b) \o c = a \o (b \o c)
  OBVIOUS
<1> QED
  BY <1>1, ConcatProperties

\* A single character.
LEMMA OneHas ==
  ASSUME NEW C, NEW c \in C
  PROVE  /\ << c >> \in Seq(C) /\ Len(<< c >>) = 1 /\ << c >>[1] = c /\ << c >> # << >>
         /\ \A d \in C : Has(<< c >>, d) <=> c = d
<1>1. << c >> \in Seq(C) /\ Len(<< c >>) = 1 /\ << c >>[1] = c
  OBVIOUS
<1>2. DOMAIN << c >> = {1} /\ << c >> # << >>
  BY <1>1
<1> QED
  BY <1>1, <1>2 DEF Has

(***************************************************************************)
(* A string that has a character has a first one.                          *)
(***************************************************************************)
LEMMA FirstPlace ==
  ASSUME NEW C, NEW s \in Seq(C), NEW d, Has(s, d)
  PROVE  \E k \in 1 .. Len(s) : s[k] = d /\ \A i \in 1 .. k - 1 : s[i] # d
<1> DEFINE R == { ss \in Nat \X Nat : ss[1] < ss[2] }
           T == { i \in 1 .. Len(s) : s[i] = d }
<1>1. IsWellFoundedOn(R, Nat)
  BY NatLessThanWellFounded, Zenon DEF OpToRel
<1>2. T # {} /\ T \subseteq Nat
  BY LenProperties DEF Has
<1>3. PICK m \in T : \A k \in T : << k, m >> \notin R
  <2> HIDE DEF R, T
  <2> QED
    BY <1>1, <1>2, WFMin
<1>4. ASSUME NEW k \in T PROVE ~ (k < m)
  BY <1>2, <1>3
<1>5. m \in 1 .. Len(s) /\ s[m] = d /\ \A i \in 1 .. m - 1 : s[i] # d
  BY <1>4
<1> QED
  BY <1>5

(***************************************************************************)
(* strtok takes what stands before the first delimiter and leaves what     *)
(* stands after it.                                                        *)
(***************************************************************************)
LEMMA StrtokSplits ==
  ASSUME NEW C, NEW a \in Seq(C), NEW b \in Seq(C), NEW d \in C, a # << >>, ~Has(a, d)
  PROVE  strtok((a \o << d >>) \o b, d) = [token |-> a, rest |-> b]
<1> DEFINE s == (a \o << d >>) \o b
           k == Len(a) + 1
<1>1. Len(a) \in Nat \ {0} /\ Len(b) \in Nat /\ \A i \in 1 .. Len(a) : a[i] # d
  BY EmptySeq, LenProperties DEF Has
<1>0. << d >> \in Seq(C) /\ Len(<< d >>) = 1 /\ << d >>[1] = d
  BY OneHas
<1>2. /\ a \o << d >> \in Seq(C) /\ Len(a \o << d >>) = k
      /\ (a \o << d >>)[k] = d /\ \A i \in 1 .. Len(a) : (a \o << d >>)[i] = a[i]
  BY <1>1
<1>3. /\ s \in Seq(C) /\ Len(s) = k + Len(b)
      /\ \A i \in 1 .. k : s[i] = (a \o << d >>)[i]
      /\ \A j \in 1 .. Len(b) : s[k + j] = b[j]
  BY <1>1, <1>2
<1> HIDE DEF s
<1>4. k \in 2 .. Len(s) /\ s[k] = d /\ \A i \in 1 .. k - 1 : s[i] = a[i]
  <2>1. k \in 1 .. k /\ k \in 2 .. Len(s)
    BY <1>1, <1>3
  <2>2. ASSUME NEW i \in 1 .. k - 1 PROVE i \in 1 .. k /\ i \in 1 .. Len(a)
    BY <1>1
  <2> QED
    BY <1>2, <1>3, <2>1, <2>2
<1>5. \A i \in 1 .. k - 1 : s[i] # d
  BY <1>1, <1>4
<1>6. strtok(s, d) = [token |-> SubSeq(s, 1, k - 1), rest |-> SubSeq(s, k + 1, Len(s))]
  BY <1>3, <1>4, <1>5, StrtokCuts
<1>7. SubSeq(s, 1, k - 1) = a
  <2>1. SubSeq(s, 1, k - 1) \in Seq(C) /\ Len(SubSeq(s, 1, k - 1)) = Len(a)
        /\ \A i \in 1 .. Len(a) : SubSeq(s, 1, k - 1)[i] = a[i]
    BY <1>1, <1>3, <1>4
  <2> QED
    BY <2>1, SeqEqual
<1>8. SubSeq(s, k + 1, Len(s)) = b
  <2>1. SubSeq(s, k + 1, Len(s)) \in Seq(C) /\ Len(SubSeq(s, k + 1, Len(s))) = Len(b)
        /\ \A i \in 1 .. Len(b) : SubSeq(s, k + 1, Len(s))[i] = b[i]
    BY <1>1, <1>3
  <2> QED
    BY <2>1, SeqEqual
<1> QED
  BY <1>6, <1>7, <1>8 DEF s

(***************************************************************************)
(* What it takes is no shorter than a part in front without a delimiter.   *)
(***************************************************************************)
LEMMA TokenReaches ==
  ASSUME NEW C, NEW a \in Seq(C), NEW b \in Seq(C), NEW d \in C, a # << >>, ~Has(a, d)
  PROVE  Len(strtok(a \o b, d).token) >= Len(a)
<1> DEFINE s == a \o b
<1>1. Len(a) \in Nat \ {0} /\ Len(b) \in Nat /\ \A i \in 1 .. Len(a) : a[i] # d
  BY EmptySeq, LenProperties DEF Has
<1>2. s \in Seq(C) /\ Len(s) = Len(a) + Len(b) /\ \A i \in 1 .. Len(a) : s[i] = a[i]
  BY <1>1
<1> HIDE DEF s
<1>3. CASE Has(s, d)
  <2>1. PICK k \in 1 .. Len(s) : s[k] = d /\ \A i \in 1 .. k - 1 : s[i] # d
    BY <1>2, <1>3, FirstPlace
  <2>2. k > Len(a) /\ k \in 2 .. Len(s)
    BY <1>1, <1>2, <2>1
  <2>3. strtok(s, d).token = SubSeq(s, 1, k - 1)
    BY <1>2, <2>1, <2>2, StrtokCuts
  <2>4. Len(SubSeq(s, 1, k - 1)) = k - 1
    BY <1>1, <1>2, <2>2
  <2> QED
    BY <1>1, <2>2, <2>3, <2>4 DEF s
<1>4. CASE ~Has(s, d)
  <2>1. strtok(s, d).token = s
    BY <1>1, <1>2, <1>4, StrtokWhole
  <2> QED
    BY <1>1, <1>2, <2>1 DEF s
<1> QED
  BY <1>3, <1>4

(***************************************************************************)
(* The end of a concatenation is that of its last part.                    *)
(***************************************************************************)
LEMMA ConcatEnd ==
  ASSUME NEW C, NEW a \in Seq(C), NEW b \in Seq(C), b # << >>
  PROVE  /\ Last(a \o b) = Last(b) /\ Front(a \o b) = a \o Front(b)
         /\ Front(b) \in Seq(C) /\ Len(Front(b)) = Len(b) - 1
<1> DEFINE s == a \o b
           f == Front(b)
           t == a \o f
<1>1. Len(a) \in Nat /\ Len(b) \in Nat \ {0}
  BY EmptySeq, LenProperties
<1>2. /\ s \in Seq(C) /\ Len(s) = Len(a) + Len(b)
      /\ \A i \in 1 .. Len(a) + Len(b) : s[i] = IF i <= Len(a) THEN a[i] ELSE b[i - Len(a)]
  BY ConcatProperties
<1>3. f \in Seq(C) /\ Len(f) = Len(b) - 1 /\ \A i \in 1 .. Len(b) - 1 : f[i] = b[i]
  <2>1. SubSeq(b, 1, Len(b) - 1) \in Seq(C) /\ Len(SubSeq(b, 1, Len(b) - 1)) = Len(b) - 1
        /\ \A i \in 1 .. Len(b) - 1 : SubSeq(b, 1, Len(b) - 1)[i] = b[i]
    <3>1. PICK n \in Nat : n = Len(b) - 1 /\ \A i \in 1 .. n : b[i] \in C
      BY <1>1, ElementOfSeq
    <3>2. SubSeq(b, 1, n) \in Seq(C) /\ Len(SubSeq(b, 1, n)) = n /\ \A i \in 1 .. n : SubSeq(b, 1, n)[i] = b[i]
      BY <1>1, <3>1
    <3> HIDE DEF s
    <3> QED
      BY <3>1, <3>2
  <2> QED
    BY <2>1 DEF Front
<1> HIDE DEF f
<1>4. /\ t \in Seq(C) /\ Len(t) = Len(a) + Len(b) - 1
      /\ \A i \in 1 .. Len(a) + Len(b) - 1 : t[i] = IF i <= Len(a) THEN a[i] ELSE f[i - Len(a)]
  <2>1. /\ t \in Seq(C) /\ Len(t) = Len(a) + Len(f)
        /\ \A i \in 1 .. Len(a) + Len(f) : t[i] = IF i <= Len(a) THEN a[i] ELSE f[i - Len(a)]
    BY <1>3, ConcatProperties
  <2> HIDE DEF t
  <2>2. Len(a) + Len(f) = Len(a) + Len(b) - 1
    BY <1>1, <1>3
  <2> QED
    BY <2>1, <2>2
<1> HIDE DEF s, t
<1>5. Front(s) \in Seq(C) /\ Len(Front(s)) = Len(s) - 1 /\ \A i \in 1 .. Len(s) - 1 : Front(s)[i] = s[i]
  <2>1. SubSeq(s, 1, Len(s) - 1) \in Seq(C) /\ Len(SubSeq(s, 1, Len(s) - 1)) = Len(s) - 1
        /\ \A i \in 1 .. Len(s) - 1 : SubSeq(s, 1, Len(s) - 1)[i] = s[i]
    BY <1>1, <1>2
  <2> QED
    BY <2>1 DEF Front
<1>6. Front(s) = t
  <2>1. ASSUME NEW i \in 1 .. Len(Front(s)) PROVE Front(s)[i] = t[i]
    <3>1. i \in 1 .. Len(a) + Len(b) /\ i \in 1 .. Len(a) + Len(b) - 1 /\ i \in 1 .. Len(s) - 1
      BY <1>1, <1>2, <1>5
    <3>2. ~(i <= Len(a)) => i - Len(a) \in 1 .. Len(b) - 1
      BY <1>1, <3>1
    <3> QED
      BY <1>2, <1>3, <1>4, <1>5, <3>1, <3>2
  <2> QED
    <3>1. Len(Front(s)) = Len(t)
      BY <1>1, <1>2, <1>4, <1>5
    <3> QED
      BY <1>4, <1>5, <2>1, <3>1, SeqEqual
<1>7. Last(s) = Last(b)
  <2>1. PICK n \in 1 .. Len(a) + Len(b) : n = Len(s) /\ ~(n <= Len(a)) /\ n - Len(a) = Len(b)
    BY <1>1, <1>2
  <2> QED
    BY <1>2, <2>1 DEF Last
<1> QED
  BY <1>3, <1>6, <1>7 DEF s, t, f

\* What a URL is meant to say, as main would know it.
Exact(user, password, host, path) ==
  [status |-> "ok", user |-> user, password |-> password, host |-> host, path |-> path]

\* What follows the login in a URL.
Place(host, path) == (host \o << "/" >>) \o path

\* The two forms with a login.
WithUser(user, host, path) == (user \o << "@" >>) \o Place(host, path)
WithPassword(user, password, host, path) ==
  (user \o << ":" >>) \o ((password \o << "@" >>) \o Place(host, path))

\* The fields of a login, crash being whether t is NULL.
LEMMA LoginFields ==
  ASSUME NEW r, NEW a, NEW b, NEW c, NEW t, t # << >>,
         r = [user |-> a, password |-> b, rest |-> c, crash |-> t = << >>]
  PROVE  r.user = a /\ r.password = b /\ r.rest = c /\ ~r.crash
  OBVIOUS

\* What Login takes, if there is something after a colon or not.
LEMMA LoginColon ==
  ASSUME NEW url, NEW user, NEW rest, strtok(url, ":") = [token |-> user, rest |-> rest], rest # << >>,
         NEW password, NEW place, strtok(rest, "@") = [token |-> password, rest |-> place], password # << >>
  PROVE  /\ Login(url).user = user /\ Login(url).password = password /\ Login(url).rest = place
         /\ ~Login(url).crash
<1>1. Login(url) = [user |-> user, password |-> password, rest |-> place, crash |-> password = << >>]
  BY DEF Login
<1> QED
  BY <1>1, LoginFields, SMTT(30)

LEMMA LoginNoColon ==
  ASSUME NEW url, strtok(url, ":").rest = << >>,
         NEW user, NEW place, UserOnly(url) = [token |-> user, rest |-> place], user # << >>
  PROVE  /\ Login(url).user = user /\ Login(url).password = Unset /\ Login(url).rest = place
         /\ ~Login(url).crash
<1>1. Login(url) = [user |-> user, password |-> Unset, rest |-> place, crash |-> user = << >>]
  BY DEF Login
<1> QED
  BY <1>1, LoginFields

\* Two characters are not the name main gives to the user.
LEMMA NotAnonymous ==
  ASSUME NEW x, NEW n \in Nat, n >= 2, Len(x) >= n
  PROVE  x # Anonymous
<1>1. Len(Anonymous) = 1
  BY DEF Anonymous
<1>2. ASSUME x = Anonymous PROVE FALSE
  <2>1. Len(x) = 1
    BY <1>1, <1>2
  <2> QED
    BY <2>1
<1> QED
  BY <1>2

(***************************************************************************)
(* Host and path are told apart, and hold no delimiter of a login but in   *)
(* the path.                                                               *)
(***************************************************************************)
LEMMA PlaceParts ==
  ASSUME NEW C, NEW host \in Seq(C), NEW path \in Seq(C), host # << >>, path # << >>,
         "@" \in C, ":" \in C, "/" \in C, ~Has(host, ":"), ~Has(host, "@"), ~Has(host, "/")
  PROVE  /\ Place(host, path) \in Seq(C) /\ Place(host, path) # << >>
         /\ strtok(Place(host, path), "/") = [token |-> host, rest |-> path]
         /\ Has(Place(host, path), "@") <=> Has(path, "@")
         /\ Has(Place(host, path), ":") <=> Has(path, ":")
<1> DEFINE a == host \o << "/" >>
<1>1. << "/" >> \in Seq(C) /\ (\A d \in C : Has(<< "/" >>, d) <=> "/" = d)
  BY OneHas
<1>2. a \in Seq(C) /\ (Has(a, "@") <=> FALSE) /\ (Has(a, ":") <=> FALSE)
  BY <1>1, ConcatHas
<1>3. Place(host, path) \in Seq(C) /\ (Has(Place(host, path), "@") <=> Has(path, "@")) /\ (Has(Place(host, path), ":") <=> Has(path, ":"))
  <2>1. Place(host, path) = a \o path
    BY DEF Place
  <2> HIDE DEF a
  <2>2. \A d : Has(a \o path, d) <=> Has(a, d) \/ Has(path, d)
    BY <1>2, ConcatHas
  <2>3. a \o path \in Seq(C)
    BY <1>2, ConcatHas
  <2> QED
    BY <1>2, <2>1, <2>2, <2>3
<1>4. strtok(Place(host, path), "/") = [token |-> host, rest |-> path]
  BY StrtokSplits DEF Place
<1>5. Place(host, path) # << >>
  <2>1. Len(host) \in Nat /\ Len(a) = Len(host) + 1 /\ Len(path) \in Nat
    BY <1>1, OneHas, ConcatProperties, LenProperties
  <2>2. Len(a \o path) = Len(a) + Len(path)
    BY <1>2, ConcatProperties
  <2> QED
    BY <1>3, <2>1, <2>2, EmptySeq DEF Place
<1> QED
  BY <1>3, <1>4, <1>5

(***************************************************************************)
(* A URL without a login is understood when it has no @ in it.             *)
(***************************************************************************)
LEMMA ParseNoLogin ==
  ASSUME NEW C, NEW host \in Seq(C), NEW path \in Seq(C), host # << >>, path # << >>,
         "@" \in C, ":" \in C, "/" \in C, ~Has(host, ":"), ~Has(host, "@"), ~Has(host, "/")
  PROVE  Parse(Place(host, path)) = Exact(Anonymous, Unset, host, path) <=> ~Has(path, "@")
<1>2. CASE ~Has(path, "@")
  <2>1. ~Has(Place(host, path), "@")
    BY <1>2, PlaceParts
  <2>2. strtok(Place(host, path), "/") = [token |-> host, rest |-> path]
    BY PlaceParts
  <2> QED
    BY <1>2, <2>1, <2>2 DEF Parse, NoLogin, Exact
<1>3. CASE Has(path, "@")
  <2> DEFINE s == Place(host, path)
             a == host \o << "/" >>
             f == Front(path)
  <2>1. Has(s, "@")
    BY <1>3, PlaceParts
  <2>2. << "/" >> \in Seq(C) /\ Len(<< "/" >>) = 1 /\ (\A d \in C : Has(<< "/" >>, d) <=> "/" = d)
    BY OneHas
  <2>3. a \in Seq(C) /\ ~Has(a, "@") /\ ~Has(a, ":")
    BY <2>2, ConcatHas
  <2>4. Len(a) = Len(host) + 1 /\ Len(host) \in Nat \ {0} /\ a # << >>
    BY <2>2, ConcatProperties, EmptySeq
  <2>5. Len(strtok(s, ":").token) >= Len(a)
    BY <2>3, <2>4, TokenReaches DEF Place
  <2>6. Len(strtok(s, "@").token) >= Len(a)
    BY <2>3, <2>4, TokenReaches DEF Place
  <2>7. f \in Seq(C) /\ Front(s) = a \o f
    BY <2>3, ConcatEnd DEF Place
  <2>8. Len(strtok(Front(s), "@").token) >= Len(a)
    BY <2>3, <2>4, <2>7, TokenReaches
  <2>9. UserOnly(s).token = strtok(s, "@").token \/ UserOnly(s).token = strtok(Front(s), "@").token
    BY DEF UserOnly, Uncut
  <2>10. Login(s).user = strtok(s, ":").token \/ Login(s).user = UserOnly(s).token
    BY DEF Login
  <2>11. Len(Login(s).user) >= Len(a)
    BY <2>5, <2>6, <2>8, <2>9, <2>10
  <2>12. Login(s).user # Anonymous
    BY <2>4, <2>11, NotAnonymous
  <2>13. Parse(s) = Exact(Anonymous, Unset, host, path) => Login(s).user = Anonymous
    BY <2>1 DEF Parse, Exact
  <2> QED
    BY <1>3, <2>12, <2>13
<1> QED
  BY <1>2, <1>3

(***************************************************************************)
(* With a user and a password it is always understood.                     *)
(***************************************************************************)
LEMMA ParsePassword ==
  ASSUME NEW C, NEW user \in Seq(C), NEW password \in Seq(C), NEW host \in Seq(C), NEW path \in Seq(C),
         user # << >>, password # << >>, host # << >>, path # << >>,
         "@" \in C, ":" \in C, "/" \in C,
         ~Has(user, ":"), ~Has(user, "@"), ~Has(password, "@"),
         ~Has(host, ":"), ~Has(host, "@"), ~Has(host, "/")
  PROVE  /\ Parse(WithPassword(user, password, host, path)) = Exact(user, password, host, path)
         /\ strtok(WithPassword(user, password, host, path), ":").rest # << >>
<1> DEFINE hp   == Place(host, path)
           at   == << "@" >>
           dash == << "/" >>
           colon == << ":" >>
           pre  == password \o at
           rest == pre \o hp
           name == user \o colon
           url  == name \o rest
<1>1. colon \in Seq(C) /\ at \in Seq(C) /\ dash \in Seq(C)
  BY OneHas
<1>h. Has(at, "@")
  BY OneHas
<1>2. hp \in Seq(C) /\ hp # << >> /\ strtok(hp, "/") = [token |-> host, rest |-> path]
  BY PlaceParts
<1> HIDE DEF at, dash, colon
<1>3. pre \in Seq(C) /\ rest \in Seq(C) /\ name \in Seq(C) /\ url \in Seq(C)
  BY <1>1, <1>2, ConcatProperties
<1>4. Has(url, "@") /\ rest # << >>
  <2>1. Has(pre, "@")
    BY <1>h, <1>1, ConcatHas
  <2> HIDE DEF name, pre, hp
  <2>2. \A d : Has(rest, d) <=> Has(pre, d) \/ Has(hp, d)
    BY <1>2, <1>3, ConcatHas
  <2> HIDE DEF rest
  <2>3. \A d : Has(url, d) <=> Has(name, d) \/ Has(rest, d)
    BY <1>3, ConcatHas
  <2>4. ~Has(<< >>, "@")
    BY DEF Has
  <2> QED
    BY <2>1, <2>2, <2>3, <2>4
<1>5. WithPassword(user, password, host, path) = url
  BY DEF WithPassword, at, colon
<1>6. strtok(url, ":") = [token |-> user, rest |-> rest]
  <2> HIDE DEF rest
  <2> QED
    BY <1>3, StrtokSplits DEF colon
<1>7. strtok(rest, "@") = [token |-> password, rest |-> hp]
  <2> HIDE DEF hp
  <2> QED
    BY <1>2, StrtokSplits DEF at
<1> HIDE DEF url, rest, hp
<1>8. /\ Login(url).user = user /\ Login(url).password = password /\ Login(url).rest = hp
      /\ ~Login(url).crash
  BY <1>4, <1>6, <1>7, LoginColon
<1>9. Parse(url) = Exact(user, password, host, path)
  BY <1>2, <1>4, <1>8 DEF Parse, Exact
<1> QED
  BY <1>4, <1>5, <1>6, <1>9

(***************************************************************************)
(* With a user only it is understood when it has no colon in it: otherwise *)
(* what stands before the colon is taken for the user, or a colon at the   *)
(* end is lost.                                                            *)
(***************************************************************************)
LEMMA ParseUser ==
  ASSUME NEW C, NEW user \in Seq(C), NEW host \in Seq(C), NEW path \in Seq(C),
         user # << >>, host # << >>, path # << >>,
         "@" \in C, ":" \in C, "/" \in C,
         ~Has(user, ":"), ~Has(user, "@"),
         ~Has(host, ":"), ~Has(host, "@"), ~Has(host, "/")
  PROVE  /\ Parse(WithUser(user, host, path)) = Exact(user, Unset, host, path) <=> ~Has(path, ":")
         /\ Has(WithUser(user, host, path), "@")
         /\ ~Has(path, ":") => strtok(WithUser(user, host, path), ":").rest = << >>
<1> DEFINE hp   == Place(host, path)
           at   == << "@" >>
           dash == << "/" >>
           name == user \o at
           url  == name \o hp
<1>1. at \in Seq(C) /\ dash \in Seq(C) /\ Len(at) = 1
  BY OneHas
<1>h. \A d \in C : Has(at, d) <=> "@" = d
  BY OneHas
<1> HIDE DEF at, dash
<1>2. /\ hp \in Seq(C) /\ hp # << >> /\ strtok(hp, "/") = [token |-> host, rest |-> path]
      /\ Has(hp, ":") <=> Has(path, ":")
  BY PlaceParts
<1>3. name \in Seq(C) /\ Has(name, "@") /\ ~Has(name, ":")
  BY <1>h, <1>1, ConcatHas
<1>4. Len(user) \in Nat \ {0} /\ Len(name) = Len(user) + 1 /\ name # << >>
  <2>1. Len(user) \in Nat \ {0}
    BY EmptySeq
  <2>2. Len(name) = Len(user) + Len(at)
    BY <1>1, ConcatProperties
  <2> QED
    BY <1>1, <2>1, <2>2, EmptySeq
<1>5. url \in Seq(C) /\ url # << >> /\ Has(url, "@") /\ (Has(url, ":") <=> Has(path, ":"))
  <2> HIDE DEF name, hp
  <2>1. url \in Seq(C) /\ \A d : Has(url, d) <=> Has(name, d) \/ Has(hp, d)
    BY <1>2, <1>3, ConcatHas
  <2>2. ~Has(<< >>, "@")
    BY DEF Has
  <2> QED
    BY <1>2, <1>3, <2>1, <2>2
<1>6. WithUser(user, host, path) = url
  BY DEF WithUser, at
<1>7. strtok(url, "@") = [token |-> user, rest |-> hp]
  <2> HIDE DEF hp
  <2> QED
    BY <1>2, StrtokSplits DEF at
<1>8. Len(strtok(url, ":").token) >= Len(name)
  <2> HIDE DEF name, hp
  <2> QED
    BY <1>2, <1>3, <1>4, TokenReaches
<1>9. strtok(url, ":").token # user
  BY <1>4, <1>8
<1>10. strtok(url, ":").rest # << >> => Parse(url) # Exact(user, Unset, host, path)
  <2>1. ASSUME strtok(url, ":").rest # << >>, Parse(url) = Exact(user, Unset, host, path) PROVE FALSE
    <3>1. Login(url).user = user
      BY <1>5, <2>1 DEF Parse, Exact
    <3>2. Login(url).user = strtok(url, ":").token
      BY <2>1 DEF Login
    <3> QED
      BY <1>9, <3>1, <3>2
  <2> QED
    BY <2>1
<1>11. CASE ~Has(path, ":")
  <2> HIDE DEF url, hp
  <2>1. strtok(url, ":") = [token |-> url, rest |-> << >>]
    BY <1>5, <1>11, StrtokWhole
  <2>2. Uncut(url, ":") = url
    <3>1. Len(url) \in DOMAIN url
      BY <1>5, EmptySeq, LenProperties
    <3> QED
      BY <1>5, <1>11, <3>1 DEF Uncut, Last, Has
  <2>3. UserOnly(url) = [token |-> user, rest |-> hp]
    BY <1>7, <2>2 DEF UserOnly
  <2>4. /\ Login(url).user = user /\ Login(url).password = Unset /\ Login(url).rest = hp
        /\ ~Login(url).crash
    BY <2>1, <2>3, LoginNoColon
  <2>5. Parse(url) = Exact(user, Unset, host, path)
    BY <1>2, <1>5, <2>4 DEF Parse, Exact
  <2> QED
    BY <1>5, <1>6, <1>11, <2>1, <2>5
<1>12. CASE Has(path, ":") /\ strtok(url, ":").rest = << >>
  <2> DEFINE a == host \o dash
             f == Front(path)
  <2>1. a \in Seq(C) /\ f \in Seq(C) /\ Len(f) = Len(path) - 1 /\ Front(hp) = a \o f /\ Last(hp) = Last(path)
    <3>1. a \in Seq(C)
      BY <1>1, ConcatProperties
    <3>2. f \in Seq(C) /\ Len(f) = Len(path) - 1
      BY <3>1, ConcatEnd
    <3>3. hp = a \o path
      BY DEF Place, dash
    <3> HIDE DEF a, hp
    <3>4. Front(hp) = a \o f /\ Last(hp) = Last(path)
      BY <3>1, <3>3, ConcatEnd
    <3> QED
      BY <3>1, <3>2, <3>4
  <2>2. Front(url) = name \o Front(hp) /\ Last(url) = Last(hp)
    <3> HIDE DEF name, hp
    <3> QED
      BY <1>2, <1>3, ConcatEnd
  <2>3. Last(url) = ":"
    <3> HIDE DEF url
    <3>1. PICK k \in 1 .. Len(url) : url[k] = ":" /\ \A i \in 1 .. k - 1 : url[i] # ":"
      BY <1>5, <1>12, FirstPlace
    <3>2. url[1] = user[1] /\ user[1] # ":"
      <4>1. 1 \in DOMAIN user
        BY <1>4, LenProperties
      <4>2. name[1] = user[1]
        BY <1>1, <1>4, ConcatProperties
      <4>3. url[1] = name[1]
        <5> HIDE DEF name, hp
        <5>1. 1 \in 1 .. Len(name) + Len(hp) /\ 1 <= Len(name)
          BY <1>2, <1>4, LenProperties
        <5> QED
          BY <1>2, <1>3, <5>1, ConcatProperties DEF url
      <4> QED
        BY <4>1, <4>2, <4>3 DEF Has
    <3>3. k \in 2 .. Len(url)
      BY <3>1, <3>2
    <3>4. SubSeq(url, k + 1, Len(url)) = << >>
      <4>1. strtok(url, ":") = [token |-> SubSeq(url, 1, k - 1), rest |-> SubSeq(url, k + 1, Len(url))]
        BY <1>5, <3>1, <3>3, StrtokCuts
      <4> QED
        BY <1>12, <4>1
    <3>5. k = Len(url)
      <4>1. k < Len(url) => Len(SubSeq(url, k + 1, Len(url))) = Len(url) - k
        BY <1>5, <3>1
      <4>2. Len(url) \in Nat /\ Len(SubSeq(url, k + 1, Len(url))) = 0
        BY <1>5, <3>4, EmptySeq
      <4> QED
        BY <3>1, <4>1, <4>2
    <3> QED
      BY <3>1, <3>5 DEF Last
  <2>4. strtok(Front(url), "@") = [token |-> user, rest |-> a \o f]
    <3> DEFINE g == a \o f
    <3>1. g \in Seq(C)
      BY <2>1, ConcatProperties
    <3>2. Front(url) = name \o g
      BY <2>1, <2>2
    <3> HIDE DEF g
    <3>3. strtok(name \o g, "@") = [token |-> user, rest |-> g]
      BY <3>1, StrtokSplits DEF at
    <3> QED
      BY <3>2, <3>3 DEF g
  <2>5. UserOnly(url) = [token |-> user, rest |-> a \o f]
    BY <2>3, <2>4 DEF UserOnly, Uncut
  <2>6. strtok(a \o f, "/") = [token |-> host, rest |-> f]
    <3> HIDE DEF f
    <3> QED
      BY <2>1, StrtokSplits DEF dash
  <2> HIDE DEF url, a, f
  <2>7. Login(url).rest = a \o f
    BY <1>12, <2>5 DEF Login
  <2>8. Parse(url) = Exact(user, Unset, host, path) => f = path
    <3>1. ASSUME Parse(url) = Exact(user, Unset, host, path) PROVE f = path
      <4>1. Parse(url).status = "ok" /\ Parse(url).path = path
        BY <3>1 DEF Exact
      <4>2. Parse(url).path = strtok(Login(url).rest, "/").rest
        BY <1>5, <4>1 DEF Parse
      <4> QED
        BY <2>6, <2>7, <4>1, <4>2
    <3> QED
      BY <3>1
  <2>9. f # path
    BY <2>1, LenProperties
  <2> QED
    BY <1>5, <1>6, <1>12, <2>8, <2>9
<1> QED
  BY <1>5, <1>6, <1>10, <1>11, <1>12

(***************************************************************************)
(* The documented format puts these parts together.                        *)
(***************************************************************************)
LEMMA FormatPlace ==
  ASSUME NEW C, NEW host \in Seq(C), NEW slash \in Seq(C), NEW path \in Seq(C)
  PROVE  ((<< >> \o host) \o slash) \o path = (host \o slash) \o path
<1>1. << >> \o host = host
  OBVIOUS
<1> QED
  BY <1>1

(***************************************************************************)
(* What main takes from a well-formed URL is what it was made of exactly   *)
(* when strchr and strtok leave it whole: Parse, for URLs of any length.   *)
(***************************************************************************)
LEMMA ParsesWhatIsMeant ==
  ASSUME NEW u, WellFormed(u)
  PROVE  /\ Parse(Format(u)) = Exact(u.user, u.password, u.host, u.path) <=> Understood(u)
         /\ u.user = Anonymous => u.password = Unset /\ (Has(Format(u), "@") <=> Has(u.path, "@"))
         /\ u.user # Anonymous /\ u.password = Unset
            => Has(Format(u), "@") /\ (~Has(u.path, ":") => strtok(Format(u), ":").rest = << >>)
         /\ u.user # Anonymous /\ u.password # Unset => strtok(Format(u), ":").rest # << >>
<1> DEFINE user == u.user
           password == u.password
           host == u.host
           path == u.path
<1> DEFINE C == STRING \cup {"@", ":", "/"}
<1>1. user \in Seq(C) /\ password \in Seq(C) /\ host \in Seq(C) /\ path \in Seq(C)
  <2>1. user \in Seq(STRING) /\ password \in Seq(STRING) /\ host \in Seq(STRING) /\ path \in Seq(STRING)
    BY DEF WellFormed
  <2>2. STRING \subseteq C
    OBVIOUS
  <2> HIDE DEF C
  <2> QED
    BY <2>1, <2>2, SeqMonotonic
<1>2. user # << >> /\ password # << >> /\ host # << >> /\ path # << >>
  <2>1. DOMAIN u = {"user", "password", "host", "path"}
    BY DEF WellFormed
  <2> QED
    BY <2>1 DEF WellFormed
<1>3. /\ ~Has(user, ":") /\ ~Has(user, "@") /\ ~Has(password, "@")
      /\ ~Has(host, ":") /\ ~Has(host, "@") /\ ~Has(host, "/")
      /\ user = Anonymous => password = Unset
  BY DEF WellFormed
<1>4. "@" \in C /\ ":" \in C /\ "/" \in C
  OBVIOUS
<1> HIDE DEF C
<1>5. << "@" >> \in Seq(C) /\ << ":" >> \in Seq(C) /\ << "/" >> \in Seq(C)
  BY <1>4, OneHas
<1>6. Understood(u) <=> \/ password # Unset
                        \/ user = Anonymous /\ ~Has(path, "@")
                        \/ user # Anonymous /\ ~Has(path, ":")
  BY DEF Understood
<1>7. Format(u) =
        (((IF user = Anonymous THEN << >>
           ELSE IF password = Unset THEN user \o << "@" >>
           ELSE ((user \o << ":" >>) \o password) \o << "@" >>) \o host) \o << "/" >>) \o path
  BY DEF Format
<1> HIDE DEF user, password, host, path
<1>8. CASE user = Anonymous
  <2>1. Format(u) = Place(host, path)
    BY <1>1, <1>5, <1>7, <1>8, FormatPlace DEF Place
  <2>2. Has(Format(u), "@") <=> Has(path, "@")
    BY <1>1, <1>2, <1>3, <1>4, <2>1, PlaceParts
  <2>3. Parse(Format(u)) = Exact(Anonymous, Unset, host, path) <=> ~Has(path, "@")
    BY <1>1, <1>2, <1>3, <1>4, <2>1, ParseNoLogin
  <2> QED
    BY <1>3, <1>6, <1>8, <2>2, <2>3 DEF user, password, host, path
<1>9. CASE user # Anonymous /\ password = Unset
  <2>1. Format(u) = WithUser(user, host, path)
    <3> DEFINE slash == << "/" >>
               name  == user \o << "@" >>
    <3>1. Format(u) = ((name \o host) \o slash) \o path
      BY <1>7, <1>9
    <3>2. name \in Seq(C)
      BY <1>1, <1>5, ConcatProperties
    <3>3. slash \in Seq(C)
      BY <1>5
    <3> HIDE DEF slash, name
    <3>4. ((name \o host) \o slash) \o path = name \o ((host \o slash) \o path)
      BY <1>1, <3>2, <3>3, SMTT(60)
    <3> QED
      BY <3>1, <3>4 DEF WithUser, Place, slash, name
  <2> QED
    BY <1>1, <1>2, <1>3, <1>4, <1>6, <1>9, <2>1, ParseUser DEF user, password, host, path
<1>10. CASE user # Anonymous /\ password # Unset
  <2>1. Format(u) = WithPassword(user, password, host, path)
    <3> DEFINE at    == << "@" >>
               slash == << "/" >>
               name  == user \o << ":" >>
    <3>1. Format(u) = ((((name \o password) \o at) \o host) \o slash) \o path
      BY <1>7, <1>10
    <3>2. name \in Seq(C)
      BY <1>1, <1>5, ConcatProperties
    <3>4. at \in Seq(C) /\ slash \in Seq(C)
      BY <1>5
    <3> HIDE DEF at, slash, name
    <3> DEFINE np == (name \o password) \o at
               hp == (host \o slash) \o path
    <3>5. np \in Seq(C)
      BY <1>1, <3>2, <3>4, ThreeStrings, ConcatProperties
    <3>6. hp \in Seq(C)
      BY <1>1, <3>4, ThreeStrings, ConcatProperties
    <3>7. ((np \o host) \o slash) \o path = np \o hp
      <4> HIDE DEF np
      <4> QED
        BY <1>1, <3>4, <3>5, SMTT(60)
    <3>8. np \o hp = name \o ((password \o at) \o hp)
      <4> HIDE DEF hp
      <4>1. password \in Seq(C) /\ at \in Seq(C)
        BY <1>1, <3>4
      <4> QED
        BY <3>2, <3>6, <4>1, SMTT(30)
    <3> QED
      BY <3>1, <3>7, <3>8 DEF WithPassword, Place, at, slash, name
  <2> QED
    BY <1>1, <1>2, <1>3, <1>4, <1>6, <1>10, <2>1, ParsePassword DEF user, password, host, path
<1> QED
  BY <1>8, <1>9, <1>10

(***************************************************************************)
(* What main takes from a URL is what it was made of exactly when the path *)
(* without a login has no @ in it, and the path with a user only no colon: *)
(* Start, for requests of any length.                                      *)
(***************************************************************************)
LEMMA TypesParse == TypeOK => ParsesExactly
<1> SUFFICES ASSUME TypeOK, target.status # "unparsed"
             PROVE  target = Exact(request.user, request.password, request.host, request.path)
                    <=> Understood(request)
  BY DEF ParsesExactly, Exact
<1>1. request \in Requests /\ target \in {[status |-> "unparsed"], Targets[request]}
  BY DEF TypeOK
<1>2. target = Parse(Format(request))
  BY <1>1 DEF Targets
<1>3. WellFormed(request)
  BY <1>1, RequestsAssumption
<1> QED
  BY <1>2, <1>3, ParsesWhatIsMeant

THEOREM ParsesAll == Spec => []ParsesExactly
  BY ClientTypes, TypesParse, PTL

-----------------------------------------------------------------------------
LinesUnderWay == LinesOf(replies)

\* The server has not yet obeyed the command of the client.
Unanswered == pc \in {"start", "write"} \/ commands # << >>

Greeting == {"220-", "220"}
Logins   == {"230-", "230", "530_Login_incorrect"}

\* Which lines may be under way while the client is at a command.
LinesFit ==
  /\ command = "hello" => LinesUnderWay \subseteq Greeting \cup {"530_Please_login"}
  /\ command = "user"  => LinesUnderWay \subseteq Greeting \cup {"530_Please_login", "331"}
  /\ command = "pass"  => LinesUnderWay \subseteq Greeting \cup {"530_Please_login", "331"} \cup Logins
  /\ Unanswered => /\ command = "hello" => "530_Please_login" \notin LinesUnderWay
                   /\ command = "user"  => "331" \notin LinesUnderWay
                   /\ command = "pass"  => LinesUnderWay \cap Logins = {}
                   /\ command = "pasv"  => "227" \notin LinesUnderWay

\* Before RETR the client sends a command only when the last one was obeyed.
OneCommand ==
  /\ command \in {"hello", "user", "pass", "pasv"} =>
       /\ transfer.state = "none"
       /\ commands = << >> \/ commands = << command >>
       /\ pc \in {"start", "write", "connect"} => commands = << >>
  /\ command \in {"RETR", "quit"} => \A i \in 1 .. Len(commands) : commands[i] \in {"RETR", "quit"}

\* What a reply says of the server.
RepliesFit ==
  /\ command = "pass" /\ ("230-" \in LinesUnderWay \/ "230" \in LinesUnderWay) => session = "in"
  /\ command \in {"pasv", "RETR"} => session = "in"
  /\ command = "pasv" /\ "227" \in LinesUnderWay => data = "listening"
  /\ pc = "connect" => command = "pasv" /\ data = "listening"
  /\ pc = "receive" => command = "RETR"

Fits == session = "closed" \/ (LinesFit /\ OneCommand /\ RepliesFit)

\* main connects once it has taken the URL apart.
NotConnected == pc = "start" => session = "none" /\ command = "hello"

IInv == NotConnected /\ Fits

\* The invariant of the session holds initially.
LEMMA SessionInit == Init => IInv
<1> SUFFICES ASSUME Init PROVE IInv
  OBVIOUS
<1>1. LinesUnderWay = {}
  BY DEF Init, ServerInit, LinesUnderWay, LinesOf
<1> QED
  BY <1>1 DEF Init, ServerInit, IInv, NotConnected, Fits, LinesFit, OneCommand, RepliesFit

(***************************************************************************)
(* The commands that are left when the server has obeyed one.              *)
(***************************************************************************)
LEMMA ObeyLeaves ==
  ASSUME TypeOK, OneCommand, NEW c, Obey(c)
  PROVE  /\ command \in {"hello", "user", "pass", "pasv"} =>
              c = command /\ commands' = << >> /\ pc \notin {"start", "write", "connect"}
         /\ command \in {"RETR", "quit"} =>
              /\ c \in {"RETR", "quit"}
              /\ \A i \in 1 .. Len(commands') : commands'[i] \in {"RETR", "quit"}
         /\ commands # << >>
<1>1. commands \in Seq(Commands) /\ commands # << >> /\ c = Head(commands) /\ commands' = Tail(commands)
  BY DEF Obey, TypeOK, ServerTypeOK
<1>2. CASE command \in {"hello", "user", "pass", "pasv"}
  <2>1. commands = << command >>
    BY <1>1, <1>2 DEF OneCommand
  <2> QED
    BY <1>1, <1>2, <2>1 DEF OneCommand
<1>3. CASE command \in {"RETR", "quit"}
  <2>1. \A i \in 1 .. Len(commands) : commands[i] \in {"RETR", "quit"}
    BY <1>3 DEF OneCommand
  <2>2. 1 \in 1 .. Len(commands) /\ c = commands[1]
    BY <1>1
  <2>3. /\ Len(commands) \in Nat /\ Len(commands') = Len(commands) - 1
        /\ \A i \in 1 .. Len(commands') : commands'[i] = commands[i + 1]
    BY <1>1, HeadTailProperties
  <2>4. \A i \in 1 .. Len(commands') : i + 1 \in 1 .. Len(commands)
    BY <2>3
  <2> QED
    BY <1>1, <1>3, <2>1, <2>2, <2>3, <2>4
<1> QED
  BY <1>1, <1>2, <1>3 DEF TypeOK, Commands

-----------------------------------------------------------------------------
(***************************************************************************)
(* A step of the server keeps the invariant while the session is open.     *)
(***************************************************************************)
LEMMA ServerKeeps ==
  ASSUME TypeOK, session # "closed", LinesFit, OneCommand, RepliesFit,
         ServerNext, UNCHANGED client
  PROVE  Fits'
<1> DEFINE L == LinesUnderWay
<1>0. /\ pc' = pc /\ command' = command /\ command \in Commands
      /\ replies \in Seq(Parts)
  BY DEF client, TypeOK, ServerTypeOK
<1>1. ASSUME NEW l \in Lines, Say(l) PROVE L' = L \cup {l}
  BY <1>0, <1>1, SayAdds DEF LinesUnderWay
<1>2. {"530_Please_login", "331", "227", "150", "221", "226", "426"} \cup Refusals \subseteq Lines
  BY ServerAssumption DEF ServerAssumption, Lines
<1>2a. ASSUME NEW c \in {"hello", "user", "pass", "pasv"}, Obey(c)
       PROVE  command = c /\ commands' = << >> /\ pc \notin {"start", "write", "connect"}
  <2>1. command \notin {"RETR", "quit"}
    BY <1>2a, ObeyLeaves
  <2> QED
    BY <1>0, <1>2a, <2>1, ObeyLeaves DEF Commands
<1>3. CASE Greet
  <2>1. PICK ls \in Greetings : SayLines(ls)
    BY <1>3 DEF Greet
  <2>2. L' \subseteq L \cup Greeting /\ L \subseteq L'
    <3>1. L' = L \cup {ls[1], ls[Len(ls)]}
      BY <1>0, <2>1, SayLinesAdds DEF LinesUnderWay
    <3>2. ls = <<"220">> \/ ls = <<"220-", "220">>
      BY ServerAssumption DEF ServerAssumption
    <3>3. ls[1] \in Greeting /\ ls[Len(ls)] \in Greeting
      BY <3>2 DEF Greeting
    <3> QED
      BY <3>1, <3>3
  <2>3. session = "new" /\ command \notin {"pasv", "RETR"}
    BY <1>3 DEF Greet, RepliesFit
  <2> QED
    BY <1>0, <1>3, <2>2, <2>3 DEF Greet, Fits, LinesFit, OneCommand, RepliesFit, Unanswered, Greeting, Logins
<1>4. CASE OnHello
  <2>1. L' = L \cup {"530_Please_login"}
    BY <1>1, <1>2, <1>4 DEF OnHello
  <2>2. command = "hello" /\ commands' = << >> /\ pc \notin {"start", "write", "connect"}
    BY <1>2a, <1>4 DEF OnHello
  <2> QED
    BY <1>0, <1>4, <2>1, <2>2 DEF OnHello, Fits, LinesFit, OneCommand, RepliesFit, Unanswered, Greeting, Logins
<1>5. CASE OnUser
  <2>1. L' = L \cup {"331"}
    BY <1>1, <1>2, <1>5 DEF OnUser
  <2>2. command = "user" /\ commands' = << >> /\ pc \notin {"start", "write", "connect"}
    BY <1>2a, <1>5 DEF OnUser
  <2> QED
    BY <1>0, <1>5, <2>1, <2>2 DEF OnUser, Fits, LinesFit, OneCommand, RepliesFit, Unanswered, Greeting, Logins
<1>6. CASE OnPass
  <2>1. PICK ls \in PassReplies : SayLines(ls) /\ session' = IF ls[Len(ls)] = "230" THEN "in" ELSE "ready"
    BY <1>6 DEF OnPass
  <2>2. L' = L \cup {ls[1], ls[Len(ls)]}
    BY <1>0, <2>1, SayLinesAdds DEF LinesUnderWay
  <2>3. ls = <<"230">> \/ ls = <<"230-", "230">> \/ ls = <<"530_Login_incorrect">>
    BY ServerAssumption DEF ServerAssumption
  <2>4. L' \subseteq L \cup Logins /\ ("230" \in L' \/ "230-" \in L' => session' = "in")
    <3>1. command = "pass" /\ L \cap Logins = {}
      <4>1. Obey("pass")
        BY <1>6 DEF OnPass
      <4>2. command = "pass" /\ Unanswered
        BY <1>2a, <4>1 DEF Obey, Unanswered
      <4> QED
        BY <4>2 DEF LinesFit
    <3>2. CASE ls = <<"230">> \/ ls = <<"230-", "230">>
      <4>1. CASE ls = <<"230">>
        BY <2>1, <2>2, <4>1 DEF Logins
      <4>2. CASE ls = <<"230-", "230">>
        BY <2>1, <2>2, <4>2 DEF Logins
      <4> QED
        BY <3>2, <4>1, <4>2
    <3>3. CASE ls = <<"530_Login_incorrect">>
      <4>1. ls[Len(ls)] = "530_Login_incorrect" /\ ls[1] = "530_Login_incorrect"
        BY <3>3
      <4> QED
        BY <2>1, <2>2, <3>1, <4>1 DEF Logins
    <3> QED
      BY <2>3, <3>2, <3>3
  <2>5. command = "pass" /\ commands' = << >> /\ pc \notin {"start", "write", "connect"}
    BY <1>2a, <1>6 DEF OnPass
  <2> QED
    BY <1>0, <1>6, <2>4, <2>5 DEF OnPass, Fits, LinesFit, OneCommand, RepliesFit, Unanswered, Greeting, Logins
<1>7. CASE OnPasv
  <2>1. command = "pasv" /\ commands' = << >> /\ pc \notin {"start", "write", "connect"}
    BY <1>2a, <1>7 DEF OnPasv
  <2>2. session = "in" /\ session' = "in" /\ data' = "listening"
    BY <1>7, <2>1 DEF OnPasv, RepliesFit
  <2> QED
    BY <1>0, <1>7, <2>1, <2>2 DEF OnPasv, Fits, LinesFit, OneCommand, RepliesFit, Unanswered
<1>8. CASE OnRetr
  <2>1. /\ command \in {"RETR", "quit"}
        /\ \A i \in 1 .. Len(commands') : commands'[i] \in {"RETR", "quit"}
    <3>1. Obey("RETR")
      BY <1>8 DEF OnRetr
    <3>2. command \notin {"hello", "user", "pass", "pasv"}
      BY <3>1, ObeyLeaves
    <3> QED
      BY <1>0, <3>1, <3>2, ObeyLeaves DEF Commands
  <2>2. session' = session /\ pc # "connect"
    BY <1>8, <2>1 DEF OnRetr, RepliesFit
  <2> QED
    <3>1. LinesFit'
      BY <1>0, <2>1 DEF LinesFit
    <3>2. OneCommand'
      BY <1>0, <2>1, <2>2 DEF OneCommand
    <3>3. RepliesFit'
      BY <1>0, <2>1, <2>2 DEF RepliesFit
    <3> QED
      BY <3>1, <3>2, <3>3 DEF Fits
<1>9. CASE OnQuit
  BY <1>9 DEF OnQuit, Fits
<1>10. CASE SendPart \/ SendEnd \/ Abort
  <2>1. command \in {"RETR", "quit"}
    BY <1>0, <1>10 DEF SendPart, SendEnd, Abort, OneCommand, Commands
  <2>2. session' = session /\ commands' = commands /\ pc # "connect"
    BY <1>10, <2>1 DEF SendPart, SendEnd, Abort, RepliesFit
  <2> QED
    <3>1. LinesFit'
      BY <1>0, <2>1 DEF LinesFit
    <3>2. OneCommand'
      BY <1>0, <2>1, <2>2 DEF OneCommand
    <3>3. RepliesFit'
      BY <1>0, <2>1, <2>2 DEF RepliesFit
    <3> QED
      BY <3>1, <3>2, <3>3 DEF Fits
<1>11. CASE Close
  BY <1>11 DEF Close, Fits
<1> QED
  BY <1>3, <1>4, <1>5, <1>6, <1>7, <1>8, <1>9, <1>10, <1>11 DEF ServerNext, Serve


-----------------------------------------------------------------------------
(***************************************************************************)
(* A step of the client keeps the invariant while the session is open.     *)
(***************************************************************************)
LEMMA ClientKeeps ==
  ASSUME TypeOK, NotConnected, session # "closed", LinesFit, OneCommand, RepliesFit, ClientNext
  PROVE  Fits'
<1> DEFINE L == LinesUnderWay
<1>0. command \in Commands /\ replies \in Seq(Parts) /\ commands \in Seq(Commands)
  BY DEF TypeOK, ServerTypeOK
<1>1. ASSUME Recv
      PROVE  /\ pc = "recv"
             /\ commands' = commands /\ session' = session /\ data' = data /\ transfer' = transfer
             /\ L' \subseteq L
             /\ response' \in Seq(Parts) /\ LinesOf(response') \subseteq L
  BY <1>0, <1>1, RecvTakes DEF Recv, LinesUnderWay
<1>1a. CASE Start
  <2>1. /\ pc = "start" /\ command = "hello" /\ command' = command
        /\ UNCHANGED << commands, replies, data, transfer >>
        /\ pc' \in {"write", "exited", "crashed"}
    BY <1>1a DEF Start, Goto, NotConnected
  <2>2. L' = L
    BY <2>1 DEF LinesUnderWay
  <2> QED
    BY <2>1, <2>2 DEF Fits, LinesFit, OneCommand, RepliesFit, Unanswered
\* Main goes on to another command, or to the data connection, after an
\* answer, so that the server has obeyed.
<1>2. CASE Write
  <2>1. /\ commands' = Append(commands, command) /\ pc' = "recv" /\ pc = "write"
        /\ UNCHANGED << command, replies, session, data, transfer >>
    BY <1>2 DEF Write, Goto
  <2>2. L' = L
    BY <2>1 DEF LinesUnderWay
  <2>3. LinesFit'
    BY <2>1, <2>2 DEF LinesFit, Unanswered
  <2>4. OneCommand'
    <3>1. CASE command \in {"hello", "user", "pass", "pasv"}
      <4>1. commands = << >>
        BY <2>1, <3>1 DEF OneCommand
      <4>2. commands' = << command >>
        BY <2>1, <4>1
      <4> QED
        BY <2>1, <3>1, <4>2 DEF OneCommand
    <3>2. CASE command \in {"RETR", "quit"}
      <4>1. \A i \in 1 .. Len(commands) : commands[i] \in {"RETR", "quit"}
        BY <3>2 DEF OneCommand
      <4>2. /\ Len(commands') = Len(commands) + 1 /\ Len(commands) \in Nat
            /\ \A i \in 1 .. Len(commands) : commands'[i] = commands[i]
            /\ commands'[Len(commands) + 1] = command
        BY <1>0, <2>1, AppendProperties, LenProperties
      <4>3. ASSUME NEW i \in 1 .. Len(commands') PROVE commands'[i] \in {"RETR", "quit"}
        <5>1. i \in 1 .. Len(commands) \/ i = Len(commands) + 1
          BY <4>2
        <5> QED
          BY <3>2, <4>1, <4>2, <5>1
      <4> QED
        BY <2>1, <3>2, <4>3 DEF OneCommand
    <3> QED
      BY <1>0, <3>1, <3>2 DEF Commands
  <2>5. RepliesFit'
    BY <2>1, <2>2 DEF RepliesFit
  <2> QED
    BY <2>3, <2>4, <2>5 DEF Fits
<1>3. CASE RecvFails
  BY <1>3 DEF RecvFails
<1>4. CASE Hello
  <2>0. command = "hello" /\ Recv
    BY <1>4 DEF Hello
  <2>1. CASE LoginWanted(response')
    <3>1. "530_Please_login" \in L
      BY <1>1, <2>0, <2>1, TestsFind
    <3>2. commands = << >>
      BY <2>0, <3>1 DEF LinesFit, Unanswered
    <3>3. command' = "user" /\ pc' = "write"
      BY <1>4, <2>1 DEF Hello, Send
    <3> QED
      BY <1>1, <2>0, <3>2, <3>3 DEF Fits, LinesFit, OneCommand, RepliesFit, Greeting, Logins
  <2>2. CASE ~LoginWanted(response')
    <3>1. command' = command /\ pc' = "recv"
      BY <1>4, <2>2 DEF Hello, Goto
    <3> QED
      BY <1>1, <2>0, <3>1 DEF Fits, LinesFit, OneCommand, RepliesFit, Unanswered
  <2> QED
    BY <2>1, <2>2
<1>5. CASE User
  <2>0. command = "user" /\ Recv
    BY <1>5 DEF User
  <2>1. CASE StartsWithText(response', "331")
    <3>1. "331" \in L
      BY <1>1, <2>0, <2>1, TestsFind
    <3>2. commands = << >>
      BY <2>0, <3>1 DEF LinesFit, Unanswered
    <3>3. command' = "pass" /\ pc' = "write"
      BY <1>5, <2>1 DEF User, Send
    <3> QED
      BY <1>1, <2>0, <3>2, <3>3 DEF Fits, LinesFit, OneCommand, RepliesFit, Greeting, Logins
  <2>2. CASE ~StartsWithText(response', "331")
    <3>1. command' = command /\ pc' = "exited"
      BY <1>5, <2>2 DEF User, Goto
    <3> QED
      BY <1>1, <2>0, <3>1 DEF Fits, LinesFit, OneCommand, RepliesFit, Unanswered
  <2> QED
    BY <2>1, <2>2
<1>6. CASE Pass
  <2>0. command = "pass" /\ Recv
    BY <1>6 DEF Pass
  <2>1. CASE LoggedIn(response')
    <3>1. "230-" \in L \/ "230" \in L
      BY <1>1, <2>0, <2>1, TestsFind
    <3>2. commands = << >> /\ session = "in"
      BY <2>0, <3>1 DEF LinesFit, Unanswered, RepliesFit, Logins
    <3>3. command' = "pasv" /\ pc' = "write"
      BY <1>6, <2>1 DEF Pass, Send
    <3>4. "227" \notin L
      BY <2>0 DEF LinesFit, Greeting, Logins
    <3> QED
      BY <1>1, <2>0, <3>2, <3>3, <3>4 DEF Fits, LinesFit, OneCommand, RepliesFit
  <2>2. CASE ~LoggedIn(response')
    <3>1. command' = command /\ pc' = "exited"
      BY <1>6, <2>2 DEF Pass, Goto
    <3> QED
      BY <1>1, <2>0, <3>1 DEF Fits, LinesFit, OneCommand, RepliesFit, Unanswered
  <2> QED
    BY <2>1, <2>2
<1>7. CASE Pasv
  <2>0. command = "pasv" /\ Recv /\ command' = command
    BY <1>7 DEF Pasv, Goto
  <2>1. CASE PortGiven(response')
    <3>1. "227" \in L
      BY <1>1, <2>0, <2>1, TestsFind
    <3>2. commands = << >> /\ data = "listening"
      BY <2>0, <3>1 DEF LinesFit, Unanswered, RepliesFit
    <3>3. pc' = "connect"
      BY <1>7, <2>1 DEF Pasv, Goto
    <3> QED
      BY <1>1, <2>0, <3>2, <3>3 DEF Fits, LinesFit, OneCommand, RepliesFit, Unanswered
  <2>2. CASE ~PortGiven(response')
    <3>1. pc' = "exited"
      BY <1>7, <2>2 DEF Pasv, Goto
    <3> QED
      BY <1>1, <2>0, <3>1 DEF Fits, LinesFit, OneCommand, RepliesFit, Unanswered
  <2> QED
    BY <2>1, <2>2
<1>8. CASE Connect
  <2>1. /\ command' = "RETR" /\ pc' = "write" /\ command = "pasv"
        /\ commands' = << >> /\ session' = session /\ session = "in"
    BY <1>8 DEF Connect, Send, OneCommand, RepliesFit
  <2> QED
    BY <2>1 DEF Fits, LinesFit, OneCommand, RepliesFit
<1>9. CASE Retr \/ receive_data \/ Quit
  <2>1. /\ command \in {"RETR", "quit"}
        /\ command' \in {command, "quit"}
        /\ commands' = commands /\ session' = session
        /\ pc' # "connect" /\ (pc' = "receive" => command' = "RETR")
    <3>1. CASE Retr
      BY <1>1, <3>1 DEF Retr, Goto, Send
    <3>2. CASE receive_data
      BY <3>2 DEF receive_data, Goto, Send, RepliesFit
    <3>3. CASE Quit
      BY <1>1, <3>3 DEF Quit, Goto
    <3> QED
      BY <1>9, <3>1, <3>2, <3>3
  <2>2. command' = "RETR" => command = "RETR"
    BY <2>1
  <2>3. LinesFit'
    BY <2>1 DEF LinesFit
  <2>4. OneCommand'
    BY <2>1 DEF OneCommand
  <2>5. RepliesFit'
    BY <2>1, <2>2 DEF RepliesFit
  <2> QED
    BY <2>3, <2>4, <2>5 DEF Fits
<1> QED
  BY <1>1a, <1>2, <1>3, <1>4, <1>5, <1>6, <1>7, <1>8, <1>9 DEF ClientNext


(***************************************************************************)
(* A closed session is not opened again.                                   *)
(***************************************************************************)
LEMMA StaysClosed ==
  ASSUME NotConnected, session = "closed", [Next]_vars PROVE session' = "closed"
<1>1. CASE ClientNext
  BY <1>1 DEF NotConnected, ClientNext, Start, Write, RecvFails, Hello, User, Pass, Pasv, Connect, Retr, receive_data,
              Quit, Recv, server
<1>2. CASE ServerNext
  BY <1>2 DEF ServerNext, Serve, Greet, OnHello, OnUser, OnPass, OnPasv, OnRetr, OnQuit, Obey,
              SendPart, SendEnd, Abort, Close
<1>3. CASE UNCHANGED vars
  BY <1>3 DEF vars, server
<1> QED
  BY <1>1, <1>2, <1>3 DEF Next

\* Every step keeps NotConnected.
LEMMA ConnectsOnce ==
  ASSUME NotConnected, [Next]_vars PROVE NotConnected'
<1>1. CASE ClientNext
  <2>1. pc' # "start"
    BY <1>1 DEF ClientNext, Start, Write, RecvFails, Hello, User, Pass, Pasv, Connect, Retr, receive_data,
                Quit, Goto, Send
  <2> QED
    BY <2>1 DEF NotConnected
<1>2. CASE ServerNext /\ UNCHANGED client
  <2>1. session = "none" => session' = "none"
    BY <1>2 DEF ServerNext, Serve, Greet, OnHello, OnUser, OnPass, OnPasv, OnRetr, OnQuit, Obey,
                SendPart, SendEnd, Abort, Close
  <2> QED
    BY <1>2, <2>1 DEF NotConnected, client
<1>3. CASE UNCHANGED vars
  BY <1>3 DEF NotConnected, vars, server, client
<1> QED
  BY <1>1, <1>2, <1>3 DEF Next

\* Every step keeps the invariant of the session.
LEMMA SessionStep ==
  ASSUME TypeOK, IInv, [Next]_vars PROVE IInv'
<1>0. NotConnected /\ Fits /\ NotConnected'
  BY ConnectsOnce DEF IInv
<1> SUFFICES Fits'
  BY <1>0 DEF IInv
<1>1. CASE session = "closed"
  BY <1>0, <1>1, StaysClosed DEF Fits
<1>2. CASE session # "closed"
  <2>1. LinesFit /\ OneCommand /\ RepliesFit
    BY <1>0, <1>2 DEF Fits
  <2>2. CASE ClientNext
    BY <1>2, <1>0, <2>1, <2>2, ClientKeeps
  <2>3. CASE ServerNext /\ UNCHANGED client
    BY <1>2, <2>1, <2>3, ServerKeeps
  <2>4. CASE UNCHANGED vars
    BY <2>1, <2>4 DEF vars, server, client, Fits, LinesFit, OneCommand, RepliesFit, Unanswered,
                      LinesUnderWay, LinesOf
  <2> QED
    BY <2>2, <2>3, <2>4 DEF Next
<1> QED
  BY <1>1, <1>2

\* The invariant of the session implies the property SessionFits.
LEMMA InvariantFits == IInv => SessionFits
  BY DEF IInv, Fits, RepliesFit, SessionFits

(***************************************************************************)
(* main asks for a data connection only when the server has let it in, and *)
(* connects only to a port the server listens on, unless the server has    *)
(* closed the session: however the replies are cut, whatever has been said *)
(* in them, and for every fault.                                           *)
(***************************************************************************)
THEOREM NeverAhead == Spec => []SessionFits
<1>1. Init => TypeOK /\ IInv
  BY TypeInit, SessionInit
<1>2. (TypeOK /\ IInv) /\ [Next]_vars => (TypeOK /\ IInv)'
  BY TypeStep, SessionStep
<1>3. TypeOK /\ IInv => SessionFits
  BY InvariantFits
<1> QED
  BY <1>1, <1>2, <1>3, PTL DEF Spec

-----------------------------------------------------------------------------
\* What has been saved and what is under way is the file, up to what the
\* server has sent; a reset may have lost the end of it.
Stream ==
  /\ Len(saved) + Len(parts) <= transfer.sent
  /\ transfer.state # "aborted" => Len(saved) + Len(parts) = transfer.sent
  /\ transfer.state = "sending" => data = "connected"
  /\ data \in {"none", "listening", "connected"} => transfer.state \in {"none", "sending"}
  /\ transfer.state = "complete" => transfer.sent = Len(File)
  /\ \A i \in 1 .. Len(saved) : saved[i] = File[i]
  /\ \A i \in 1 .. Len(parts) : parts[i] = File[Len(saved) + i]

\* Nothing is saved and nothing is sent at first.
LEMMA StreamInit == Init => Stream
  BY DEF Init, ServerInit, Stream

\* The types the proof about the data connection needs.
TransferTypes == ServerTypeOK /\ saved \in Seq(STRING)

\* TypeOK has them.
LEMMA StreamTypes ==
  ASSUME TransferTypes
  PROVE  /\ saved \in Seq(STRING) /\ parts \in Seq(STRING)
         /\ Len(saved) \in Nat /\ Len(parts) \in Nat
         /\ transfer.sent \in 0 .. Len(File)
  BY DEF TransferTypes, ServerTypeOK

(***************************************************************************)
(* Positions and lengths when n parts move from one sequence to another.   *)
(***************************************************************************)
LEMMA Positions ==
  ASSUME NEW a \in Nat, NEW n \in Nat
  PROVE  /\ \A b \in Nat : (a + n) + (b - n) = a + b
         /\ \A i \in 1 .. a + n : ~(i <= a) => \E k \in 1 .. n : k = i - a /\ a + k = i
<1>1. ASSUME NEW i \in 1 .. a + n, ~(i <= a) PROVE \E k \in 1 .. n : k = i - a /\ a + k = i
  <2>1. i - a \in 1 .. n /\ a + (i - a) = i
    BY <1>1
  <2> QED
    BY <2>1
<1> QED
  BY <1>1

(***************************************************************************)
(* fwrite appends what recv has taken from the data connection.            *)
(***************************************************************************)
LEMMA FwriteKeeps ==
  ASSUME TransferTypes, Stream, NEW n \in 1 .. Len(parts),
         Fwrite(n), parts' = SubSeq(parts, n + 1, Len(parts)), UNCHANGED << data, transfer >>
  PROVE  Stream'
<1>1. /\ saved \in Seq(STRING) /\ parts \in Seq(STRING)
      /\ Len(saved) \in Nat /\ Len(parts) \in Nat /\ n \in Nat /\ 1 <= n /\ n <= Len(parts)
      /\ transfer.sent \in Nat
  BY StreamTypes, FileType
<1> DEFINE taken == SubSeq(parts, 1, n)
<1>2. /\ taken \in Seq(STRING) /\ Len(taken) = n
      /\ \A i \in 1 .. n : taken[i] = parts[i]
  <2>1. \A i \in 1 .. n : parts[i] \in STRING
    BY <1>1, ElementOfSeq
  <2> QED
    BY <1>1, <2>1, SubSeqProperties
<1>3. /\ Len(parts') = Len(parts) - n
      /\ \A i \in 1 .. Len(parts') : parts'[i] = parts[n + i]
  <2>1. \A i \in n + 1 .. Len(parts) : parts[i] \in STRING
    BY <1>1, ElementOfSeq
  <2> QED
    BY <1>1, <2>1, SubSeqProperties
<1>4. /\ Len(saved') = Len(saved) + n
      /\ \A i \in 1 .. Len(saved') : saved'[i] = IF i <= Len(saved) THEN saved[i] ELSE taken[i - Len(saved)]
  <2>1. saved' = saved \o taken
    BY DEF Fwrite
  <2> QED
    BY <1>1, <1>2, <2>1, ConcatProperties
<1> HIDE DEF taken
<1>5. ASSUME NEW i \in 1 .. Len(saved') PROVE saved'[i] = File[i]
  <2>1. CASE i <= Len(saved)
    <3>1. i \in 1 .. Len(saved) /\ saved'[i] = saved[i]
      BY <1>1, <1>4, <2>1
    <3> QED
      BY <3>1 DEF Stream
  <2>2. CASE ~(i <= Len(saved))
    <3>0. Len(saved) \in Nat /\ n \in Nat /\ i \in 1 .. Len(saved) + n
      BY <1>1, <1>4
    <3>1. PICK k \in 1 .. n : k = i - Len(saved) /\ Len(saved) + k = i
      BY <2>2, <3>0, Positions, Zenon
    <3>2. saved'[i] = parts[k] /\ k \in 1 .. Len(parts)
      BY <1>1, <1>2, <1>4, <2>2, <3>1
    <3> QED
      BY <3>1, <3>2 DEF Stream
  <2> QED
    BY <2>1, <2>2
<1>6. ASSUME NEW i \in 1 .. Len(parts') PROVE parts'[i] = File[Len(saved') + i]
  <2>1. n + i \in 1 .. Len(parts) /\ Len(saved) + (n + i) = Len(saved') + i
    BY <1>1, <1>3, <1>4
  <2> QED
    BY <1>3, <2>1 DEF Stream
<1>7. Len(saved') + Len(parts') = Len(saved) + Len(parts)
  <2>1. Len(saved') = Len(saved) + n /\ Len(parts') = Len(parts) - n
    BY <1>3, <1>4
  <2>2. Len(saved) \in Nat /\ Len(parts) \in Nat /\ n \in Nat
    BY <1>1
  <2>3. (Len(saved) + n) + (Len(parts) - n) = Len(saved) + Len(parts)
    BY <2>2, Positions, Zenon
  <2> QED
    BY <2>1, <2>3, Zenon
<1> QED
  BY <1>5, <1>6, <1>7 DEF Stream

(***************************************************************************)
(* The server sends the next part of the file; a reset loses the last.     *)
(***************************************************************************)
LEMMA SendKeeps ==
  ASSUME TransferTypes, Stream, SendPart, saved' = saved
  PROVE  Stream'
<1>1. /\ saved \in Seq(STRING) /\ parts \in Seq(STRING)
      /\ Len(saved) \in Nat /\ Len(parts) \in Nat /\ transfer.sent \in Nat
      /\ transfer.sent + 1 \in 1 .. Len(File)
  BY StreamTypes, FileType DEF SendPart
<1>2. transfer'.sent = transfer.sent + 1 /\ transfer'.state = transfer.state /\ data' = data
  BY DEF SendPart, TransferTypes, ServerTypeOK
<1>3. /\ Len(parts') = Len(parts) + 1
      /\ \A i \in 1 .. Len(parts) : parts'[i] = parts[i]
      /\ parts'[Len(parts) + 1] = File[transfer.sent + 1]
  <2>1. File[transfer.sent + 1] \in STRING
    BY <1>1, FileType
  <2> QED
    BY <1>1, <2>1, AppendProperties DEF SendPart
<1>4. Len(saved) + Len(parts) = transfer.sent
  BY DEF SendPart, Stream
<1>5. ASSUME NEW i \in 1 .. Len(parts') PROVE parts'[i] = File[Len(saved) + i]
  <2>1. CASE i \in 1 .. Len(parts)
    BY <1>3, <2>1 DEF Stream
  <2>2. CASE i = Len(parts) + 1
    <3>1. Len(saved) + i = transfer.sent + 1
      BY <1>1, <1>4, <2>2
    <3> QED
      BY <1>3, <2>2, <3>1
  <2> QED
    BY <1>1, <1>3, <2>1, <2>2
<1> QED
  BY <1>1, <1>2, <1>3, <1>4, <1>5 DEF Stream

\* An abort loses only what is still under way.
LEMMA AbortKeeps ==
  ASSUME TransferTypes, Stream, Abort, saved' = saved
  PROVE  Stream'
<1>1. /\ saved \in Seq(STRING) /\ parts \in Seq(STRING)
      /\ Len(saved) \in Nat /\ Len(parts) \in Nat /\ transfer.sent \in Nat
  BY StreamTypes, FileType
<1>2. transfer'.sent = transfer.sent /\ transfer'.state = "aborted" /\ data' \in {"eof", "reset"}
  BY DEF Abort, TransferTypes, ServerTypeOK
<1>3. Len(parts') \in Nat /\ Len(parts') <= Len(parts) /\ \A i \in 1 .. Len(parts') : parts'[i] = parts[i]
  <2>1. CASE UNCHANGED parts
    BY <1>1, <2>1
  <2>2. ASSUME NEW n \in 0 .. Len(parts), parts' = SubSeq(parts, 1, n)
        PROVE  Len(parts') \in Nat /\ Len(parts') <= Len(parts)
               /\ \A i \in 1 .. Len(parts') : parts'[i] = parts[i]
    <3>1. \A i \in 1 .. n : parts[i] \in STRING
      BY <1>1, ElementOfSeq
    <3> QED
      BY <1>1, <2>2, <3>1, SubSeqProperties
  <2> QED
    BY <2>1, <2>2 DEF Abort
<1>4. ASSUME NEW i \in 1 .. Len(parts') PROVE parts'[i] = File[Len(saved) + i]
  <2>1. i \in 1 .. Len(parts) /\ parts'[i] = parts[i]
    BY <1>1, <1>3
  <2> QED
    BY <2>1 DEF Stream
<1> QED
  BY <1>1, <1>2, <1>3, <1>4 DEF Stream

(***************************************************************************)
(* The server keeps the relation between what is saved, under way and      *)
(* sent, if it does not listen again while it sends.                       *)
(***************************************************************************)
LEMMA ServerStream ==
  ASSUME TransferTypes, Stream, ServerNext, saved' = saved, OnPasv => transfer.state = "none"
  PROVE  Stream'
<1>1. ASSUME UNCHANGED << parts, transfer >>,
             data' = data \/ (transfer.state # "sending" /\ data' = "eof")
                          \/ (transfer.state = "none" /\ data' \in {"listening", "none"})
      PROVE  Stream'
  BY <1>1 DEF Stream
<1>2. CASE SendPart
  BY <1>2, SendKeeps
<1>3. CASE Abort
  BY <1>3, AbortKeeps
<1>4. CASE Greet \/ OnHello \/ OnUser \/ OnPass \/ OnQuit
  BY <1>1, <1>4 DEF Greet, OnHello, OnUser, OnPass, OnQuit
<1>5. CASE OnPasv
  BY <1>1, <1>5 DEF OnPasv
<1>6. CASE Close
  <2>1. data = "listening" => transfer.state = "none"
    BY DEF Stream
  <2> QED
    BY <1>1, <1>6, <2>1 DEF Close
<1>7. CASE SendEnd
  <2>1. /\ parts' = parts /\ transfer'.sent = transfer.sent /\ transfer'.state = "complete"
        /\ data' = "eof" /\ transfer.sent = Len(File) /\ transfer.state = "sending"
    BY <1>7 DEF SendEnd, TransferTypes, ServerTypeOK
  <2> QED
    BY <2>1 DEF Stream
<1>8. CASE OnRetr
  <2>1. parts' = parts /\ transfer'.sent = transfer.sent /\ transfer.state # "aborted"
    BY <1>8 DEF OnRetr, TransferTypes, ServerTypeOK, Stream
  <2>2. \/ transfer'.state = "sending" /\ data' = "connected"
        \/ transfer'.state = "refused" /\ data' \in {"eof", "reset"}
    BY <1>8 DEF OnRetr, TransferTypes, ServerTypeOK
  <2> QED
    BY <2>1, <2>2 DEF Stream
<1> QED
  BY <1>2, <1>3, <1>4, <1>5, <1>6, <1>7, <1>8 DEF ServerNext, Serve

\* What the client does with the data connection.
LEMMA ClientStream ==
  ASSUME TransferTypes, Stream,
         \/ receive_data
         \/ UNCHANGED << saved, parts, transfer, data >>
         \/ Connect
  PROVE  Stream'
<1>1. CASE receive_data
  <2>1. CASE \E n \in 1 .. Len(parts) : Fwrite(n) /\ parts' = SubSeq(parts, n + 1, Len(parts))
    BY <1>1, <2>1, FwriteKeeps DEF receive_data
  <2>2. CASE UNCHANGED << saved, parts >>
    BY <1>1, <2>2 DEF receive_data, Stream
  <2> QED
    BY <1>1, <2>1, <2>2 DEF receive_data
<1>2. CASE UNCHANGED << saved, parts, transfer, data >>
  BY <1>2 DEF Stream
<1>3. CASE Connect
  BY <1>3 DEF Connect, Stream
<1> QED
  BY <1>1, <1>2, <1>3

\* Every step keeps the relation between what is saved, under way and sent.
LEMMA StreamStep ==
  ASSUME TypeOK, IInv, Stream, [Next]_vars PROVE Stream'
<1>0. TransferTypes
  BY DEF TypeOK, TransferTypes
<1>1. CASE ClientNext
  <2>1. receive_data \/ UNCHANGED << saved, parts, transfer, data >> \/ Connect
    BY <1>1 DEF ClientNext, Start, Write, RecvFails, Hello, User, Pass, Pasv, Retr, Quit, Recv, server
  <2> QED
    BY <1>0, <2>1, ClientStream
<1>2. CASE ServerNext /\ UNCHANGED client
  <2>1. ASSUME OnPasv PROVE transfer.state = "none"
    <3>1. Obey("pasv") /\ session # "closed"
      BY <2>1 DEF OnPasv, Obey
    <3>2. OneCommand
      BY <3>1 DEF IInv, Fits
    <3>3. command \in {"hello", "user", "pass", "pasv"}
      BY <3>1, <3>2, ObeyLeaves DEF TypeOK, Commands
    <3> QED
      BY <3>2, <3>3 DEF OneCommand
  <2> QED
    BY <1>0, <1>2, <2>1, ServerStream DEF client
<1>3. CASE UNCHANGED vars
  BY <1>0, <1>3, ClientStream DEF vars, server, client
<1> QED
  BY <1>1, <1>2, <1>3 DEF Next

(***************************************************************************)
(* A sequence that agrees with the file up to its end is how it begins.    *)
(***************************************************************************)
LEMMA StreamIsPrefix ==
  ASSUME TransferTypes, Stream PROVE SavedPrefix
<1>1. /\ saved \in Seq(STRING) /\ Len(saved) \in Nat /\ Len(parts) \in Nat
      /\ transfer.sent \in 0 .. Len(File) /\ Len(File) \in Nat
  BY StreamTypes, FileType
<1>2. Len(saved) <= Len(File)
  BY <1>1 DEF Stream
<1>3. \A i \in 1 .. Len(saved) : File[i] \in STRING
  BY <1>1, <1>2, FileType
<1>4. /\ SubSeq(File, 1, Len(saved)) \in Seq(STRING)
      /\ Len(SubSeq(File, 1, Len(saved))) = Len(saved)
      /\ \A i \in 1 .. Len(saved) : SubSeq(File, 1, Len(saved))[i] = File[i]
  BY <1>1, <1>3, SubSeqProperties
<1>5. saved = SubSeq(File, 1, Len(saved))
  BY <1>1, <1>4, SeqEqual DEF Stream
<1>6. SubSeq(saved, 1, Len(saved)) = saved
  BY <1>1, SubSeqFull
<1> QED
  BY <1>2, <1>5, <1>6 DEF SavedPrefix, IsPrefix

(***************************************************************************)
(* The local file is at any time how the file on the server begins: for    *)
(* every file, however recv cuts it, and also after an abort or a reset.   *)
(***************************************************************************)
THEOREM SavesPrefixes == Spec => []SavedPrefix
<1>1. Init => TypeOK /\ IInv /\ Stream
  BY TypeInit, SessionInit, StreamInit
<1>2. (TypeOK /\ IInv /\ Stream) /\ [Next]_vars => (TypeOK /\ IInv /\ Stream)'
  BY TypeStep, SessionStep, StreamStep
<1>3. TypeOK /\ IInv /\ Stream => SavedPrefix
  BY StreamIsPrefix DEF TypeOK, TransferTypes
<1> QED
  BY <1>1, <1>2, <1>3, PTL DEF Spec

-----------------------------------------------------------------------------
(***************************************************************************)
(* A server that answers one line at a time, names the reason main looks   *)
(* for when it refuses the file, and neither aborts nor closes.            *)
(***************************************************************************)
Orderly ==
  /\ Cuts = "line"
  /\ Faults \subseteq {"open"}
  /\ Refusals \subseteq {"550_Failed_to_open_file"}
  /\ PassReplies \subseteq { <<"230">>, <<"530_Login_incorrect">> }

\* The line l is nowhere but at the end of r.
OnlyLast(r, l) ==
  \A i \in 1 .. Len(r) : r[i].line = l => /\ r[i].part = "code" => i = Len(r) - 2
                                          /\ r[i].part = "text" => i = Len(r) - 1

\* The greeting is whole when it comes, and 530 is the last line before user.
HelloReplies ==
  /\ session \in {"none", "new"} => replies = << >> /\ command = "hello"
  /\ command = "hello" => OnlyLast(replies, "530_Please_login")

\* Nothing is under way but the one answer to the command.
Answers ==
  /\ command = "user" => replies \in { << >>, Line("331") }
  /\ command = "pass" => replies \in { << >>, Line("230"), Line("530_Login_incorrect") }
  /\ command = "pasv" => replies \in { << >>, Line("227") }
  /\ pc = "connect" => replies = << >> /\ command = "pasv"

\* What the server has said and done of RETR, and what main is to make of it.
RetrAnswers ==
  command = "RETR" =>
    \/ /\ transfer.state = "none" /\ replies = << >> /\ pc \in {"write", "recv"}
       /\ commands = IF pc = "write" THEN << >> ELSE << "RETR" >>
    \/ /\ transfer.state = "sending" /\ commands = << >>
       /\ \/ pc = "recv" /\ replies = Line("150")
          \/ pc = "receive" /\ replies = << >>
    \/ /\ transfer.state = "complete" /\ commands = << >>
       /\ \/ pc = "recv" /\ replies = Line("150") \o Line("226")
          \/ pc = "receive" /\ replies \in { << >>, Line("226") }
    \/ /\ transfer.state = "refused" /\ commands = << >>
       /\ pc = "recv" /\ replies = Line("550_Failed_to_open_file")

\* The session ends with quit, and without a failure quit comes after the file.
QuitLast ==
  /\ pc = "receive" => command = "RETR"
  /\ session = "closed" => command = "quit"
  /\ command = "quit" /\ ~failed => transfer.state = "complete" /\ parts = << >>

OrderlyInv == Ended \/ (HelloReplies /\ Answers /\ RetrAnswers /\ QuitLast)

\* It holds initially.
LEMMA OrderlyInit == Init => OrderlyInv
  BY DEF Init, ServerInit, OrderlyInv, HelloReplies, OnlyLast, Answers, RetrAnswers, QuitLast

(***************************************************************************)
(* A recv that ends with a line takes the only line there is.              *)
(***************************************************************************)
LEMMA RecvLine ==
  ASSUME Orderly, session # "closed", Recv, NEW l \in Lines, replies = Line(l)
  PROVE  response' = Line(l) /\ replies' = << >>
<1>1. PICK n \in 1 .. Len(replies) :
             /\ replies[n].part = "end"
             /\ response' = SubSeq(replies, 1, n)
             /\ replies' = SubSeq(replies, n + 1, Len(replies))
  BY DEF Recv, Orderly
<1>2. Len(replies) = 3 /\ replies[1].part = "code" /\ replies[2].part = "text" /\ replies \in Seq(Parts)
  BY LineType DEF Line
<1>3. n = 3
  BY <1>1, <1>2
<1> QED
  BY <1>1, <1>2, <1>3, SubSeqFull, SubSeqEmpty

\* Of two lines it takes the first, or both.
LEMMA RecvTwoLines ==
  ASSUME Orderly, session # "closed", Recv, NEW l \in Lines, NEW m \in Lines,
         replies = Line(l) \o Line(m)
  PROVE  /\ replies' \in { << >>, Line(m) }
         /\ response' \in { Line(l), Line(l) \o Line(m) }
<1>1. PICK n \in 1 .. Len(replies) :
             /\ replies[n].part = "end"
             /\ response' = SubSeq(replies, 1, n)
             /\ replies' = SubSeq(replies, n + 1, Len(replies))
  BY DEF Recv, Orderly
<1> DEFINE a == Line(l)
           b == Line(m)
<1>2. a \in Seq(Parts) /\ b \in Seq(Parts) /\ Len(a) = 3 /\ Len(b) = 3
  BY LineType DEF Line
<1>3. /\ a[1].part = "code" /\ a[2].part = "text" /\ b[1].part = "code" /\ b[2].part = "text"
  BY DEF Line
<1> HIDE DEF a, b
<1>4. /\ replies \in Seq(Parts) /\ Len(replies) = 6
      /\ \A i \in 1 .. 6 : replies[i] = IF i <= 3 THEN a[i] ELSE b[i - 3]
  <2>1. /\ a \o b \in Seq(Parts) /\ Len(a \o b) = Len(a) + Len(b)
        /\ \A i \in 1 .. Len(a) + Len(b) : (a \o b)[i] = IF i <= Len(a) THEN a[i] ELSE b[i - Len(a)]
    BY <1>2, ConcatProperties
  <2>2. replies = a \o b
    BY DEF a, b
  <2> QED
    BY <1>2, <2>1, <2>2
<1>5. /\ replies[1] = a[1] /\ replies[2] = a[2] /\ replies[3] = a[3]
      /\ replies[4] = b[1] /\ replies[5] = b[2] /\ replies[6] = b[3]
  BY <1>4
<1>6. n = 3 \/ n = 6
  <2>1. n \in 1 .. 6 /\ n # 1 /\ n # 2 /\ n # 4 /\ n # 5
    BY <1>1, <1>3, <1>4, <1>5
  <2> QED
    BY <2>1
<1>7. CASE n = 6
  <2>1. response' = replies
    BY <1>1, <1>4, <1>7, SubSeqFull
  <2>2. replies' = << >>
    BY <1>1, <1>4, <1>7, SubSeqEmpty
  <2> QED
    BY <2>1, <2>2
<1>8. CASE n = 3
  <2>0. \A i \in 1 .. 6 : replies[i] \in Parts
    BY <1>4, ElementOfSeq
  <2>1. response' = a
    <3>1. /\ response' \in Seq(Parts) /\ Len(response') = 3
          /\ \A i \in 1 .. 3 : response'[i] = replies[i]
      BY <1>1, <1>4, <1>8, <2>0, SubSeqProperties
    <3>2. \A i \in 1 .. 3 : response'[i] = a[i]
      <4>1. ASSUME NEW i \in 1 .. 3 PROVE replies[i] = a[i]
        <5>1. i \in 1 .. 6 /\ i <= 3
          OBVIOUS
        <5> QED
          BY <1>4, <5>1
      <4> QED
        BY <3>1, <4>1
    <3> QED
      BY <1>2, <3>1, <3>2, SeqEqual
  <2>2. replies' = b
    <3>1. /\ replies' \in Seq(Parts) /\ Len(replies') = 3
          /\ \A i \in 1 .. 3 : replies'[i] = replies[i + 3]
      BY <1>1, <1>4, <1>8, <2>0, SubSeqProperties
    <3>2. \A i \in 1 .. 3 : replies'[i] = b[i]
      <4>1. ASSUME NEW i \in 1 .. 3 PROVE replies[i + 3] = b[i]
        <5>1. i + 3 \in 1 .. 6 /\ ~(i + 3 <= 3) /\ (i + 3) - 3 = i
          OBVIOUS
        <5> QED
          BY <1>4, <5>1
      <4> QED
        BY <3>1, <4>1
    <3> QED
      BY <1>2, <3>1, <3>2, SeqEqual
  <2> QED
    BY <2>1, <2>2 DEF a, b
<1> QED
  BY <1>6, <1>7, <1>8

\* Nothing can be received of an open connection on which nothing has come.
LEMMA RecvWaits ==
  ASSUME session # "closed", replies = << >> PROVE ~Recv
  BY DEF Recv

(***************************************************************************)
(* A line that is new to a sequence of replies is at its end.              *)
(***************************************************************************)
LEMMA LineAtEnd ==
  ASSUME NEW r \in Seq(Parts), NEW l \in Lines, l \notin LinesOf(r),
         NEW s \in Seq(Parts), s = r \o Line(l)
  PROVE  OnlyLast(s, l)
<1> DEFINE a == Line(l)
<1>1. a \in Seq(Parts) /\ Len(a) = 3 /\ a[1].part = "code" /\ a[2].part = "text" /\ a[3].part = "end"
  BY LineType DEF Line
<1> HIDE DEF a
<1>2. /\ Len(s) = Len(r) + Len(a)
      /\ \A k \in 1 .. Len(r) + Len(a) : s[k] = IF k <= Len(r) THEN r[k] ELSE a[k - Len(r)]
  BY <1>1, ConcatProperties DEF a
<1>3. Len(r) \in Nat /\ Len(s) = Len(r) + 3
  BY <1>1, <1>2
<1>4. ASSUME NEW i \in 1 .. Len(r) PROVE s[i].line # l
  <2>1. s[i] = r[i]
    BY <1>1, <1>2, <1>3
  <2> QED
    BY <2>1 DEF LinesOf
<1>5. ASSUME NEW k \in 1 .. 3 PROVE s[Len(r) + k] = a[k]
  <2>1. /\ Len(r) + k \in 1 .. Len(r) + Len(a)
        /\ ~(Len(r) + k <= Len(r)) /\ (Len(r) + k) - Len(r) = k
    BY <1>1, <1>3
  <2> QED
    BY <1>2, <2>1
<1>6. ASSUME NEW i \in 1 .. Len(s)
      PROVE  i \in 1 .. Len(r) \/ \E k \in 1 .. 3 : i = Len(r) + k
  <2>1. CASE ~(i <= Len(r))
    <3>1. i - Len(r) \in 1 .. 3 /\ i = Len(r) + (i - Len(r))
      BY <1>3, <2>1
    <3> QED
      BY <3>1
  <2> QED
    BY <1>3, <2>1
<1>7. ASSUME NEW k \in 1 .. 3
      PROVE  /\ a[k].part = "code" => Len(r) + k = Len(s) - 2
             /\ a[k].part = "text" => Len(r) + k = Len(s) - 1
  <2>1. CASE k = 1
    BY <1>1, <1>3, <2>1
  <2>2. CASE k = 2
    BY <1>1, <1>3, <2>2
  <2>3. CASE k = 3
    BY <1>1, <2>3
  <2> QED
    BY <2>1, <2>2, <2>3
<1> QED
  <2>1. ASSUME NEW i \in 1 .. Len(s), s[i].line = l
        PROVE  /\ s[i].part = "code" => i = Len(s) - 2
               /\ s[i].part = "text" => i = Len(s) - 1
    <3>1. PICK k \in 1 .. 3 : i = Len(r) + k
      BY <1>4, <1>6, <2>1
    <3>2. s[i] = a[k]
      BY <1>5, <3>1
    <3> QED
      BY <1>7, <3>1, <3>2
  <2> QED
    BY <2>1 DEF OnlyLast

\* On an empty connection there is what the server says, and no more.
LEMMA SayAlone ==
  ASSUME replies = << >>, NEW l \in Lines, Say(l) PROVE replies' = Line(l)
<1>1. Line(l) \in Seq(Parts)
  BY LineType
<1> QED
  BY <1>1 DEF Say

(***************************************************************************)
(* An orderly server keeps to one answer for one command.                  *)
(***************************************************************************)
LEMMA OrderlyServer ==
  ASSUME Orderly, TypeOK, IInv, Stream, OrderlyInv, ~Ended, ServerNext, UNCHANGED client
  PROVE  OrderlyInv'
<1>0. /\ HelloReplies /\ Answers /\ RetrAnswers /\ QuitLast /\ NotConnected
      /\ UNCHANGED << pc, command, failed >> /\ ~Abort /\ ~Close
      /\ command \in Commands /\ replies \in Seq(Parts) /\ commands \in Seq(Commands)
      /\ transfer \in [sent : 0 .. Len(File),
                       state : {"none", "sending", "complete", "refused", "aborted"}]
  BY DEF OrderlyInv, IInv, client, Orderly, Abort, Close, TypeOK, ServerTypeOK
<1>1. ASSUME command = "quit", session' \notin {"none", "new"} \/ session' = session PROVE OrderlyInv'
  <2>1. ~failed => UNCHANGED << transfer, parts >>
    <3>1. ASSUME ~failed PROVE data # "connected" /\ transfer.state # "sending"
      BY <1>0, <1>1, <3>1 DEF QuitLast, Stream
    <3> QED
      BY <1>0, <3>1 DEF ServerNext, Serve, Greet, OnHello, OnUser, OnPass, OnPasv, OnRetr, OnQuit,
                        SendPart, SendEnd
  <2>2. HelloReplies'
    BY <1>0, <1>1 DEF HelloReplies
  <2> QED
    BY <1>0, <1>1, <2>1, <2>2 DEF OrderlyInv, Answers, RetrAnswers, QuitLast
<1>2. /\ "530_Please_login" \in Lines /\ "331" \in Lines /\ "227" \in Lines /\ "150" \in Lines
      /\ "226" \in Lines /\ "230" \in Lines /\ "530_Login_incorrect" \in Lines
      /\ "550_Failed_to_open_file" \in Lines
  BY DEF Lines
<1>3. CASE command = "quit"
  <2>1. session' \notin {"none", "new"} \/ session' = session
    BY <1>0 DEF ServerNext, Serve, Greet, OnHello, OnUser, OnPass, OnPasv, OnRetr, OnQuit, SendPart, SendEnd
  <2> QED
    BY <1>1, <1>3, <2>1
<1>4. CASE command # "quit"
  <2>0. session # "closed" /\ LinesFit /\ OneCommand /\ RepliesFit
    BY <1>0, <1>4 DEF QuitLast, IInv, Fits
  <2>1. ASSUME NEW c \in {"hello", "user", "pass", "pasv"}, Obey(c)
        PROVE  command = c /\ pc \notin {"start", "write", "connect"} /\ Unanswered
    <3>1. command \notin {"RETR", "quit"}
      BY <2>0, <2>1, ObeyLeaves
    <3> QED
      BY <1>0, <2>0, <2>1, <3>1, ObeyLeaves DEF Commands, Unanswered
  <2>2. CASE Greet
    <3>1. session = "new" /\ session' = "ready" /\ replies = << >> /\ command = "hello"
          /\ UNCHANGED << commands, parts, transfer >>
      BY <1>0, <2>2 DEF Greet, HelloReplies
    <3>2. PICK ls \in Greetings : SayLines(ls)
      BY <2>2 DEF Greet
    <3>3. LinesOf(replies) = {}
      BY <3>1 DEF LinesOf
    <3>4. "530_Please_login" \notin LinesOf(replies')
      <4>1. ls = <<"220">> \/ ls = <<"220-", "220">>
        BY ServerAssumption DEF ServerAssumption
      <4>2. ls[1] \in Greeting /\ ls[Len(ls)] \in Greeting
        BY <4>1 DEF Greeting
      <4> QED
        <5>1. LinesOf(replies') = {ls[1], ls[Len(ls)]}
          BY <1>0, <3>2, <3>3, SayLinesAdds
        <5>2. "530_Please_login" \notin Greeting
          BY DEF Greeting
        <5> QED
          BY <4>2, <5>1, <5>2
    <3>5. HelloReplies'
      BY <3>1, <3>4 DEF HelloReplies, LinesOf, OnlyLast
    <3> QED
      BY <1>0, <3>1, <3>5, <2>0 DEF OrderlyInv, Answers, RetrAnswers, QuitLast, RepliesFit
  <2>3. CASE OnHello
    <3>1. /\ command = "hello" /\ "530_Please_login" \notin LinesUnderWay /\ Say("530_Please_login")
          /\ UNCHANGED << session, parts, transfer >> /\ session \notin {"none", "new"}
          /\ pc \notin {"start", "write", "connect"}
      BY <2>0, <2>1, <2>3 DEF OnHello, Obey, LinesFit
    <3>2. HelloReplies'
      <4>1. replies' \in Seq(Parts) /\ replies' = replies \o Line("530_Please_login")
        BY <1>0, <1>2, <3>1, SayAdds DEF Say
      <4> QED
        BY <1>0, <1>2, <3>1, <4>1, LineAtEnd DEF HelloReplies, LinesUnderWay
    <3> QED
      BY <1>0, <3>1, <3>2 DEF OrderlyInv, Answers, RetrAnswers, QuitLast
  <2>4. CASE OnUser
    <3>1. /\ command = "user" /\ "331" \notin LinesUnderWay /\ Say("331")
          /\ UNCHANGED << parts, transfer >> /\ session' = "user"
          /\ pc \notin {"start", "write", "connect"}
      BY <2>0, <2>1, <2>4 DEF OnUser, LinesFit
    <3>2. replies = << >>
      BY <1>0, <1>2, <3>1, LineType DEF Answers, LinesUnderWay
    <3>3. replies' = Line("331")
      BY <1>2, <3>1, <3>2, SayAlone
    <3> QED
      BY <1>0, <3>1, <3>3 DEF OrderlyInv, HelloReplies, Answers, RetrAnswers, QuitLast
  <2>5. CASE OnPass
    <3>1. /\ command = "pass" /\ LinesUnderWay \cap Logins = {}
          /\ UNCHANGED << parts, transfer >>
          /\ pc \notin {"start", "write", "connect"}
          /\ session' \in {"in", "ready"}
      BY <2>0, <2>1, <2>5 DEF OnPass, LinesFit
    <3>2. replies = << >>
      BY <1>0, <1>2, <3>1, LineType DEF Answers, LinesUnderWay, Logins
    <3>3. \E l \in {"230", "530_Login_incorrect"} : replies' = Line(l)
      <4>1. PICK ls \in PassReplies : SayLines(ls)
        BY <2>5 DEF OnPass
      <4>2. PICK l \in {"230", "530_Login_incorrect"} : ls = << l >>
        BY DEF Orderly
      <4>3. Len(ls) = 1 /\ ls[1] = l
        BY <4>2
      <4>4. Say(l)
        BY <4>1, <4>3 DEF SayLines, Say
      <4> QED
        BY <1>2, <3>2, <4>4, SayAlone
    <3> QED
      BY <1>0, <3>1, <3>3 DEF OrderlyInv, HelloReplies, Answers, RetrAnswers, QuitLast
  <2>6. CASE OnPasv
    <3>1. command = "pasv" /\ "227" \notin LinesUnderWay
          /\ pc \notin {"start", "write", "connect"}
      BY <2>0, <2>1, <2>6 DEF OnPasv, LinesFit
    <3>2. Say("227") /\ session = "in" /\ UNCHANGED << session, parts, transfer >>
      BY <2>0, <2>6, <3>1 DEF OnPasv, RepliesFit
    <3>3. replies = << >>
      BY <1>0, <1>2, <3>1, LineType DEF Answers, LinesUnderWay
    <3>4. replies' = Line("227")
      BY <1>2, <3>2, <3>3, SayAlone
    <3> QED
      BY <1>0, <3>1, <3>2, <3>4 DEF OrderlyInv, HelloReplies, Answers, RetrAnswers, QuitLast
  <2>7. CASE OnRetr
    <3>1. command = "RETR" /\ commands # << >> /\ UNCHANGED << session, parts >>
          /\ commands' = Tail(commands) /\ session \notin {"none", "new"}
      <4>1. Obey("RETR")
        BY <2>7 DEF OnRetr
      <4>2. command \notin {"hello", "user", "pass", "pasv"}
        BY <2>0, <4>1, ObeyLeaves
      <4> QED
        BY <1>0, <1>4, <2>7, <4>1, <4>2 DEF Commands, OnRetr, Obey
    <3>2. replies = << >> /\ pc = "recv" /\ commands = << "RETR" >>
      BY <1>0, <3>1 DEF RetrAnswers
    <3>3. commands' = << >>
      BY <3>1, <3>2
    <3>4. \/ replies' = Line("150") /\ transfer'.state = "sending"
          \/ replies' = Line("550_Failed_to_open_file") /\ transfer'.state = "refused"
      <4>1. CASE Say("150") /\ transfer' = [transfer EXCEPT !.state = "sending"]
        BY <1>0, <1>2, <3>2, <4>1, SayAlone
      <4>2. CASE transfer' = [transfer EXCEPT !.state = "refused"] /\ \E r \in Refusals : Say(r)
        <5>1. Say("550_Failed_to_open_file")
          BY <4>2 DEF Orderly
        <5> QED
          BY <1>0, <1>2, <3>2, <4>2, <5>1, SayAlone
      <4> QED
        BY <2>7, <4>1, <4>2 DEF OnRetr
    <3>5. RetrAnswers'
      BY <1>0, <3>1, <3>2, <3>3, <3>4 DEF RetrAnswers
    <3> QED
      BY <1>0, <3>1, <3>2, <3>5 DEF OrderlyInv, HelloReplies, Answers, QuitLast
  <2>8. CASE OnQuit
    <3>1. Obey("quit") /\ commands # << >> /\ Head(commands) = "quit"
      BY <2>8 DEF OnQuit, Obey
    <3>2. command \notin {"hello", "user", "pass", "pasv"}
      BY <2>0, <3>1, ObeyLeaves
    <3>3. command = "RETR"
      BY <1>0, <1>4, <3>2 DEF Commands
    <3>4. commands = << "RETR" >>
      BY <1>0, <3>1, <3>3 DEF RetrAnswers
    <3> QED
      BY <3>1, <3>4
  <2>9. CASE SendPart \/ SendEnd
    <3>1. transfer.state = "sending" /\ command = "RETR" /\ UNCHANGED << commands, session >>
          /\ session \notin {"none", "new"}
      BY <1>0, <1>4, <2>0, <2>9 DEF SendPart, SendEnd, OneCommand, Commands, RepliesFit
    <3>2. CASE SendPart
      <4>1. transfer'.state = "sending" /\ replies' = replies
        BY <1>0, <3>1, <3>2 DEF SendPart
      <4> QED
        BY <1>0, <3>1, <4>1 DEF OrderlyInv, HelloReplies, Answers, RetrAnswers, QuitLast
    <3>3. CASE SendEnd
      <4>1. transfer'.state = "complete" /\ replies' = replies \o Line("226") /\ Say("226")
        BY <1>0, <3>1, <3>3 DEF SendEnd, Say
      <4>2. replies = << >> => replies' = Line("226")
        BY <1>2, <4>1, SayAlone
      <4>3. RetrAnswers'
        BY <1>0, <3>1, <4>1, <4>2 DEF RetrAnswers
      <4> QED
        BY <1>0, <3>1, <4>3 DEF OrderlyInv, HelloReplies, Answers, QuitLast
    <3> QED
      BY <2>9, <3>2, <3>3
  <2> QED
    BY <1>0, <2>2, <2>3, <2>4, <2>5, <2>6, <2>7, <2>8, <2>9 DEF ServerNext, Serve
<1> QED
  BY <1>3, <1>4

\* The n-th part is the end of a line.
LineEnds(r, n) == r[n].part = "end"

\* The first n parts of r are s, and the others t.
CutAt(r, n, s, t) ==
  /\ Len(s) = n /\ \A i \in 1 .. n : s[i] = r[i]
  /\ Len(t) = Len(r) - n /\ \A i \in 1 .. Len(t) : t[i] = r[n + i]

(***************************************************************************)
(* What a sequence that ends with 530 leaves when its first n parts, up to *)
(* the end of a line, are taken away.                                      *)
(***************************************************************************)
LEMMA TakeLines ==
  ASSUME NEW r \in Seq(Parts), NEW n \in 1 .. Len(r), LineEnds(r, n),
         OnlyLast(r, "530_Please_login"),
         NEW s \in Seq(Parts), NEW t \in Seq(Parts), CutAt(r, n, s, t)
  PROVE  IF LoginWanted(s) THEN t = << >> ELSE OnlyLast(t, "530_Please_login")
<1>1. /\ Len(r) \in Nat /\ n \in Nat /\ 1 <= n /\ n <= Len(r)
      /\ Len(t) \in Nat
  OBVIOUS
<1>2. Len(s) = n /\ \A i \in 1 .. n : s[i] = r[i]
  BY DEF CutAt
<1>3. Len(t) = Len(r) - n /\ \A i \in 1 .. Len(t) : t[i] = r[n + i]
  BY DEF CutAt
<1>4. ASSUME NEW i \in Nat, 1 <= i, i <= n, r[i].line = "530_Please_login", r[i].part = "code"
      PROVE  i = Len(r) - 2
  BY <1>1, <1>4 DEF OnlyLast
<1>5. ASSUME NEW i \in Nat \ {0}, Holds(s, i, "530_Please_login", "code"),
             Holds(s, i + 1, "530_Please_login", "text")
      PROVE  n = Len(r)
  <2>1. i <= n /\ i + 1 <= n
    BY <1>2, <1>5 DEF Holds
  <2>2. /\ s[i] = r[i] /\ s[i + 1] = r[i + 1]
    BY <1>2, <2>1
  <2>3. r[i].line = "530_Please_login" /\ r[i].part = "code" /\ r[i + 1].part = "text"
    BY <1>5, <2>2 DEF Holds
  <2>4. i = Len(r) - 2
    BY <1>4, <2>1, <2>3
  <2>5. n # i + 1
    BY <2>3 DEF LineEnds
  <2> QED
    BY <1>1, <2>1, <2>4, <2>5
<1>6. CASE LoginWanted(s)
  <2>1. n = Len(r)
    BY <1>5, <1>6 DEF LoginWanted, Mentions
  <2>2. t = << >>
    BY <1>1, <1>3, <2>1
  <2> QED
    BY <1>6, <2>2
<1>7. CASE ~LoginWanted(s)
  <2>1. ASSUME NEW i \in 1 .. Len(t)
        PROVE  /\ n + i \in 1 .. Len(r) /\ t[i] = r[n + i]
               /\ n + i = Len(r) - 2 => i = Len(t) - 2
               /\ n + i = Len(r) - 1 => i = Len(t) - 1
    BY <1>1, <1>3, <2>1
  <2>2. OnlyLast(t, "530_Please_login")
    BY <2>1 DEF OnlyLast
  <2> QED
    BY <1>7, <2>2
<1> QED
  BY <1>6, <1>7

\* What recv leaves of the replies before the login.
LEMMA RecvHello ==
  ASSUME Orderly, session # "closed", replies \in Seq(Parts), HelloReplies, command = "hello", Recv
  PROVE  /\ replies # << >>
         /\ IF LoginWanted(response') THEN replies' = << >> ELSE OnlyLast(replies', "530_Please_login")
<1>1. PICK n \in 1 .. Len(replies) :
             /\ LineEnds(replies, n)
             /\ response' = SubSeq(replies, 1, n)
             /\ replies' = SubSeq(replies, n + 1, Len(replies))
  BY DEF Recv, Orderly, LineEnds
<1>2. response' \in Seq(Parts) /\ replies' \in Seq(Parts) /\ replies # << >>
  BY <1>1, RecvTakes
<1>3. CutAt(replies, n, response', replies')
  <2>1. /\ Len(replies) \in Nat /\ n \in Nat /\ 1 <= n /\ n <= Len(replies)
        /\ \A i \in 1 .. Len(replies) : replies[i] \in Parts
    BY <1>1, ElementOfSeq
  <2>2. Len(response') = n /\ \A i \in 1 .. n : response'[i] = replies[i]
    BY <1>1, <2>1, SubSeqProperties
  <2>3. /\ Len(replies') = Len(replies) - n
        /\ \A i \in 1 .. Len(replies') : replies'[i] = replies[n + i]
    BY <1>1, <2>1, SubSeqProperties
  <2> QED
    BY <2>2, <2>3 DEF CutAt
<1>4. OnlyLast(replies, "530_Please_login")
  BY DEF HelloReplies
<1> QED
  BY <1>1, <1>2, <1>3, <1>4, TakeLines

\* What main takes for the answer is the answer, and the whole of it.
LEMMA RecvAnswer ==
  ASSUME Orderly, session # "closed", Answers, Recv
  PROVE  /\ command = "user" => response' = Line("331") /\ replies' = << >>
         /\ command = "pass" => /\ response' \in { Line("230"), Line("530_Login_incorrect") }
                                /\ replies' = << >>
         /\ command = "pasv" => response' = Line("227") /\ replies' = << >>
<1>1. {"331", "230", "530_Login_incorrect", "227"} \subseteq Lines
  BY DEF Lines
<1> QED
  BY <1>1, RecvLine, RecvWaits DEF Answers

\* RETR is answered by one line, and then by a second.
LEMMA RecvRetr ==
  ASSUME Orderly, session # "closed", RetrAnswers, command = "RETR", Recv
  PROVE  /\ commands = << >> /\ pc = "recv"
         /\ \/ /\ transfer.state = "refused" /\ replies' = << >>
               /\ response' = Line("550_Failed_to_open_file")
            \/ /\ transfer.state = "sending" /\ replies' = << >> /\ response' = Line("150")
            \/ /\ transfer.state = "complete" /\ replies' \in { << >>, Line("226") }
               /\ response' \in { Line("150"), Line("150") \o Line("226") }
<1>1. {"150", "226", "550_Failed_to_open_file"} \subseteq Lines
  BY DEF Lines
<1>2. replies # << >> /\ pc = "recv"
  BY RecvWaits DEF Recv
<1>3. CASE transfer.state = "complete"
  <2>1. replies = Line("150") \o Line("226") /\ commands = << >>
    BY <1>2, <1>3 DEF RetrAnswers
  <2> QED
    BY <1>1, <1>2, <1>3, <2>1, RecvTwoLines
<1>4. CASE transfer.state # "complete"
  <2>1. /\ commands = << >>
        /\ \/ transfer.state = "sending" /\ replies = Line("150")
           \/ transfer.state = "refused" /\ replies = Line("550_Failed_to_open_file")
    BY <1>2, <1>4 DEF RetrAnswers
  <2> QED
    BY <1>1, <1>2, <2>1, RecvLine
<1> QED
  BY <1>3, <1>4

\* main finds the refusal in its line.
LEMMA RefusalFound == RetrRefused(Line("550_Failed_to_open_file"))
<1> DEFINE l == "550_Failed_to_open_file"
<1>1. Len(Line(l)) = 3 /\ 1 \in 1 .. Len(Line(l))
  BY DEF Line
<1>2. Line(l)[1] = [line |-> l, part |-> "code"] /\ Line(l)[1 + 1] = [line |-> l, part |-> "text"]
  BY DEF Line
<1>3. 1 <= Len(Line(l)) /\ 1 + 1 <= Len(Line(l))
  BY <1>1
<1> HIDE DEF l
<1>4. Holds(Line(l), 1, l, "code") /\ Holds(Line(l), 1 + 1, l, "text")
  BY <1>2, <1>3, Zenon DEF Holds
<1> QED
  BY <1>1, <1>4, Zenon DEF RetrRefused, Mentions, l

(***************************************************************************)
(* The client takes each answer before it sends the next command.          *)
(***************************************************************************)
LEMMA OrderlyClient ==
  ASSUME Orderly, TypeOK, IInv, Stream, OrderlyInv, ~Ended, ~Ended', ClientNext
  PROVE  OrderlyInv'
<1>0. /\ HelloReplies /\ Answers /\ RetrAnswers /\ QuitLast /\ NotConnected
      /\ command \in Commands /\ replies \in Seq(Parts) /\ commands \in Seq(Commands)
      /\ pc' \notin Outcomes
  BY DEF OrderlyInv, IInv, TypeOK, ServerTypeOK, Ended
<1>1. CASE command = "quit"
  <2>1. ASSUME Write \/ Quit PROVE OrderlyInv'
    <3>1. /\ UNCHANGED << command, session, failed, transfer, parts >> /\ pc' = "recv"
      BY <1>0, <2>1 DEF Write, Quit, Recv, Goto, Outcomes
    <3> QED
      BY <1>0, <1>1, <3>1 DEF OrderlyInv, HelloReplies, Answers, RetrAnswers, QuitLast
  <2>2. ~Start /\ ~Connect /\ ~receive_data /\ ~RecvFails
    BY <1>0, <1>1 DEF Start, Connect, receive_data, RecvFails, NotConnected, Answers, QuitLast, Orderly
  <2> QED
    BY <1>1, <2>1, <2>2 DEF ClientNext, Hello, User, Pass, Pasv, Retr
<1>2. CASE command # "quit"
  <2>0. session # "closed" /\ LinesFit /\ OneCommand /\ RepliesFit
    BY <1>0, <1>2 DEF QuitLast, IInv, Fits
  <2>1. CASE Start
    <3>1. /\ UNCHANGED << command, commands, replies, transfer, parts, failed >>
          /\ command = "hello" /\ session = "none" /\ session' \in {"new", "none"} /\ pc' = "write"
      BY <1>0, <2>1 DEF Start, Goto, NotConnected, Outcomes
    <3> QED
      BY <1>0, <3>1 DEF OrderlyInv, HelloReplies, Answers, RetrAnswers, QuitLast
  <2>2. CASE Write
    <3>1. /\ UNCHANGED << command, session, failed, transfer, parts, replies >> /\ pc' = "recv"
          /\ pc = "write" /\ commands' = Append(commands, command)
      BY <2>0, <2>2 DEF Write, Goto
    <3>2. RetrAnswers'
      <4>1. ASSUME command = "RETR" PROVE transfer.state = "none" /\ replies = << >> /\ commands' = << "RETR" >>
        <5>1. commands = << >> /\ transfer.state = "none" /\ replies = << >>
          BY <1>0, <3>1, <4>1 DEF RetrAnswers
        <5> QED
          BY <3>1, <4>1, <5>1
      <4> QED
        BY <3>1, <4>1 DEF RetrAnswers
    <3> QED
      BY <1>0, <3>1, <3>2 DEF OrderlyInv, HelloReplies, Answers, QuitLast
  <2>3. ~RecvFails
    BY DEF RecvFails, Orderly
  <2>4. CASE Hello
    <3>1. command = "hello" /\ Recv /\ UNCHANGED << commands, session, transfer, parts, failed >>
      BY <2>4 DEF Hello, Recv
    <3>2. session \notin {"none", "new"}
      BY <1>0, <2>0, <3>1, RecvHello DEF HelloReplies
    <3>3. CASE LoginWanted(response')
      <4>1. replies' = << >> /\ command' = "user" /\ pc' = "write"
        BY <1>0, <2>0, <2>4, <3>1, <3>3, RecvHello DEF Hello, Send
      <4> QED
        BY <1>0, <2>0, <3>1, <3>2, <4>1 DEF OrderlyInv, HelloReplies, Answers, RetrAnswers, QuitLast
    <3>4. CASE ~LoginWanted(response')
      <4>1. command' = command /\ pc' = "recv"
        BY <2>4, <3>4 DEF Hello, Goto
      <4>2. HelloReplies'
        BY <1>0, <2>0, <3>1, <3>2, <3>4, <4>1, RecvHello DEF HelloReplies
      <4> QED
        BY <1>0, <2>0, <3>1, <4>1, <4>2 DEF OrderlyInv, Answers, RetrAnswers, QuitLast
    <3> QED
      BY <3>3, <3>4
  <2>5. CASE User \/ Pass \/ Pasv
    <3>1. /\ Recv /\ command \in {"user", "pass", "pasv"} /\ replies' = << >>
          /\ UNCHANGED << commands, session, transfer, parts, failed >>
      BY <1>0, <2>0, <2>5, RecvAnswer DEF User, Pass, Pasv, Recv
    <3>2. /\ command' \in {"pass", "pasv"}
          /\ pc' = "connect" => command' = "pasv"
          /\ pc' # "receive"
      BY <1>0, <2>5 DEF User, Pass, Pasv, Send, Goto, Outcomes
    <3>3. session \notin {"none", "new"}
      BY <1>0, <3>1 DEF HelloReplies
    <3> QED
      BY <1>0, <2>0, <3>1, <3>2, <3>3 DEF OrderlyInv, HelloReplies, Answers, RetrAnswers, QuitLast
  <2>6. CASE Connect
    <3>1. /\ pc = "connect" /\ command = "pasv" /\ replies = << >> /\ replies' = << >>
          /\ commands = << >> /\ commands' = << >> /\ transfer.state = "none"
          /\ UNCHANGED << session, transfer, parts, failed >>
          /\ session \notin {"none", "new"}
      BY <1>0, <2>0, <2>6 DEF Connect, Answers, OneCommand, HelloReplies
    <3>2. pc' = "write" /\ command' = "RETR"
      BY <1>0, <2>6 DEF Connect, Send, Goto, Outcomes
    <3> QED
      BY <2>0, <3>1, <3>2 DEF OrderlyInv, HelloReplies, Answers, RetrAnswers, QuitLast
  <2>7. CASE Retr
    <3>1. /\ command = "RETR" /\ Recv /\ UNCHANGED << commands, session, transfer, parts >>
          /\ session \notin {"none", "new"}
      BY <1>0, <2>7 DEF Retr, Recv, HelloReplies
    <3>2. CASE RetrRefused(response')
      <4>1. command' = "quit" /\ failed' = TRUE /\ pc' = "write"
        BY <2>7, <3>2 DEF Retr, Send
      <4> QED
        BY <2>0, <3>1, <4>1 DEF OrderlyInv, HelloReplies, Answers, RetrAnswers, QuitLast
    <3>3. CASE ~RetrRefused(response')
      <4>1. command' = "RETR" /\ pc' = "receive"
        BY <1>0, <2>7, <3>3 DEF Retr, Goto, Outcomes
      <4>2. /\ commands = << >>
            /\ \/ transfer.state = "sending" /\ replies' = << >>
               \/ transfer.state = "complete" /\ replies' \in { << >>, Line("226") }
        BY <1>0, <2>0, <3>1, <3>3, RecvRetr, RefusalFound
      <4> QED
        BY <2>0, <3>1, <4>1, <4>2 DEF OrderlyInv, HelloReplies, Answers, RetrAnswers, QuitLast
    <3> QED
      BY <3>2, <3>3
  <2>8. CASE receive_data
    <3>1. /\ command = "RETR" /\ pc = "receive" /\ session \notin {"none", "new"}
          /\ UNCHANGED << commands, replies, session, data, transfer, failed >>
      BY <1>0, <2>8 DEF receive_data, QuitLast, HelloReplies
    <3>2. transfer.state \in {"sending", "complete"}
      BY <1>0, <3>1 DEF RetrAnswers
    <3>3. CASE Goto("receive")
      BY <1>0, <2>0, <3>1, <3>3 DEF Goto, OrderlyInv, HelloReplies, Answers, RetrAnswers, QuitLast
    <3>4. CASE parts = << >> /\ data \in {"eof", "reset"} /\ Send("quit") /\ UNCHANGED parts
      <4>1. transfer.state = "complete"
        BY <3>2, <3>4 DEF Stream
      <4> QED
        BY <2>0, <3>1, <3>4, <4>1 DEF Send, OrderlyInv, HelloReplies, Answers, RetrAnswers, QuitLast
    <3> QED
      BY <2>8, <3>3, <3>4 DEF receive_data
  <2> QED
    BY <1>2, <2>1, <2>2, <2>3, <2>4, <2>5, <2>6, <2>7, <2>8 DEF ClientNext, Quit
<1> QED
  BY <1>1, <1>2

\* Once main has returned it does nothing.
LEMMA EndedStays ==
  ASSUME Ended, [Next]_vars PROVE Ended' /\ UNCHANGED client
<1>1. ~ClientNext
  BY DEF Ended, Outcomes, ClientNext, Start, Write, RecvFails, Hello, User, Pass, Pasv, Connect, Retr,
         receive_data, Quit, Recv
<1> QED
  BY <1>1 DEF Next, Ended, vars, client

\* Every step keeps the order; an ended client takes none.
LEMMA OrderlyStep ==
  ASSUME Orderly, TypeOK, IInv, Stream, OrderlyInv, [Next]_vars PROVE OrderlyInv'
<1>1. CASE Ended'
  BY <1>1 DEF OrderlyInv
<1>2. CASE ~Ended'
  <2>1. ~Ended
    BY <1>2, EndedStays
  <2>2. CASE UNCHANGED vars
    BY <2>1, <2>2 DEF vars, server, client, OrderlyInv, HelloReplies, Answers, RetrAnswers, QuitLast
  <2> QED
    BY <1>2, <2>1, <2>2, OrderlyServer, OrderlyClient DEF Next
<1> QED
  BY <1>1, <1>2


-----------------------------------------------------------------------------
\* What LinesOf says of all the elements of a sequence.
LEMMA ElementLines ==
  ASSUME NEW r \in Seq(Parts), NEW i \in 1 .. Len(r) PROVE r[i].line \in LinesOf(r)
  BY DEF LinesOf

\* An empty sequence has none, and 226 is one of them.
LEMMA AfterRetr == LinesOf(<< >>) = {} /\ LinesOf(Line("226")) = {"226"}
<1>1. LinesOf(<< >>) = {}
  BY DEF LinesOf
<1>2. "226" \in Lines
  BY DEF Lines
<1> QED
  BY <1>1, <1>2, LineType

\* The commands these lines answer.
LEMMA AnswersOf ==
  /\ AnswerTo("331") = "user" /\ AnswerTo("227") = "pasv"
  /\ AnswerTo("230") = "pass" /\ AnswerTo("530_Login_incorrect") = "pass"
  /\ AnswerTo("150") = "RETR" /\ AnswerTo("226") = "RETR"
  /\ AnswerTo("550_Failed_to_open_file") = "RETR"
  BY DEF AnswerTo

(***************************************************************************)
(* What main takes when it goes on from a recv answers its command.        *)
(***************************************************************************)
LEMMA TakesAnswers ==
  ASSUME Orderly, TypeOK, IInv, OrderlyInv, [Next]_vars,
         pc = "recv", pc' # "recv", command \in {"user", "pass", "pasv", "RETR"}
  PROVE  /\ response' # << >>
         /\ \A i \in 1 .. Len(response') : AnswerTo(response'[i].line) = command
         /\ \A i \in 1 .. Len(replies') : replies'[i].line \in {"226", "426"}
<1>1. /\ Answers /\ RetrAnswers /\ session # "closed" /\ replies \in Seq(Parts)
  BY DEF OrderlyInv, Ended, Outcomes, QuitLast, TypeOK, ServerTypeOK
<1>2. Recv
  BY DEF Next, ClientNext, Start, Write, RecvFails, Hello, User, Pass, Pasv, Connect, Retr, receive_data,
         Quit, Orderly, vars, client
<1>3. response' \in Seq(Parts) /\ replies' \in Seq(Parts)
  BY <1>1, <1>2, RecvTakes
<1>4. /\ "331" \in Lines /\ "227" \in Lines /\ "150" \in Lines /\ "226" \in Lines /\ "230" \in Lines
      /\ "530_Login_incorrect" \in Lines /\ "550_Failed_to_open_file" \in Lines
  BY DEF Lines
<1>5. ASSUME NEW l \in Lines, response' = Line(l), AnswerTo(l) = command,
             replies' = << >> \/ replies' = Line("226")
      PROVE  /\ response' # << >>
             /\ \A i \in 1 .. Len(response') : AnswerTo(response'[i].line) = command
             /\ \A i \in 1 .. Len(replies') : replies'[i].line \in {"226", "426"}
  <2>1. LinesOf(response') = {l} /\ response' # << >>
    BY <1>5, LineType DEF Line
  <2>2. LinesOf(replies') \subseteq {"226"}
    BY <1>5, AfterRetr
  <2> QED
    BY <1>3, <1>5, <2>1, <2>2, ElementLines
<1>6. CASE command \in {"user", "pass", "pasv"}
  <2>1. /\ replies' = << >>
        /\ \/ command = "user" /\ response' = Line("331")
           \/ command = "pass" /\ response' \in { Line("230"), Line("530_Login_incorrect") }
           \/ command = "pasv" /\ response' = Line("227")
    BY <1>1, <1>2, <1>6, RecvAnswer
  <2> QED
    BY <1>4, <1>5, <2>1, AnswersOf
<1>7. CASE command = "RETR"
  <2>1. /\ replies' = << >> \/ replies' = Line("226")
        /\ \/ response' = Line("550_Failed_to_open_file")
           \/ response' = Line("150")
           \/ response' = Line("150") \o Line("226")
    BY <1>1, <1>2, <1>7, RecvRetr
  <2>2. CASE response' = Line("150") \o Line("226")
    <3>1. LinesOf(response') = {"150", "226"}
      <4>1. /\ Line("150") \in Seq(Parts) /\ LinesOf(Line("150")) = {"150"}
            /\ Line("226") \in Seq(Parts) /\ LinesOf(Line("226")) = {"226"}
        BY <1>4, LineType
      <4> QED
        BY <2>2, <4>1, ConcatLines
    <3>2. response' # << >>
      BY <3>1 DEF LinesOf
    <3>3. LinesOf(replies') \subseteq {"226"}
      BY <2>1, AfterRetr
    <3> QED
      BY <1>3, <1>7, <3>1, <3>2, <3>3, ElementLines, AnswersOf
  <2> QED
    BY <1>4, <1>5, <1>7, <2>1, <2>2, AnswersOf
<1> QED
  BY <1>6, <1>7

\* The invariant of an orderly session.
AllInv == TypeOK /\ IInv /\ Stream /\ OrderlyInv

\* It holds at first, and every step of client and server keeps it.
LEMMA AllInit == Init => AllInv
  BY TypeInit, SessionInit, StreamInit, OrderlyInit DEF AllInv

\* The step, from the four parts of the invariant.
LEMMA AllStep ==
  ASSUME Orderly, AllInv, [Next]_vars PROVE AllInv'
  BY TypeStep, SessionStep, StreamStep, OrderlyStep DEF AllInv

(***************************************************************************)
(* With an orderly server each reply main acts on answers the command it   *)
(* has just sent, and nothing of that answer is left for the next recv:    *)
(* for every file, every greeting and every URL.                           *)
(***************************************************************************)
THEOREM StaysInStep == Orderly => (Spec => InStep)
<1> SUFFICES ASSUME Orderly PROVE Spec => InStep
  OBVIOUS
<1>1. AllInv /\ [Next]_vars => AllInv'
  BY AllStep
<1>2. AllInv /\ [Next]_vars =>
        [pc = "recv" /\ pc' # "recv" /\ command \in {"user", "pass", "pasv", "RETR"} =>
           /\ response' # << >>
           /\ \A i \in 1 .. Len(response') : AnswerTo(response'[i].line) = command
           /\ \A i \in 1 .. Len(replies') : replies'[i].line \in {"226", "426"}]_vars
  BY TakesAnswers DEF AllInv
<1> QED
  BY <1>1, <1>2, AllInit, PTL DEF Spec, InStep

-----------------------------------------------------------------------------
\* fwrite makes a beginning of the file longer.
LEMMA GrowsStrictly ==
  ASSUME TypeOK, NEW n \in 1 .. Len(parts), Fwrite(n)
  PROVE  IsPrefix(saved, saved') /\ saved # saved'
<1> DEFINE taken == SubSeq(parts, 1, n)
<1>1. /\ saved \in Seq(STRING) /\ parts \in Seq(STRING)
      /\ Len(saved) \in Nat /\ Len(parts) \in Nat /\ n \in Nat /\ 1 <= n /\ n <= Len(parts)
  BY DEF TypeOK, ServerTypeOK
<1>2. taken \in Seq(STRING) /\ Len(taken) = n
  <2>1. \A i \in 1 .. n : parts[i] \in STRING
    BY <1>1, ElementOfSeq
  <2> QED
    BY <1>1, <2>1, SubSeqProperties
<1> HIDE DEF taken
<1>3. /\ saved' \in Seq(STRING) /\ Len(saved') = Len(saved) + n
      /\ \A i \in 1 .. Len(saved) : saved'[i] = saved[i]
  <2>1. saved' = saved \o taken
    BY DEF Fwrite, taken
  <2>2. /\ saved' \in Seq(STRING) /\ Len(saved') = Len(saved) + Len(taken)
        /\ \A i \in 1 .. Len(saved) + Len(taken) :
             saved'[i] = IF i <= Len(saved) THEN saved[i] ELSE taken[i - Len(saved)]
    BY <1>1, <1>2, <2>1, ConcatProperties
  <2> QED
    BY <1>1, <1>2, <2>2
<1>4. /\ SubSeq(saved', 1, Len(saved)) \in Seq(STRING)
      /\ Len(SubSeq(saved', 1, Len(saved))) = Len(saved)
      /\ \A i \in 1 .. Len(saved) : SubSeq(saved', 1, Len(saved))[i] = saved'[i]
  <2>1. \A i \in 1 .. Len(saved) : saved'[i] \in STRING
    BY <1>1, <1>3, ElementOfSeq
  <2> QED
    BY <1>1, <1>3, <2>1, SubSeqProperties
<1>5. SubSeq(saved', 1, Len(saved)) = saved
  BY <1>1, <1>3, <1>4, SeqEqual
<1>6. SubSeq(saved, 1, Len(saved)) = saved
  BY <1>1, SubSeqFull
<1> QED
  BY <1>1, <1>3, <1>5, <1>6 DEF IsPrefix

\* The whole file is saved when nothing of it is left under way.
LEMMA SavedAll ==
  ASSUME TypeOK, Stream, transfer.state = "complete", parts = << >>
  PROVE  saved = File
<1>1. /\ saved \in Seq(STRING) /\ Len(saved) \in Nat
      /\ \A i \in 1 .. Len(saved) : saved[i] = File[i]
  BY DEF TypeOK, Stream
<1>2. Len(saved) = Len(File)
  BY <1>1, FileType DEF Stream
<1> QED
  BY <1>1, <1>2, FileType, SeqEqual

\* Each step of the client is a step of the download, or none.
LEMMA DownloadStep ==
  ASSUME Orderly, AllInv, SavedPrefix', [Next]_vars
  PROVE  [Abstract!Save \/ Abstract!End]_<< saved, Outcome >>
<1>1. CASE UNCHANGED client
  BY <1>1 DEF client, Outcome
<1>2. CASE ~Ended /\ ClientNext
  <2>0. Outcome = "running" /\ TypeOK /\ Stream /\ QuitLast
    BY <1>2 DEF Outcome, Ended, Outcomes, AllInv, OrderlyInv
  <2>1. CASE \E n \in 1 .. Len(parts) : Fwrite(n) /\ Goto("receive")
    <3>1. PICK n \in 1 .. Len(parts) : Fwrite(n) /\ Goto("receive")
      BY <2>1
    <3>2. Outcome' = "running"
      BY <3>1 DEF Goto, Outcome, Outcomes
    <3>3. IsPrefix(saved, saved') /\ saved # saved' /\ IsPrefix(saved', File)
      BY <2>0, <3>1, GrowsStrictly DEF SavedPrefix
    <3>4. Abstract!Save
      BY <2>0, <3>2, <3>3 DEF Abstract!Save, Abstract!IsStrictPrefix, Abstract!IsPrefix, IsPrefix
    <3> QED
      BY <3>4
  <2>2. CASE saved' = saved
    <3>1. CASE pc' \notin Outcomes
      <4>1. Outcome' = "running"
        BY <3>1 DEF Outcome, Outcomes
      <4> QED
        BY <2>0, <2>2, <4>1
    <3>2. CASE pc' \in Outcomes
      <4>1. Outcome' \in {"success", "failure"} /\ (Outcome' = "success" => pc' = "done")
        BY <3>2 DEF Outcome, Outcomes
      <4>2. ASSUME pc' = "done" PROVE command = "quit" /\ ~failed
        BY <1>2, <4>2 DEF ClientNext, Start, Write, RecvFails, Hello, User, Pass, Pasv, Connect, Retr,
                          receive_data, Quit, Send, Goto
      <4>3. ASSUME pc' = "done" PROVE saved = File
        BY <2>0, <4>2, <4>3, SavedAll DEF QuitLast
      <4> QED
        BY <2>0, <2>2, <4>1, <4>3 DEF Abstract!End
    <3> QED
      BY <3>1, <3>2
  <2>3. saved' = saved \/ \E n \in 1 .. Len(parts) : Fwrite(n) /\ Goto("receive")
    BY <1>2 DEF ClientNext, Start, Write, RecvFails, Hello, User, Pass, Pasv, Connect, Retr,
                receive_data, Quit, Recv, server
  <2> QED
    BY <2>1, <2>2, <2>3
<1> QED
  BY <1>1, <1>2, EndedStays DEF Next, vars

(***************************************************************************)
(* With an orderly server a download that returns 0 has saved the whole    *)
(* file, and what is saved only ever grows towards it: the client          *)
(* implements Download, for every file, greeting and URL.                  *)
(***************************************************************************)
THEOREM Downloads == Orderly => (Spec => ImplementsDownload)
<1> SUFFICES ASSUME Orderly PROVE Spec => ImplementsDownload
  OBVIOUS
<1>1. AllInv /\ [Next]_vars => AllInv'
  BY AllStep
<1>2. AllInv => SavedPrefix
  BY StreamIsPrefix DEF AllInv, TypeOK, TransferTypes
<1>3. AllInv /\ SavedPrefix' /\ [Next]_vars => [Abstract!Save \/ Abstract!End]_<< saved, Outcome >>
  BY DownloadStep
<1>4. Init => Abstract!Init
  BY DEF Init, Abstract!Init, Outcome, Outcomes
<1> QED
  BY <1>1, <1>2, <1>3, <1>4, AllInit, PTL DEF Spec, ImplementsDownload, Abstract!Spec
=============================================================================

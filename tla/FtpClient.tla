----------------------------- MODULE FtpClient -----------------------------
(***************************************************************************)
(* The FTP client of Work2/main.c: it takes its URL apart, connects, and   *)
(* sends one command after the other, each followed by one recv, whatever  *)
(* that returns being taken for the reply.                                 *)
(***************************************************************************)
EXTENDS FtpServer, Url

CONSTANTS
  Requests,   \* what may be asked for: user, password, host and path
  Cuts        \* where a recv may end: after a "line" of a reply, or "anywhere"

ASSUME ClientAssumption == Cuts \in {"line", "anywhere"}
ASSUME RequestsAssumption == \A r \in Requests : WellFormed(r)

VARIABLES
  request,    \* what the URL given to main is meant to say
  target,     \* what main has taken from it
  pc,         \* what the client is about to do
  command,    \* the argument of send_command
  response,   \* what recv has returned
  saved,      \* the contents of the local file
  failed      \* close_connection is called on the way to exit(-1)

client == << request, target, pc, command, response, saved, failed >>
vars == << server, client >>

Outcomes == {"done", "exited", "killed", "crashed"}
Ended == pc \in Outcomes

\* What main makes of each URL.
Targets == [r \in Requests |-> Parse(Format(r))]

TypeOK ==
  /\ ServerTypeOK
  /\ request \in Requests /\ target \in {[status |-> "unparsed"], Targets[request]}
  /\ pc \in {"start", "write", "recv", "connect", "receive"} \cup Outcomes
  /\ command \in Commands
  /\ response \in Seq(Parts)
  /\ saved \in Seq(STRING)
  /\ failed \in BOOLEAN

Init ==
  /\ ServerInit
  /\ request \in Requests /\ target = [status |-> "unparsed"]
  /\ pc = "start" /\ command = "hello" /\ response = << >> /\ saved = << >> /\ failed = FALSE

Goto(l) == pc' = l /\ UNCHANGED command
Send(c) == pc' = "write" /\ command' = c

\* Part p of the line l is the i-th part of r.
Holds(r, i, l, p) == i <= Len(r) /\ r[i] = [line |-> l, part |-> p]

\* strncmp with a code, and with a code and its text.
StartsWithCode(r, l) == Holds(r, 1, l, "code")
StartsWithText(r, l) == StartsWithCode(r, l) /\ Holds(r, 2, l, "text")

\* strstr for a code and its text.
Mentions(r, l) == \E i \in 1 .. Len(r) : Holds(r, i, l, "code") /\ Holds(r, i + 1, l, "text")

\* Variant: the first reply ends the wait.
AnyReply(r) == r # << >>

LoginWanted(r) == Mentions(r, "530_Please_login")

\* Variant: the code of the answer is not looked at.
NotEmpty(r) == r # << >>

LoggedIn(r) == StartsWithCode(r, "230-") \/ StartsWithCode(r, "230")

\* get_new_port needs both parentheses.
PortGiven(r) == StartsWithText(r, "227")

\* Variants: a refusal is not noticed; the end of the transfer must have been
\* announced together with its beginning.
Never(r) == FALSE
Unfinished(r) == ~Mentions(r, "226")

RetrRefused(r) == Mentions(r, "550_Failed_to_open_file")

-----------------------------------------------------------------------------
\* The URL is taken apart; then main connects to the server.
Start ==
  /\ pc = "start"
  /\ target' = Targets[request]
  /\ \/ target'.status = "ok" /\ Goto("write") /\ session' = "new"
     \/ target'.status = "invalid" /\ Goto("exited") /\ UNCHANGED session
     \/ target'.status = "crash" /\ Goto("crashed") /\ UNCHANGED session
  /\ UNCHANGED << commands, replies, data, parts, transfer, request, response, saved, failed >>

\* write(): on a connection the server has closed it may end the process.
Write ==
  /\ pc = "write"
  /\ \/ commands' = Append(commands, command) /\ Goto("recv")
     \/ session = "closed" /\ Goto("killed") /\ UNCHANGED commands
  /\ UNCHANGED << replies, session, data, parts, transfer, request, target, response, saved, failed >>

\* recv() on the control connection: some of what has arrived, or nothing
\* at the end of the connection.
Recv ==
  /\ pc = "recv"
  /\ \/ \E n \in 1 .. Len(replies) :
          /\ Cuts = "line" => replies[n].part = "end"
          /\ response' = SubSeq(replies, 1, n)
          /\ replies' = SubSeq(replies, n + 1, Len(replies))
     \/ replies = << >> /\ session = "closed" /\ response' = << >> /\ UNCHANGED replies
  /\ UNCHANGED << commands, session, data, parts, transfer, request, target, saved >>

\* recv() returns -1.
RecvFails ==
  /\ pc = "recv" /\ session = "closed" /\ "close" \in Faults
  /\ Goto("exited")
  /\ UNCHANGED << server, request, target, response, saved, failed >>

\* The loop of initialize_connection: each recv starts the buffer anew.
Hello ==
  /\ command = "hello" /\ Recv
  /\ IF LoginWanted(response') THEN Send("user") ELSE Goto("recv")
  /\ UNCHANGED failed

User ==
  /\ command = "user" /\ Recv
  /\ IF StartsWithText(response', "331") THEN Send("pass") ELSE Goto("exited")
  /\ UNCHANGED failed

Pass ==
  /\ command = "pass" /\ Recv
  /\ IF LoggedIn(response') THEN Send("pasv") ELSE Goto("exited")
  /\ UNCHANGED failed

Pasv ==
  /\ command = "pasv" /\ Recv
  /\ Goto(IF PortGiven(response') THEN "connect" ELSE "exited")
  /\ UNCHANGED failed

Connect ==
  /\ pc = "connect"
  /\ \/ data = "listening" /\ data' = "connected" /\ Send("RETR")
     \/ data # "listening" /\ Goto("exited") /\ UNCHANGED data
  /\ UNCHANGED << commands, replies, session, parts, transfer, request, target, response, saved, failed >>

\* The local name is what follows the last slash of the path: without one,
\* the pointer after NULL; nothing, which fopen never opens, when it is the
\* last character.
Nested == Has(target.path, "/")

\* Variant: a path always ends in a name.
Nameable(path) == FALSE

Directory(path) == Last(path) = "/"

Retr ==
  /\ command = "RETR" /\ Recv
  /\ IF RetrRefused(response')
     THEN Send("quit") /\ failed' = TRUE
     ELSE /\ \/ ~Nested /\ Goto("crashed")
             \/ Nested /\ ~Directory(target.path) /\ Goto("receive")
             \/ Nested /\ (Directory(target.path) \/ "open" \in Faults) /\ Goto("exited")
          /\ UNCHANGED failed

\* Variant: each part of the file overwrites the one before it.
Overwrites(n) == saved' = SubSeq(parts, 1, n)

Fwrite(n) == saved' = saved \o SubSeq(parts, 1, n)

receive_data ==
  /\ pc = "receive"
  /\ \/ \E n \in 1 .. Len(parts) :
          Fwrite(n) /\ parts' = SubSeq(parts, n + 1, Len(parts)) /\ Goto("receive")
     \/ parts = << >> /\ data \in {"eof", "reset"} /\ Send("quit") /\ UNCHANGED << saved, parts >>
  /\ UNCHANGED << commands, replies, session, data, transfer, request, target, response, failed >>

\* close_connection takes any reply.
Quit ==
  /\ command = "quit" /\ Recv
  /\ Goto(IF failed THEN "exited" ELSE "done")
  /\ UNCHANGED failed

ClientNext ==
  \/ Start \/ Write \/ RecvFails \/ Hello \/ User \/ Pass \/ Pasv \/ Connect \/ Retr \/ receive_data \/ Quit

Next ==
  \/ ClientNext
  \/ ServerNext /\ UNCHANGED client
  \/ Ended /\ UNCHANGED vars

Spec == Init /\ [][Next]_vars

\* The client runs when it can, and the server answers.
FairSpec == Spec /\ WF_vars(ClientNext) /\ WF_vars(Serve /\ UNCHANGED client)

-----------------------------------------------------------------------------
Outcome ==
  CASE pc = "done" -> "success" [] pc \in Outcomes \ {"done"} -> "failure" [] OTHER -> "running"

Abstract == INSTANCE Download WITH outcome <- Outcome

(***************************************************************************)
(* A download that returns 0 has saved the whole file, and the local file  *)
(* only ever grows towards it.                                             *)
(***************************************************************************)
ImplementsDownload == Abstract!Spec

(***************************************************************************)
(* Each reply main acts on answers the command it has just sent, ends with *)
(* a whole line, and leaves nothing of that answer for the next recv (226  *)
(* comes later, and close_connection does not care).                       *)
(***************************************************************************)
InStep ==
  [][pc = "recv" /\ pc' # "recv" /\ command \in {"user", "pass", "pasv", "RETR"} =>
       /\ response' # << >>
       /\ \A i \in 1 .. Len(response') : AnswerTo(response'[i].line) = command
       /\ \A i \in 1 .. Len(replies') : replies'[i].line \in {"226", "426"}]_vars

(***************************************************************************)
(* The client is never ahead of the server, however replies are cut: it    *)
(* asks for a data connection only when logged in, and connects only to a  *)
(* server that listens, unless the session has been closed meanwhile.      *)
(***************************************************************************)
SessionFits ==
  /\ command \in {"pasv", "RETR"} => session \in {"in", "closed"}
  /\ pc = "connect" => data = "listening" \/ session = "closed"

(***************************************************************************)
(* Whatever goes wrong, what has been saved is how the file begins.        *)
(***************************************************************************)
SavedPrefix == IsPrefix(saved, File)

(***************************************************************************)
(* What main takes from a URL is what it was made of exactly when the path *)
(* without a login has no @ in it, and the path with a user only no colon. *)
(***************************************************************************)
ParsesExactly ==
  target.status # "unparsed" =>
    (target = [status |-> "ok", user |-> request.user, password |-> request.password,
               host |-> request.host, path |-> request.path]
     <=> Understood(request))

(***************************************************************************)
(* If main understands the URL and the path has a slash, the client ends:  *)
(* with a failure if the server refuses the login or the file, or if the   *)
(* path ends in the slash, which leaves no name for the local file; with a *)
(* success in any other case, and in no other.                             *)
(***************************************************************************)
EndsWell ==
  Understood(request) /\ Has(request.path, "/") =>
    <>(\/ pc = "done" /\ session # "ready" /\ transfer.state # "refused" /\ Last(request.path) # "/"
       \/ pc = "exited" /\ (\/ session = "ready" \/ transfer.state = "refused"
                            \/ Last(request.path) = "/"))

=============================================================================

--------------------------- MODULE OlderFtpClient ---------------------------
(***************************************************************************)
(* The FTP client in the earlier state the repository keeps (the nested    *)
(* Work2/ComputerNetworks2024-main/main.c).  It insists on a password in   *)
(* the URL, looks at no reply to user and pass, and prints the file        *)
(* instead of saving it: saved is what it has printed.  The steps that are *)
(* the same code are those of FtpClient.                                   *)
(***************************************************************************)
EXTENDS FtpClient

\* Variant: a user may come without a password.
PasswordOptional(url) == Parse(url)

\* strtok(NULL, "@") after a string without a colon returns NULL, and main looks
\* at rest before it copies the password.
OlderParse(url) ==
  IF Has(url, "@") /\ strtok(url, ":").rest = << >> THEN [status |-> "invalid"] ELSE Parse(url)

OlderTargets == [r \in Requests |-> OlderParse(Format(r))]

OlderStart ==
  /\ pc = "start"
  /\ target' = OlderTargets[request]
  /\ \/ target'.status = "ok" /\ Goto("write") /\ session' = "new"
     \/ target'.status = "invalid" /\ Goto("exited") /\ UNCHANGED session
     \/ target'.status = "crash" /\ Goto("crashed") /\ UNCHANGED session
  /\ UNCHANGED << commands, replies, data, parts, transfer, request, response, saved, failed >>

\* Variant: the reply is waited for, as initialize_connection does.
WaitsFor331 ==
  /\ command = "user" /\ Recv
  /\ IF Mentions(response', "331") THEN Send("pass") ELSE Goto("recv")
  /\ UNCHANGED failed

\* The results of send_command for user and pass are not used.
OlderUser == command = "user" /\ Recv /\ Send("pass") /\ UNCHANGED failed
OlderPass == command = "pass" /\ Recv /\ Send("pasv") /\ UNCHANGED failed

\* The answer to pasv is where a refused login would be noticed.
LoginRefused(r) == StartsWithCode(r, "530_Please_login") \/ StartsWithCode(r, "530_Login_incorrect")

\* Variant: any reply has an address in it.
SomeReply(r) == r # << >>

\* get_new_port looks for the parentheses anywhere, and exits without them.
Parentheses(r) == \E i \in 1 .. Len(r) : r[i] = [line |-> "227", part |-> "text"]

OlderPasv ==
  /\ command = "pasv" /\ Recv
  /\ Goto(IF Parentheses(response') /\ ~LoginRefused(response') THEN "connect" ELSE "exited")
  /\ UNCHANGED failed

\* No name is made of the path, and no file opened.
OlderRetr ==
  /\ command = "RETR" /\ Recv
  /\ IF RetrRefused(response') THEN Send("quit") /\ failed' = TRUE
                               ELSE Goto("receive") /\ UNCHANGED failed

\* send_command, initialize_connection, receive_data (to stdout) and
\* close_connection are the same code.
SameCode == Write \/ RecvFails \/ Hello \/ Connect \/ receive_data \/ Quit

OlderClientNext ==
  \/ OlderStart \/ OlderUser \/ OlderPass \/ OlderPasv \/ OlderRetr \/ SameCode

OlderNext ==
  \/ OlderClientNext
  \/ ServerNext /\ UNCHANGED client
  \/ Ended /\ UNCHANGED vars

OlderSpec == Init /\ [][OlderNext]_vars

OlderFairSpec ==
  OlderSpec /\ WF_vars(OlderClientNext) /\ WF_vars(Serve /\ UNCHANGED client)

-----------------------------------------------------------------------------
(***************************************************************************)
(* Two replies go unread, and the client may have fallen behind by some:   *)
(* still it connects only to a server that listens and asks for the file   *)
(* only when logged in, unless the session has been closed meanwhile.      *)
(***************************************************************************)
LoginStillNeeded ==
  /\ command = "RETR" => session \in {"in", "closed"}
  /\ pc = "connect" => data = "listening" \/ session = "closed"

(***************************************************************************)
(* Whatever reply is taken for the answer to RETR: when the server has     *)
(* sent the file to its end and the client returns 0, all of it has been   *)
(* printed, and nothing else at any time.                                  *)
(***************************************************************************)
PrintsFile ==
  /\ IsPrefix(saved, File)
  /\ pc = "done" /\ transfer.state = "complete" => saved = File

(***************************************************************************)
(* What main takes from a URL is what it was made of exactly when it has a *)
(* password, or no login and no @ in the path.                             *)
(***************************************************************************)
OlderParsesExactly ==
  target.status # "unparsed" =>
    (target = [status |-> "ok", user |-> request.user, password |-> request.password,
               host |-> request.host, path |-> request.path]
     <=> \/ request.password # Unset
         \/ request.user = Anonymous /\ ~Has(request.path, "@"))

(***************************************************************************)
(* Once the server's first 530 has been read, the client ends: as many     *)
(* replies come as it waits for, however they are cut, and the data        *)
(* connection comes to an end.                                             *)
(***************************************************************************)
EndsOnceGreeted == command # "hello" ~> Ended

=============================================================================

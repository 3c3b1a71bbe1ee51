------------------------------- MODULE MCFtp -------------------------------
(***************************************************************************)
(* URLs, files, replies and faults for checking the two FTP clients.       *)
(***************************************************************************)
EXTENDS OlderFtpClient

Paths == SeqOf({"a", "/", ":", "@"}, 3) \ { << >> }

Logins == {Anonymous} \X {Unset} \cup { << "u" >> } \X {Unset, << "p" >>, << ":", "/" >>}

\* Every path of up to three characters, with every kind of login.
AllRequests ==
  { [user |-> l[1], password |-> l[2], host |-> << "h" >>, path |-> p] : l \in Logins, p \in Paths }

InDirectory ==
  { [user |-> << "u" >>, password |-> << "p" >>, host |-> << "h" >>, path |-> << "d", "/", "f" >>] }

ShortPaths == { r \in AllRequests : Len(r.path) <= 2 }

TwoParts == << "first", "second" >>

Short == { <<"220">> }
Long  == Short \cup { <<"220-", "220">> }

OneLine == { <<"230">>, <<"530_Login_incorrect">> }
Banner  == OneLine \cup { <<"230-", "230">> }

NoSuchFile == {"550_Failed_to_open_file"}
AnyRefusal == NoSuchFile \cup {"550_Permission_denied"}

=============================================================================

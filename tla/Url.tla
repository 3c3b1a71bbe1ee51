-------------------------------- MODULE Url --------------------------------
(***************************************************************************)
(* How Work2/main.c takes a URL apart, after "ftp://".  A URL is a         *)
(* sequence of characters.  << >> stands for NULL: neither a token nor     *)
(* what is left of a string is ever empty.                                 *)
(***************************************************************************)
EXTENDS Integers, Sequences, SequencesExt

Anonymous == << "anonymous" >>   \* the user when the URL names none
Unset     == << "unset" >>       \* the array password, never initialised

\* strchr(s, c).
Has(s, c) == \E i \in DOMAIN s : s[i] = c

\* What strtok(s, d) returns, and what is left for strtok(NULL, "").
strtok(s, d) ==
  LET others == { i \in DOMAIN s : s[i] # d }
      from   == Min(others)
      ends   == { i \in from + 1 .. Len(s) : s[i] = d }
      to     == Min(ends)
  IN  IF others = {} THEN [token |-> << >>, rest |-> << >>]
      ELSE IF ends = {} THEN [token |-> SubSeq(s, from, Len(s)), rest |-> << >>]
      ELSE [token |-> SubSeq(s, from, to - 1), rest |-> SubSeq(s, to + 1, Len(s))]

\* The string in which strtok has found no second token: a delimiter at its
\* end is gone.
Uncut(s, d) == IF Last(s) = d THEN Front(s) ELSE s

\* Variant: the user alone is cut from what strtok has left.
UserOfToken(url) == strtok(strtok(url, ":").token, ":")

UserOnly(url) == strtok(Uncut(url, ":"), "@")

\* User, password and the rest of a URL that has an @ in it.  A last token is
\* copied without being looked at: NULL if everything before it was @.
Login(url) ==
  LET user == strtok(url, ":")
      password == strtok(user.rest, "@")
  IN  IF user.rest = << >>
      THEN LET u == UserOnly(url)
           IN  [user |-> u.token, password |-> Unset, rest |-> u.rest, crash |-> u.token = << >>]
      ELSE [user |-> user.token, password |-> password.token, rest |-> password.rest,
            crash |-> password.token = << >>]

NoLogin(url) == [user |-> Anonymous, password |-> Unset, rest |-> url, crash |-> FALSE]

\* What main knows when it begins to connect, "invalid" if it has called
\* exit(-1), "crash" if strcpy was given NULL.
Parse(url) ==
  LET login == IF Has(url, "@") THEN Login(url) ELSE NoLogin(url)
      host  == strtok(login.rest, "/")
  IN  IF login.crash THEN [status |-> "crash"]
      ELSE IF host.rest = << >> THEN [status |-> "invalid"]
      ELSE [status |-> "ok", user |-> login.user, password |-> login.password,
            host |-> host.token, path |-> host.rest]


-----------------------------------------------------------------------------
\* The documented format, [<user>:<password>@]<host>/<url-path>, and the form
\* with a user only, which main accepts as well.
Format(u) ==
  (IF u.user = Anonymous THEN << >>
   ELSE IF u.password = Unset THEN u.user \o << "@" >>
   ELSE u.user \o << ":" >> \o u.password \o << "@" >>)
  \o u.host \o << "/" >> \o u.path

\* Requests that the format can say: nothing in it is empty, or has the
\* character in it that ends it.
WellFormed(u) ==
  /\ u \in [user : Seq(STRING), password : Seq(STRING), host : Seq(STRING), path : Seq(STRING)]
  /\ \A part \in DOMAIN u : u[part] # << >>
  /\ ~Has(u.user, ":") /\ ~Has(u.user, "@") /\ ~Has(u.password, "@")
  /\ \A d \in {":", "@", "/"} : ~Has(u.host, d)
  /\ u.user = Anonymous => u.password = Unset

\* What strchr and strtok leave whole: they look for @ and : in all of the URL.
Understood(u) ==
  \/ u.password # Unset
  \/ u.user = Anonymous /\ ~Has(u.path, "@")
  \/ u.user # Anonymous /\ ~Has(u.path, ":")

=============================================================================

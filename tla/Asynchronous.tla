---------------------------- MODULE Asynchronous ----------------------------
(***************************************************************************)
(* The course example Code/code/asynchronous.c: a loop that reads a line   *)
(* when the handler of SIGIO has cleared wait_flag.  A step of the program *)
(* is what a line or the signal can come before or after.  A line is its   *)
(* length, the character that ends it included.                            *)
(***************************************************************************)
EXTENDS Integers, Sequences

CONSTANTS
  BufferSize,   \* the most characters one read asks for (255)
  Lengths,      \* the lengths of lines somebody types
  MaxLines      \* bound: how many lines are typed

ASSUME AsynchronousAssumption ==
  BufferSize \in Nat \ {0} /\ Lengths \subseteq Nat \ {0} /\ MaxLines \in Nat

VARIABLES
  ioPc,         \* where main is, from F_SETFL on
  wait_flag,
  STOP,
  pending,      \* SIGIO has been raised and not been handled
  lines,        \* what the terminal has of each line that is not read to its end
  typed,        \* counter: lines typed so far
  orderly,      \* history: each line so far was one main can read without another
  flushed       \* history: tcflush took a line away whose signal is not answered yet

asynchronous == << ioPc, wait_flag, STOP, pending, lines, typed, orderly, flushed >>

AsynchronousInit ==
  /\ ioPc = "setup" /\ wait_flag = TRUE /\ STOP = FALSE /\ pending = FALSE
  /\ lines = << >> /\ typed = 0 /\ orderly = TRUE /\ flushed = FALSE

\* main waits, and has nothing to read.
Waiting == ioPc \in {"sleep", "test"} /\ wait_flag /\ ~pending /\ lines = << >>

\* A line is complete: the terminal raises SIGIO, once if it is pending already.
Type ==
  /\ ioPc # "done" /\ typed < MaxLines /\ typed' = typed + 1
  /\ pending' = TRUE
  /\ \E n \in Lengths :
       /\ lines' = Append(lines, n)
       /\ orderly' = (orderly /\ Waiting /\ n <= BufferSize)
  /\ UNCHANGED << ioPc, wait_flag, STOP, flushed >>

signal_handler_IO ==
  /\ pending /\ ioPc # "done"
  /\ pending' = FALSE /\ wait_flag' = FALSE
  /\ UNCHANGED << ioPc, STOP, lines, typed, orderly, flushed >>

-----------------------------------------------------------------------------
\* A system call does not return to main before the signals raised until then
\* have been handled.
Returning(pc) == ioPc = pc /\ ~pending

\* tcflush and tcsetattr, when the terminal raises signals already.
Setup ==
  /\ Returning("setup") /\ ioPc' = "sleep"
  /\ lines' = << >> /\ flushed' = (lines # << >>)
  /\ UNCHANGED << wait_flag, STOP, pending, typed, orderly >>

\* Variant: wait_flag is reset before it is looked at.
ResetsEarly ==
  /\ Returning("sleep") /\ ioPc' = "test" /\ wait_flag' = TRUE
  /\ UNCHANGED << STOP, pending, lines, typed, orderly, flushed >>

Usleep ==
  /\ Returning("sleep") /\ ioPc' = "test"
  /\ UNCHANGED << wait_flag, STOP, pending, lines, typed, orderly, flushed >>

Test ==
  /\ ioPc = "test" /\ ioPc' = IF wait_flag THEN "sleep" ELSE "read"
  /\ UNCHANGED << wait_flag, STOP, pending, lines, typed, orderly, flushed >>

\* F_SETFL has taken O_NONBLOCK away: read waits for a line, and returns one or
\* as much of it as buf holds.
Read ==
  /\ Returning("read") /\ lines # << >> /\ ioPc' = "reset"
  /\ LET n   == Head(lines)
         res == IF n > BufferSize THEN BufferSize ELSE n
     IN  /\ lines' = IF n > res THEN << n - res >> \o Tail(lines) ELSE Tail(lines)
         /\ STOP' = (res = 1)
  /\ flushed' = FALSE
  /\ UNCHANGED << wait_flag, pending, typed, orderly >>

\* Variant: wait_flag is not reset.
NoReset ==
  /\ ioPc = "reset" /\ ioPc' = IF STOP THEN "done" ELSE "sleep"
  /\ UNCHANGED << wait_flag, STOP, pending, lines, typed, orderly, flushed >>

\* A signal that came since the test is forgotten.
Reset ==
  /\ ioPc = "reset" /\ ioPc' = IF STOP THEN "done" ELSE "sleep"
  /\ wait_flag' = TRUE
  /\ UNCHANGED << STOP, pending, lines, typed, orderly, flushed >>

Main == Setup \/ Usleep \/ Test \/ Read \/ Reset

AsynchronousNext == Type \/ signal_handler_IO \/ Main

-----------------------------------------------------------------------------
(***************************************************************************)
(* "after receiving SIGIO, wait_flag = FALSE, input is available and can   *)
(* be read" (asynchronous.c:86): main never calls read with nothing there, *)
(* however signals are merged, delayed or forgotten; but tcflush may have  *)
(* taken away what the first signal was for.                               *)
(***************************************************************************)
InputAvailable == ioPc = "read" => lines # << >> \/ flushed

(***************************************************************************)
(* A line that is typed when main waits, and fits in buf, is read without  *)
(* another one having to come; an empty one ends the program.              *)
(***************************************************************************)
ReadsLines ==
  /\ lines # << >> /\ orderly ~> lines = << >> \/ ~orderly
  /\ lines = << 1 >> /\ orderly ~> ioPc = "done" \/ ~orderly

=============================================================================

--------------------------- MODULE Signals_proofs ---------------------------
(***************************************************************************)
(* That asynchronous.c reads only where there is something to read, for    *)
(* lines of any lengths, any number of them and a buffer of any size.      *)
(***************************************************************************)
EXTENDS Signals, TLAPS

\* The variables of asynchronous.c keep their types.
IoTypes ==
  /\ ioPc \in {"setup", "sleep", "test", "read", "reset", "done"}
  /\ wait_flag \in BOOLEAN /\ pending \in BOOLEAN /\ flushed \in BOOLEAN
  /\ lines \in Seq(Nat \ {0})

\* A signal that is pending, or whose handler has run and which Reset has not
\* forgotten, stands for a line that is there or that tcflush took away.
SignalHasLine ==
  pending \/ (~wait_flag /\ ioPc # "reset") => lines # << >> \/ flushed

\* main reads only after the handler has run.
ReadsAfterHandler == ioPc = "read" => ~wait_flag

\* Nothing is flushed before tcflush is called.
NotYetFlushed == ioPc = "setup" => ~flushed

IInv == IoTypes /\ SignalHasLine /\ ReadsAfterHandler /\ NotYetFlushed

-----------------------------------------------------------------------------
\* Nothing is there when main starts.
LEMMA InitIInv == Init => IInv
<1> SUFFICES ASSUME Init PROVE IInv
  OBVIOUS
<1>1. << >> \in Seq(Nat \ {0})
  BY SMT
<1>. QED
  BY <1>1 DEF Init, AsynchronousInit, IInv, IoTypes, SignalHasLine, ReadsAfterHandler,
              NotYetFlushed

\* Appending leaves a sequence that is not empty.
LEMMA AppendNotEmpty ==
  ASSUME NEW s \in Seq(Nat \ {0}), NEW n \in Nat \ {0}
  PROVE  Append(s, n) \in Seq(Nat \ {0}) /\ Append(s, n) # << >>
<1>1. Append(s, n) \in Seq(Nat \ {0}) /\ Len(Append(s, n)) = Len(s) + 1
  BY SMT
<1>2. Len(s) \in Nat
  BY SMT
<1>3. Append(s, n) # << >>
  BY <1>1, <1>2, SMT
<1>. QED  BY <1>1, <1>3

\* What read leaves of a line is a line of a positive length.
LEMMA RestOfLine ==
  ASSUME NEW s \in Seq(Nat \ {0}), s # << >>,
         NEW res \in Nat \ {0}
  PROVE  (IF Head(s) > res THEN << Head(s) - res >> \o Tail(s) ELSE Tail(s))
           \in Seq(Nat \ {0})
<1>1. Head(s) \in Nat \ {0} /\ Tail(s) \in Seq(Nat \ {0})
  BY SMT
<1>2. CASE Head(s) > res
  <2>1. Head(s) - res \in Nat \ {0}
    BY <1>1, <1>2, SMT
  <2>2. << Head(s) - res >> \in Seq(Nat \ {0})
    BY <2>1, SMT
  <2>3. << Head(s) - res >> \o Tail(s) \in Seq(Nat \ {0})
    BY <1>1, <2>2, SMT
  <2>. QED  BY <1>2, <2>3
<1>3. CASE ~(Head(s) > res)
  BY <1>1, <1>3
<1>. QED  BY <1>2, <1>3

\* Every step of the program, of the terminal and of alarme.c keeps the invariant.
LEMMA StepIInv == IInv /\ [Next]_vars => IInv'
<1> SUFFICES ASSUME IInv, [Next]_vars
             PROVE  IInv'
  OBVIOUS
<1> USE DEF IInv, IoTypes, SignalHasLine, ReadsAfterHandler, NotYetFlushed
<1>1. CASE Type
  <2>1. PICK n \in Lengths : lines' = Append(lines, n)
    BY <1>1 DEF Type
  <2>2. n \in Nat \ {0}
    BY AsynchronousAssumption
  <2>3. lines' \in Seq(Nat \ {0}) /\ lines' # << >>
    BY <2>1, <2>2, AppendNotEmpty
  <2>. QED  BY <1>1, <2>3 DEF Type
<1>2. CASE signal_handler_IO
  \* What the signal stood for, wait_flag stands for now.
  BY <1>2 DEF signal_handler_IO
<1>3. CASE Setup
  \* Without a pending signal wait_flag is still set, or flushed tells why not.
  <2>1. lines' = << >> /\ flushed' = (lines # << >>) /\ ioPc = "setup" /\ ioPc' = "sleep"
        /\ UNCHANGED << wait_flag, pending >>
    BY <1>3 DEF Setup, Returning
  <2>2. << >> \in Seq(Nat \ {0})
    BY SMT
  <2>. QED  BY <2>1, <2>2
<1>4. CASE Usleep
  BY <1>4 DEF Usleep, Returning
<1>5. CASE Test
  BY <1>5 DEF Test
<1>6. CASE Read
  \* The line is taken with the signal handled: Reset will forget it.
  <2>1. /\ ioPc = "read" /\ ~pending /\ lines # << >> /\ ioPc' = "reset"
        /\ UNCHANGED << wait_flag, pending >> /\ flushed' = FALSE
    BY <1>6 DEF Read, Returning
  <2>2. lines' \in Seq(Nat \ {0})
    <3> DEFINE n   == Head(lines)
               res == IF n > BufferSize THEN BufferSize ELSE n
    <3>1. n \in Nat \ {0}
      BY <2>1, SMT
    <3>2. res \in Nat \ {0}
      BY <3>1, AsynchronousAssumption
    <3>3. lines' = IF n > res THEN << n - res >> \o Tail(lines) ELSE Tail(lines)
      BY <1>6 DEF Read
    <3>. QED  BY <2>1, <3>2, <3>3, RestOfLine
  <2>. QED  BY <2>1, <2>2
<1>7. CASE Reset
  BY <1>7 DEF Reset
<1>8. CASE UNCHANGED asynchronous
  BY <1>8 DEF asynchronous
<1>. QED
  BY <1>1, <1>2, <1>3, <1>4, <1>5, <1>6, <1>7, <1>8
  DEF Next, AsynchronousStep, AlarmStep, AsynchronousNext, Main, vars

\* asynchronous.c:86: after wait_flag has become FALSE input is available, but
\* for the line that tcflush may have taken away.
THEOREM ReadsWhatIsThere == Spec => []InputAvailable
<1>1. IInv => InputAvailable
  BY DEF IInv, SignalHasLine, ReadsAfterHandler, InputAvailable
<1>. QED  BY <1>1, InitIInv, StepIInv, PTL DEF Spec

=============================================================================

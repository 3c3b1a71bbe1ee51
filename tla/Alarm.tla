-------------------------------- MODULE Alarm --------------------------------
(***************************************************************************)
(* The course example Code/code/alarme.c: a loop that sets an alarm of     *)
(* three seconds whenever its handler has set flag, until it has rung      *)
(* three times.  flag and conta are read and written as the source says,   *)
(* as a compiler does that is not asked to optimise.                       *)
(***************************************************************************)
EXTENDS Integers

VARIABLES
  alPc,     \* where main is
  timer,    \* an alarm is set
  flag,
  conta

alarme == << alPc, timer, flag, conta >>

AlarmInit == alPc = "while" /\ timer = FALSE /\ flag = 1 /\ conta = 1

While ==
  /\ alPc = "while" /\ alPc' = IF conta < 4 THEN "if" ELSE "done"
  /\ UNCHANGED << timer, flag, conta >>

\* alarm(3)
SetAlarm ==
  /\ alPc = "if"
  /\ IF flag = 1 THEN timer' = TRUE /\ alPc' = "set" ELSE alPc' = "while" /\ UNCHANGED timer
  /\ UNCHANGED << flag, conta >>

ClearFlag ==
  /\ alPc = "set" /\ alPc' = "while" /\ flag' = 0
  /\ UNCHANGED << timer, conta >>

\* Variant: the alarm is not set again.
CountOnly ==
  /\ timer /\ alPc # "done"
  /\ timer' = FALSE /\ conta' = conta + 1
  /\ UNCHANGED << alPc, flag >>

\* The handler, three seconds after alarm(3), wherever main is.
atende ==
  /\ timer /\ alPc # "done"
  /\ timer' = FALSE /\ flag' = 1 /\ conta' = conta + 1
  /\ UNCHANGED << alPc >>

AlarmMain == While \/ SetAlarm \/ ClearFlag

AlarmNext == AlarmMain \/ atende

-----------------------------------------------------------------------------
(***************************************************************************)
(* The program ends, unless main is held up for three seconds between      *)
(* alarm(3) and flag=0: then the handler's flag=1 is overwritten, no alarm *)
(* is set again, and it loops for ever, if it has not counted to four.     *)
(***************************************************************************)
EndsUnlessDelayed ==
  LET inTime == alPc = "set" /\ ~timer => conta >= 4
  IN  /\ []inTime => <>(alPc = "done")
      /\ <>(alPc = "done") => []inTime

=============================================================================

# A verification development for the serial file transfer and the FTP client

The repository holds the laboratory work of a computer networks course: a data link protocol over
a serial line (`Work3/application.c`, linked with the file application
`Work3/Code/application_code/rcom1/application/main.c`), the virtual cable it is tested on
(`rcom1/cable/cable.c`), and an FTP client (`Work2/main.c`). This directory models these programs in
TLA+, checks them with TLC and proves part of what is claimed with TLAPS. Below, `application.c`,
`main.c` and `cable.c` mean the first three files, `Work2` the FTP client.

## 1. Inventory

| Part | State it keeps | Operations | Modelled in |
|---|---|---|---|
| Link layer, transmitter (`s_*`, `llwrite`) | `s_ctrl`, the automaton of `s_handshake`, the locals of `s_receive`, `timeout_count` and the `struct timeval` of `s_send_msg` | `s_llopen`, `llwrite`, `s_llclose` | `Sender` |
| Link layer, receiver (`r_*`, `llread`) | `STOP`, `state_machine.current_ctrl`, the automata of `r_handshake`, `r_disconnect`, `r_verify_if_ua_received`, the locals of `r_receive_data_packet_` | `r_llopen`, `llread`, `r_llclose` | `Receiver` |
| File application (`main.c`) | the position in the file, the file written | the `tx` and the `rx` loop | `Sender` (`Message`, `LlwriteReturns`), `Receiver` (`Accept`) |
| Virtual cable (`cable.c`, and its two older copies, which have no noise) | `connection` | carry what one `read` returned, each way; the console | `Cable` |
| Serial line (pseudo-terminals) | bytes under way | `read`, `write`, `tcflush` | `Wire` |
| Earlier stop-and-wait programs (`Work3/writenoncanonical.c`, `Work3/noncanonical.c`) | as the link layer; which message is sent, how often `receive_data` has returned | `main` of each: connect, six messages, disconnect | `OldSender`, `OldReceiver` |
| Their first state (`ComputerNetworks2024-main/Work3`) | as above, two messages; neither `select` nor a disconnection | `main` of each: connect, send or receive two messages | `FirstSender`, `FirstReceiver` |
| FTP client (`Work2/main.c`) | user, password, host and path; the reply `recv` returned last; the local file | the URL, `initialize_connection`, `send_command`, `get_new_port`, `receive_data`, `close_connection` | `FtpClient`, `Url` |
| Older FTP client (`ComputerNetworks2024-main/main.c` under `Work2`) | as the FTP client; no local file | as the FTP client | `OlderFtpClient` |
| FTP server and TCP (not in the repository) | the session, replies and parts of the file under way | commands, refusals, aborts, an idle timeout | `FtpServer` |
| Course example `Code/code/asynchronous.c` | `wait_flag`, `STOP`, the lines of the terminal | the loop of `main`, the handler of SIGIO | `Asynchronous` |
| Course example `Code/code/alarme.c` | `flag`, `conta`, the alarm | the loop of `main`, the handler of SIGALRM | `Alarm` |
| The other course examples of `Code/code` | none that lasts | one read, one write, one `select` | not modelled |

The two programs share nothing but the line. Each is one sequential process that blocks in `read`
(or, the transmitter, in `select` and `sleep`); the cable is a third. The application calls the
link layer synchronously: a return of `llwrite` is what makes `main` read the next chunk, a return
of `llread` what makes it write to the file.

The FTP client is a program of its own: one sequential process that alternates `write` and one
blocking `recv` on the control connection, and reads the data connection to its end in between. In the
two course examples a loop and a signal handler share a variable.

### What is hard

* The sender's retransmission after a timeout races an answer that is already on its way. Linux
  leaves the remaining time in the `struct timeval`, so that after one timeout every later `select`
  of the same `llwrite` is a poll, and the number of timeouts is looked at after `select` and before
  its result.
* Frames have no length; they are delimited by a flag, with byte stuffing that leaves BCC2 alone.
  A frame may reach the other program in any number of pieces, and with any piece lost or changed.
* The global `STOP` stays `TRUE` when a parser returns, so each parser starts by looking at an
  uninitialised byte of its own stack.
* A parser that returns an error is taken for one that returns a length.
* Opening and closing are exchanges without retransmission.
* The FTP client takes what one `recv` returns for the reply to its last command. A reply may be cut
  anywhere, a second reply or line may come along with the first, and the session, the data
  connection and the refusal of a file each have their own moment to fail.
* The older FTP client does not look at two of the replies, and falls behind by as many as it misses.
* The first transmitter leaves part of an answer unread, and takes two flags in a row for an answer.
* A signal may come between the test of a variable and its reset, and several signals may be merged.

### What makes each part correct

* Sender: a call that returns success stands for a frame the receiver has accepted; every call
  returns; `s_ctrl` counts what was acknowledged.
* Receiver: what it accepts has a fitting check byte and lies inside one frame; its expected bit
  counts what was accepted; its answers are numbered after it; a second copy is not delivered twice.
* Framing: stuffing, check byte, parser and destuffing are inverse to each other.
* The system: the file written is at any time a prefix of whole chunks of the file sent; a success
  on closing means that it is complete and that the peer agrees.
* FTP client: it is never ahead of the server; each reply it acts on is the whole reply to its last
  command; the local file is how the file on the server begins, and a success means all of it.
* The earlier pairs: what is received keeps to the order of `main`'s messages, whatever is lost, and what
  is printed begins with it; the second pair prints nothing else.
* The course examples: no read where nothing is, no line and no alarm that is waited for in vain.

## 2. The modules

`Bytes` (constants, `Xor`) and `Framing` (stuffing, `Bcc2`, `DataFrame`, destuffing) hold the pure
part, on real bytes: which values coincide (a BCC2 that equals the flag, an address that equals
RR(0), a control byte that equals the seed) decides much of what this code does.
`Supervision` holds the automata that recognise five-byte frames.

`Sender` and `Receiver` have one action per byte read, per return of `select` and per call that
writes. `sPc` and `rPc` say which function a program is in:

| `sPc` | in the code | `rPc` | in the code |
|---|---|---|---|
| closed | before `llopen` | closed | before `llopen` |
| handshake | `s_handshake`, SET written | opening | `r_handshake` |
| send | `Send0_State` | reading | `r_receive_data_packet_` |
| select, sleep | `ACK0_State`; `sleep(1)` after a timeout | closing | `r_disconnect` |
| answer | `s_receive` called by `s_send_msg` | awaitUA | `r_verify_if_ua_received` |
| close, disc | `s_disconnect` before and after DISC | done | `llclose` has returned |
| success, failure | `s_llclose` has returned | crashed | killed in `r_ByteStuffing` |
| exited | `exit(-1)` in `s_receive` | | |

`Wire` has the four byte queues (from and to each program). `Cable` moves the bytes of one `read` at a
time. `Link` EXTENDS `Sender`, `Receiver` and `Cable` and joins them; `FileTransfer` is the abstract
specification of a file transfer, which `Link` implements under a refinement mapping (the file written;
"running", "success" or "failure" of each program). `OpenReceiver` puts the receiver alone on a line on
which any byte may arrive at any time; `Delivery` puts it behind one frame of the sender. `MCLink`,
`MCOldLink`, `MCOpenReceiver`, `MCDelivery` and `MCFtp` hold files, alphabets and bounds for TLC.
`ReceiverLemmas`, `OpenReceiver_proofs`, `Delivery_proofs`, `Link_proofs`, `LinkPerfect_proofs`,
`FtpClient_proofs`, `OlderFtpClient_proofs` and `Signals_proofs` hold proofs.

`FtpServer` is the environment of the FTP client: the server, and the two TCP connections as sequences
whose order is kept. A line of a reply has three parts (the code, the text the client looks for, the
rest), so that a `recv` may end before, inside or after what a test of `main` looks for; a line of a
greeting or of the answer to a password may be followed by another. `Url` holds `strtok` and the branches
of `main` that take a URL apart, the documented format (`Format`), and what can be said in it
(`WellFormed`): `Requests` holds such requests (`RequestsAssumption`). `FtpClient` EXTENDS both; `pc` and
`command` say where `main` is:

| `pc` | in the code | `command` | in the code |
|---|---|---|---|
| start | before the URL is looked at | hello | `initialize_connection` |
| write, recv | `send_command`, `close_connection`, `initialize_connection` | user, pass | lines 355 to 378 |
| connect | the data connection, after 227 | pasv | lines 380 to 411 |
| receive | `receive_data` | RETR, quit | lines 413 to 446 |
| done, exited, killed, crashed | 0 returned; `exit(-1)`; SIGPIPE; a null pointer | | |

`initialize_connection` marks the end of what it has received in an array of pointers, not of characters,
eight times as far on as it should. Each `recv` starts the buffer anew, and what an earlier, longer one
has left stays behind the new bytes, up to that mark: `strstr` never sees the first piece of the message
in front of the second. `Hello` looks at `response'` alone; what is left over is not modelled, because a
whole message would have ended the loop, and the server sends only one before it has another command. The
local name is what follows the last slash of the path: `Retr` crashes where there is none, and exits where
nothing follows it (`Directory`). `Download` is the abstract specification (the local file grows towards
the one on the server; a success means that it is complete), which `FtpClient` implements.

`OlderFtpClient` EXTENDS `FtpClient`, and so takes the actions of all that is the same code
(`initialize_connection`, `send_command`, `receive_data`, `close_connection`); its own are what `main`
does with the URL and with the replies to user, pass, pasv and RETR. It prints the file, so `saved` is
there what it has printed.

`OldSender` and `OldReceiver` are the two programs `application.c` was made from, joined by `OldLink`.
Where their code is the same but for printing (both handshakes, the disconnection, `s_receive`), they
take the actions of `Sender` and `Receiver` by INSTANCE, with the variables these programs do not have
bound to ones that stay unchanged. What differs is modelled: nothing counts timeouts; a byte that
equals the running xor is left out of it and remembered in `temporary[4]`, where `application.c` has
`toggle`; the empty message is answered with REJ; an error taken for a length does no harm, because
`ByteStuffing` is a loop that never runs, but counts as one of `main`'s six calls. That as many calls
are made as messages are sent has a consequence for the model: DISC never arrives while
`receive_data_packet_` runs, so that its states 10 and 11 are not reached.

`FirstSender` and `FirstReceiver` are the same two programs in the first state the repository keeps.
They EXTEND `OldSender` and `OldReceiver`, whose handshake, frame and most of whose parser they share.
The transmitter has no `select`: it reads the answer with `receive_rr`, which returns 1 at the control
byte of anything but an RR, leaving the rest of the frame unread, takes two flags in a row for an
answer, does not look at the bit, and writes an empty information frame after an RR. The receiver
expects the bit 1 first, and takes the empty message for one. It never clears the buffer a message is
copied to, without a terminator, and printed from: its lines go on with bytes of the stack (`Uncleared`),
and after a message of the length 0 consist of nothing else. `OldLink` has a variable `version` that
no action changes: it says which of the two pairs a behaviour is one of.

`Asynchronous` and `Alarm` are the two course examples with a signal handler; `Signals` puts them side
by side. A step of `main` is what a signal can come before or after. A system call does not return
before the signals raised until then have been handled (`Returning`); between two statements a signal
may come or not. A line is its length.

Ghost state: `acked` counts the calls of `llwrite` that have returned success, `accepted` holds the bodies
`llread` has handed to its caller, `output` what `main` has written, `printed` the messages the earlier
receivers have copied, each with the line they have printed of it. In `Asynchronous`, `orderly` says that
every line so far came when `main` waited for one and fits in `buf`, `flushed` that `tcflush` has taken
away a line whose signal is still to be answered. No guard reads them.

Abstractions: printing, file descriptors, terminal settings and baud rate are left out. A `write`
is atomic and never short. The time of a `select` is not measured: a timeout is a step that is
possible when the answer is not there and (`Premature = FALSE`) nothing is under way any more, or at
once when the `struct timeval` is used up; with `Premature = TRUE` a timeout may always happen, as
when a process is delayed. Uninitialised bytes are any value of `Garbage`. The crash of the receiver
is its only behaviour after a negative length: `memcpy` of a negative count always ends the process.
Buffers have no size, but for `buf` in `Asynchronous`. Code that is never reached is left out:
`s_receive_data`, `r_send_rej`, `Send1_State` and `ACK1_State`, `r_disconnect` called from
`r_receive_data`; `llopen`, `llwrite`, `llread` and `llclose` of the earlier pair, which its `main`
functions do not call, and `receive_data` of the first transmitter. `alarme.c` is modelled as it is
compiled without optimisation: its variables are not volatile, and an optimising compiler may keep them
in registers. Of the FTP clients, sockets, name
resolution, the digits of a port and the sizes of strings are left out, and a password that was never
set is the value `Unset`. A `write` on a session the server has closed either succeeds or ends the
process (SIGPIPE); passing NULL to `strcpy` or `printf` ends it.

Operators marked "Variant" in a comment are wrong versions of the definition below them; no
specification uses them. They are there to confirm that a property notices that very mistake.

## 3. What the runs show

| Run | Instance | Result |
|---|---|---|
| `LinkPerfect` | two chunks with FLAG and ESC in them, a cable read in pieces of any size, no disturbance | `TypeOK`, `StopAndWait`; `ImplementsTransfer`; `Completes`; no deadlock |
| `LinkLossy` | one chunk, up to three reads lost, either program first, late answers | `AckedWhileAlive`, `ImplementsTransfer`, `WriteReturns` |
| `LinkDisturbed` | one chunk, one piece of any size lost or flipped anywhere | `SequenceBits`, `CloseAgreement` |
| `OpenReceiver` | all streams over 15 bytes | `AcceptedSound`, `BitCountsAccepted`, `RRNumbersAccepted` |
| `Delivery` | all chunks of up to three of eight telling bytes, and the end message | `ExactlyUnflagged` |
| `FtpOrderly` | every path of up to three characters over `a / : @` with four kinds of login, a `recv` that ends where a line ends, nothing fails | `ImplementsDownload`, `InStep`, `EndsWell`, `ParsesExactly` |
| `FtpRough` | a `recv` that ends anywhere, replies of several lines, refusals, aborts, resets, an idle timeout, a local file that cannot be opened | `SessionFits`, `SavedPrefix` |
| `FtpOlder` | the older client, every path of up to two characters, replies cut anywhere, refusals, aborts, resets | `LoginStillNeeded`, `PrintsFile`, `OlderParsesExactly`, `EndsOnceGreeted` |
| `OldLink` | both states of the earlier pair, two messages and two calls (the second has six in the source), one read of any size lost | `InOrder`, `Undisturbed` |
| `Signals` | lines of one to three characters and a buffer for two, an alarm at any time | `InputAvailable`, `ReadsLines`, `EndsUnlessDelayed` |
| `FindingUnplugged` | one read lost | `PenguinArrives` is violated |
| `FindingAcked` | one frame lost, answers never late | `AckedIsAccepted` is violated |

### Bounds, and why they are enough

The sequence number is one bit: two chunks and the end message use each bit and wrap around, and one
chunk and the end message use both. `NumTries` is 2 or 3 (the application sets 3): with 2 the last try,
the one before it and the first are distinct. `MaxFaults` bounds how often the cable disturbs a
behaviour; three losses exceed the two tries, so that giving up is reached. `CableBuffer` is 512 as in
the source, larger than any frame of the model; a read may return less. In `OpenReceiver` the constraint
`Bounded` goes on from bodies of up to two bytes and up to two accepted frames, enough for a body whose
BCC2 fits, one whose BCC2 does not and one that goes on after a fitting byte; the theorems below cover
all lengths. `Garbage` is a flag and a byte that is not one, the two kinds the parsers tell apart in
their first state.

`ImplementsTransfer` is claimed for a cable that loses whole reads. With single pieces lost or
flipped a body can be cut so that its shorter form has a fitting BCC2, which no one-byte xor notices;
noise on two reads of one long frame is enough.

The two messages of `OldLink`, as many as the first state has, use both bits; the byte of the first equals
the seed of BCC2, so that it is one of those the receiver leaves out of its xor, and that of the second
does not. `StaleBytes` says how far a buffer that was never cleared is followed behind a message: two
bytes hold every line with no, one or two of them in it, and the properties claim nothing of them.
`InOrder` is claimed for one loss; two losses in one long frame may cancel out in its xor.

A file of two parts is the smallest of which a part may be missing or out of order. Three characters (two
in `FtpOlder`, which differs only where a password is missing) let a path begin and end with a delimiter,
hold two of them and be nothing else; user and host are one character each, because `strtok` treats every
character that is no delimiter alike.

In `Signals` a line is empty, fills `buf` or is longer than it; four of them let a line come at each of
the moments `main` can be at while others wait. `alarme.c` has no bound: it counts to four by itself.

### Fairness

`FairSpec` assumes weak fairness of each program (an operating system runs a process that can run), of
carrying in each direction, and of connecting the cable again. The first two are the loop of `cable.c`,
which never blocks; the last is the person at its console (setup 5.2). Nothing is assumed about timeouts
beyond the program's own step. The fairness of `FtpClient` and `OlderFtpClient` is that the client runs
and that the server answers; `EndsWell`, `ImplementsDownload` and `EndsOnceGreeted` are checked with it,
faults are never assumed to happen. That of `Signals` is that both programs run, that a signal is
delivered and that an alarm that is set rings; nobody is assumed to type anything.

### Findings

1. *A lost frame ends the transfer* (`FindingUnplugged`). A lost SET, UA or DISC is never sent again; a
   lost RR makes the sender repeat a frame whose bit the receiver takes for an error
   (application.c:349), answers, and dies of (application.c:757, 763).
2. *llwrite reports a frame that was never received* (`FindingAcked`). The answer of the dying receiver
   to the second copy carries the next bit. `AckedWhileAlive`, checked and proved, shows that this is
   the only way.

Both were reproduced with the compiled programs over pseudo-terminals. Two more were seen in the code
and reproduced:

* A chunk whose BCC2 is the flag cannot be sent: BCC2 is written without stuffing
  (application.c:1344). `ExactlyUnflagged` (run `Delivery`) says that these are exactly the payloads
  that fail; `StuffedHasNoFlag` proves that no other byte of a body can be a flag.
* A file that is refused is a success: `main` knows one wording of a refusal; after any other, such as
  550 Permission denied, it creates an empty file and returns 0 (Work2/main.c:420).

Seen in the code and noted as hazards, or found while the properties were stated:

* noise on two reads of a frame leaves its xor unchanged;
* `llread` copies more than main's buffer holds when a payload of the largest size arrives;
* the message `initialize_connection` waits for may come in two pieces, and then it waits for ever;
  `EndsOnceGreeted` shows that it is the only loop in which the older client can be lost;
* without a password in the URL the client sends what an array that was never set holds (Work2/main.c:371);
  the model does not tell it from any other password, which the server takes or refuses;
* a path without a slash crashes the client after RETR (Work2/main.c:430), which `EndsWell` leaves out;
  after one that ends in a slash it exits, because no file has an empty name, while the server sends: this
  and a refusal are, as `EndsWell` says, the only failures;
* the older client insists on a password where the URL has a user, and on a colon before it;
* a lost RR makes the earlier sender repeat a message the earlier receiver has printed, every answer
  to which counts as one of `main`'s calls, so that it disconnects too early;
* the first transmitter writes an empty frame after each RR; with the flags between it and the next
  frame lost the two are one frame, whose BCC2 fits because the first header cancels out in it; after
  a REJ two flags in a row count as an RR;
* the first receiver compares with `temporary[4]` before anything was stored there; where it finds the
  seed it accepts the empty frame with the length -1 and dies, an outcome `Undisturbed` names;
* the first receiver prints from a buffer that was never cleared: behind a message stands what the stack
  held, and a message of the length 0 prints that alone; `InOrder` and `Undisturbed` claim of its lines only
  how they begin;
* an alarm that rings between `alarm(3)` and `flag=0` is forgotten, and `alarme.c` then never ends;
* a line longer than `buf` leaves its rest in the terminal until another line comes, and ends
  `asynchronous.c` when one character is left of it; `buf[255]` is past the end of `buf`.

## 4. What is proved

`ReceiverLemmas` holds what the other modules share. Of the framing it proves, for payloads of every
length, that `Xor` maps bytes to bytes and vanishes exactly on equal bytes; that the successive values
of `moving_xor` over a body exist, are unique, extend by one when a byte is appended and end in `Bcc2`;
`StuffedHasNoFlag` (stuffing leaves no flag); and `StuffingRoundTrip` (destuffing the stuffed payload and
whatever check byte follows it gives the payload back). Induction theorems with an operator parameter
are out of the provers' reach: these facts are proved by a least index, or a shortest prefix, at which
they would fail, which exists because `<` is well-founded on the naturals. Of the receiver it proves what
holds whatever it is joined to: every action keeps the types; a step of the parser that returns nothing
is one of three kinds (`ParsingSteps`: adds a byte, starts over, leaves the body alone); and when the
next byte is the k-th of a frame of the sender, the parser goes from its state before that byte
(`Parses`) to its state before the next, or returns the payload at the end (`FrameByte`).

`OpenReceiver_proofs` proves of `OpenReceiver`, for every alphabet of bytes, every non-empty `Garbage`
and bodies of every length:

* `TypeCorrect`: `[]TypeOK` (without `output`, whose type depends on a fold);
* `AcceptsOnlySound`: `[]AcceptedSound`;
* `BitIsParity`: `[]BitCountsAccepted`;
* `AnswersNumberAccepted`: the action property `RRNumbersAccepted`.

`AcceptedSound` is not inductive: `Accept` looks at `toggle`, not at the body. The invariant `IInv`
adds `BodySound` (moving_xor is the running xor of the bytes collected, none of which is a flag, and
toggle = 1 only when it has become 0) and `Fresh` (outside the data state nothing has been collected
and the locals have their initial values), so that a resynchronised header does not start on the
remains of another frame; `NoneYet` says that `r_llopen` resets the bit before any frame was accepted.
The assumptions are `GarbageAssumption` and `AlphabetAssumption`.

`Delivery_proofs` proves `DeliversExactlyUnflagged`: `[]ExactlyUnflagged`, for every set of payloads that
`PayloadsAssumption` allows and every `Garbage`. The invariant says that what is left in the line is the
rest of the frame from the byte the parser is before (`Before`), or that the payload was returned
(`After`). A check byte that is the flag ends the body before it, with an xor that is not zero: the parser
starts over and waits.

`Link_proofs` proves of the whole system, for every file, every number of tries and of faults, every
`Garbage`, a cable that loses, cuts and flips what it likes, and answers as late as they like (the
assumptions of `Sender`, `Receiver` and `Cable`, none besides):

* `LinkTypes`: `[]TypeOK`, which includes that `llwrite` succeeds once per message at most and that
  `timeout_count` never passes `NumTries`. The invariant adds `MsgFollows`: while a message is being
  written, `msg` is one more than `acked`;
* `NothingReportedInVain`: `[]AckedWhileAlive`;
* `SuccessIsAnswered`: `s_llclose` succeeds only when `r_disconnect` has answered, the first half of
  `CloseAgreement`;
* `ReceiverBitCounts`: `current_ctrl` is the parity of the number of frames accepted, the receiver's half
  of `SequenceBits`. The invariant adds that nothing is accepted before `r_llopen` has reset it;
* `SenderBitCounts`: until `r_disconnect` has answered DISC, `s_ctrl` is the parity of the number of frames
  `llwrite` has reported, the sender's half of `SequenceBits`. `s_receive` toggles the bit for whatever
  frame carries it, so this rests on what can be on the line: no REJ (`NoRej`), no DISC before it is
  answered, and one UA only, which `UaBalance` follows from `r_handshake`, which writes it, to
  `s_handshake`, which spends it. An RR is all that is left, and each of those is reported.

`AckedWhileAlive` says nothing of what is on the line, so it is not inductive: an RR under way could be
one too many. The invariant `Balance` keeps accounts. `RRControls` are the bytes that can begin an
acceptance, RR(0) and RR(1). The receiver writes one of them with its UA (whose address equals RR(0)),
with the RR of each body it accepts and with the answer it dies of, and nowhere else; the sender spends
one to get through its handshake (`Opened`) and one on each frame it reports (`Pending` while the rest of
that answer is read). What the sender has spent and what is on its way to it is never more than the
receiver has written:
`acked + Pending + Opened + Count(sIn) + Count(rOut) <= Len(accepted) + Greeted + Dying`. The cable makes
none: it loses bytes, and a flipped byte of an answer (`Written`, `AnswerBytes`) is none of them. The
opening pays for itself, so a receiver that has not died has accepted every frame that is reported.
`Count` is a cardinality; that it adds up over a concatenation is proved with a bijection.
`SuccessIsAnswered` follows the byte DISC in the same way: none is on the line, or in `ans`, before
`r_disconnect` has written it.

`LinkPerfect_proofs` proves of the whole system, for every file, every `Garbage` and however a cable cuts
what it reads, under the hypothesis

    Undisturbed == Modes = {"on"} /\ ReceiverFirst /\ ~Premature /\ NumTries > 0

(the cable is never disturbed, the receiver has opened its port first, no `select` times out while bytes
are under way, and there is at least one try: the instance of run `LinkPerfect`, for all files):

* `TransferStages`: the system is always in one of ten stages (`PerfectInv`);
* `StopsAndWaits`: `[]StopAndWait`;
* `BitsCount`: `[]SequenceBits`;
* `ClosesAgree`: `[]CloseAgreement`;
* `Implements`: `Spec => ImplementsTransfer`, the refinement of `FileTransfer`.

None of the hypotheses can be dropped: with one read lost, a transmitter that calls first or an answer
that comes late the receiver may die or the file may stay incomplete (finding 1), and with no try
`llwrite` reads no answer. What the five have in common is that they relate the two programs, so that the
invariant must say what is between them. `Down` is what is on its way to the receiver and `Up` what is on
its way to the sender, wherever on the line it is; a step of the cable changes neither. In each stage one
of them is empty and the other is what is left of one frame, from the byte its reader is before:
`Calling`; `Greeting`, `Welcomed` (SET, UA); `Sending`, `Acknowledging` (an information frame, its RR);
`Closing`; `Leaving`, `Dismissed`, `Confirming` (DISC, its answer, UA). The tenth is `GivenUp`: a message
whose check byte is the flag is never accepted (`Lost`), so that it is repeated `NumTries` times and given
up, and the DISC that follows meets a receiver still in its parser. This is why no success is claimed of
every file: `ImplementsTransfer` holds because both programs then wait for ever and neither ends with a
success. `Counted` adds what the counters and the bits count and that `output` is the file up to the
messages accepted; refinement then has one case per program: a step of the receiver that accepts is
`Deliver`, the two closing steps are `SendEnds` and `ReceiveEnds`, anything else stutters.

On a disturbed cable `LinkPerfect_proofs` proves more than its runs check, for every file, every `Garbage`,
either program first, answers as late as they like, any `NumTries`, and any number of reads that are
dropped or whose first byte is flipped, at any time. The theorems assume `~Partial`, that a read of the
cable program takes all that was written, and speak of the behaviours with

    [](Len(sOut) <= CableBuffer)

in which that fits its buffer, so that no read divides a frame. `main` reads up to 999 bytes at once and the
buffer has 512: a longer file, or a line on which repetitions pile up, is outside them (`LinkDisturbed`
checks one fault in a piece of any size).

* `ImplementsDisturbed`: `ImplementsTransfer`. The file grows by whole chunks, in order and each once, and
  neither program succeeds without all of it;
* `StopsAndWaitsDisturbed`: `StopAndWait`, while `llwrite` is at work and the receiving process lives;
* `ClosesAgreeDisturbed`: `[]CloseAgreement`;
* `BitsCountDisturbed`: `[]SequenceBits`.

There is no list of stages any more: retransmissions overtake answers, and several frames may be under
way. `LossyInv` says what they are. A `Token` is a message number, or DISC, and whether its first flag was
flipped; `Train` writes tokens out as bytes. While the receiver reads, `Pipeline` splits what is on its way
into the item its parser is in (`Reader`, with what the parser holds at each byte: `Within`), the items
on the line and those the cable has not read, and `Fits` relates their numbers to both programs: each is the
last message accepted or the next, none is beyond `msg`, and they come in order. So a frame that carries
the expected bit is the next message, and one that carries the other is an old copy, at whose control byte the
process dies; a frame that has lost its flag is passed over up to its closing one, which begins nothing
worse than the frame behind it. `msg` is never more than one beyond what is accepted: that is
`SenderBitCounts` and the accounts above. TLC checked the invariant on small instances before it was proved.

`CloseAgreement` and the last of `SequenceBits` follow from another invariant, `AgreeInv`: until
`s_llclose` has written its DISC, the bytes on their way hold none, and no UA until it has its answer
(`Calm`: behind the flag and the address no such control field, nor a second address, on which
`r_disconnect` and `r_verify_if_ua_received` would start again), even if the uninitialised byte they start
on is a flag (`Unmet`).

The proof found a mistake in the model: `r_Recognise` and `s_Recognise` were each a CASE whose conditions
overlapped (the byte expected may be a flag, or the address), and TLA+ leaves open which of several
true conditions a CASE takes, where TLC takes the first and the code tests in order. They are IF
expressions now.

`FtpClient_proofs` proves of `FtpClient`, for every file, every set of requests, replies and faults
that `ServerAssumption` and `RequestsAssumption` allow, and both values of `Cuts`:

* `ClientTypes`: `[]TypeOK`;
* `NeverAhead`: `[]SessionFits`;
* `SavesPrefixes`: `[]SavedPrefix`;
* `StaysInStep`: `[]InStep`, and `Downloads`: `Spec => ImplementsDownload`, the refinement of `Download`,
  both with a server that is `Orderly`;
* `ParsesAll`: `[]ParsesExactly`, for requests of any length.

`SessionFits` speaks of what the server knows, the client of what it has read; what links the two is
which lines may be under way. While the session is open the invariant `IInv` says which lines can be
there at each command and which cannot before the server has obeyed it (`LinesFit`), that at most one
command is under way up to RETR (`OneCommand`), and what 230 and 227 under way mean (`RepliesFit`);
with `NotConnected` a session that is closed stays closed. `LinesOf` abstracts a sequence of parts to
the set of its lines, which sending adds to and `recv` takes from, wherever it cuts. `SavedPrefix`
follows from `Stream`: what is saved followed by what is under way is the file up to what was sent,
and nothing is lost before the data connection has ended. That a transfer begins at most once comes
from `OneCommand`.

`Orderly` is the hypothesis of run `FtpOrderly`: a `recv` ends where a line ends, a refusal has the wording
`main` knows, an answer to a password has one line and nothing but the opening of the local file fails. Without
it the two theorems are false (a refusal with another wording is taken for a success). With it a `recv`
takes the only line there is (`RecvLine`), so that the reply `main` acts on is the whole reply to its last
command; the invariant says which lines may be under way before which command (`HelloReplies`, `Answers`,
`RetrAnswers`, `QuitLast`), and that quit is sent after RETR only when the transfer is complete and
everything was read.

`ParsesAll` rests on what `strtok` does to any string: it cuts at the first delimiter
(`StrtokCuts`, `StrtokSplits`) and returns the whole string if there is none (`StrtokWhole`). The first
delimiter exists because `<` is well-founded on the naturals. `ParsesWhatIsMeant` then follows the three
forms of a URL: no login, a user and a password, a user only. The hypothesis `WellFormed` is what the
format itself can say (nothing is empty or has the character in it that ends it); that a path with an
`@` or a `:` may be misread is the hypothesis `Understood` in the property.

`OlderFtpClient_proofs` proves of `OlderFtpClient`, under the same assumptions, `OlderNeverAhead`:
`[]LoginStillNeeded`, that it sends RETR only on a session that is logged in (pasv it sends without a
login) and connects only to a server that listens. It reuses what `FtpClient_proofs` shows of the lines
under way and of a session that is closed, but not its invariant: replies go unread, so that the one
`recv` returns may belong to an earlier command. What holds while the session is open is the order of the
commands (`Ordered`, by `Rank`: each is sent once, none overtakes another), that no user or pass is to
come after a login (`LoginLasts`), and that a 227 under way means a login and, up to pasv, a server that
listens (`AddressFits`).

It proves `PrintsTheFile`, `[]PrintsFile`, as well: what is printed followed by what is under way is the
file up to what was sent (`Stream`, shared with the FTP client), although the older client prints it
without knowing which reply it has read. That it prints all of a file that was sent in full rests on
`Finished`: `receive_data` returns only when nothing more is to come. And it proves `OlderParsesAll`,
`[]OlderParsesExactly`, from the same lemmas about `strtok`.

`Signals_proofs` proves `ReadsWhatIsThere`: `[]InputAvailable`, for lines of any lengths, any number of
them and a buffer of any size. The invariant says what a signal stands for (`SignalHasLine`): one that
is pending, or whose handler has run and which `Reset` has not forgotten, means a line that is there or
that `tcflush` took away.

Only model-checked:

* liveness (`Completes`, `WriteReturns`, `EndsWell`, `EndsOnceGreeted`, `ReadsLines`, `EndsUnlessDelayed`):
  no installed prover handles fairness;
* `SequenceBits` after the receiver has answered DISC, and the second half of `CloseAgreement`, on a cable
  that divides frames: they hold of the faults their run allows;
* `InOrder` and `Undisturbed` of the earlier pairs.

## 5. Plan

Done: `Bytes`, `Framing`, `Supervision`, `Sender`, `Receiver`, `Cable`, `FileTransfer`, `Link`,
`OpenReceiver`, `Delivery`, `FtpServer`, `Url`, `FtpClient`, `Download`, `OlderFtpClient`, `OldSender`,
`OldReceiver`, `FirstSender`, `FirstReceiver`, `OldLink`, `Asynchronous`, `Alarm`, `Signals` and their
runs. Proved: the receiver alone and behind one frame; the types, the accounts and both sequence bits (the
sender's until DISC is answered) of `Link` on any cable; all its safety properties and the refinement of
`FileTransfer` on an undisturbed one, and on one that loses whole reads or flips their first byte; the
safety properties of the two FTP clients, what they take from a URL, and the refinement of `Download`;
`asynchronous.c`.

1. `ImplementsTransfer` on a cable whose reads divide frames: which parts of two frames, one behind the
   other, the parser takes for a third.
2. Proofs about the earlier pairs: their types, and `InOrder`, which is claimed for one loss only.

### Not modelled

* `Code/code/noncanonical.c`, `writenoncanonical.c`, `canonical.c`, `writecanonical.c`: one read and one
  write of the course's own examples, no protocol and no state.
* `Code/code/multiple.c`, `multiple_timerc.c`: they give `select` a set that is never initialised, so
  that what they wait for is not determined, and keep no state.
* The sizes of buffers and strings, and what happens beyond them; name resolution, sockets and the digits
  of a port; terminal settings and baud rates; what is printed, but for the messages of the earlier
  receivers and the file of the older FTP client.
* Executables, pictures and laboratory texts.

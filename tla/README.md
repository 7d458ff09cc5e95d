# Hybrid FTP: TLA+ models and proofs

The repository is an FTP-like file transfer program in Python: a control
connection over TCP, and a data channel over UDP with its own reliable
transfer protocol (RDT). This directory models it in TLA+, from the bytes of a
packet to the sessions on one server, checks the models with TLC on small
instances, and proves the central results with TLAPS for every value of the
constants.

    tlasany M.tla                     parse a module
    tlc -config X.cfg M               model-check module M (see "Runs")
    tlapm RDTProofs.tla               check proofs; also SessionProofs,
                                      ClientProofs, DataChannelProofs,
                                      FilesystemProofs, SequenceProofs,
                                      FramingProofs, DataPathProofs

Paths below are relative to the repository root; `PROJECT.json` maps every
definition to the lines it models.

## 1. Inventory

| Component | Where | State | Operations | Modelled |
|---|---|---|---|---|
| Reliable data transfer | `shared/rdt_core.py` | `base`, `next_seq_num`, `dup_ack_count`, `data_retry_count`, FIN attempts; `expected_seq`, the data accepted, `receive_timeout_count` | `reliable_send`, `reliable_recv`, `_linger_after_fin` | `RDT`, `ReliableTransfer` |
| Server session | `server/control/session.py` | transfer fields, cancel event, suppress flags, transfer thread, sockets, three locks | `start_transfer`, `run_transfer`, `finish_transfer`, `request_abort`, `cleanup`, ... | `Session` |
| Server control thread | `server/main_server.py`, `server/control/command_handler.py` and handlers | position in the receive loop | receive, refuse, dispatch, reply, time out, clean up | `Session` |
| Server transfer worker | `server/control/handlers/transfer_handler.py`, `data_transfer_service.py` | position, final reply | open the channel, move the data, store the file, deliver the verdict | `Session` (bytes: `RDT`) |
| Client main thread | `client/main_client.py`, `client/control/command_handler.py` and handlers | prompt or a command in progress | send a command, read its reply, `ABOR` | `Client` |
| Client transfer worker | `client/control/context.py`, `client/control/handlers/transfer_handler.py` | `transfer_phase`, `abort_requested`, cancel event | move data, read the final reply, drain a late `ABOR` reply, verify by `HASH` | `Client` |
| Channel handshakes | `server/control/data_channel.py`, client `transfer_handler.py`, setup handlers | passive or active socket, cached peer address, attempts, deadlines | PASV, PORT, SYN / SYN-ACK in both modes, data phase that answers late SYNs | `DataChannel` |
| Authentication | `server/auth`, `auth_handler.py` | `username`, `authenticated` | `USER`, `PASS`, `QUIT` | `Filesystem` |
| File system commands | `filesystem_service.py`, `navigation_handler.py`, `file_handler.py`, `data_transfer_service.py` | the shared tree, `current_directory`, `pending_rename_path`, open files of uploads | `CWD`, `CDUP`, `MKD`, `RMD`, `DELE`, `RNFR`, `RNTO`, queries, `STOR`, `APPE`, `STOU` | `Filesystem` |
| Encodings | `transfer_codec.py`, `shared/block_mode.py`, client `data_transfer_service.py` | none | `TYPE A` and `I`, `MODE S`, `B` and `C` | `DataPath` |
| Packets, checksum | `shared/packet_struct.py`, `shared/checksum.py` | none | pack, unpack, checksum | `DataPath` |
| Command line framing | `main_server.py` | receive buffer | cut lines, limit their length | `Framing` |
| Help texts, progress bar | `common_handler.py`, `cli_monitor.py` | none | formatting | no |

How they interact. A client has one TCP connection; the server gives it one
control thread and one `ClientSession`. `RETR`, `STOR`, `LIST` and their
variants are answered with 150 and then run by a *transfer worker* on each
side, which move the data over UDP with `reliable_send` and `reliable_recv`,
while the control thread goes on reading commands and refuses all but `ABOR`,
`NOOP`, `STAT` and `QUIT`. The server's two threads share the session, partly
under `transfer_lock` and partly without it, and both write to the control
connection (`conn_send_lock`). The client's two threads share the control
connection: the worker reads replies while a transfer runs, the main thread
otherwise. Before each data phase the two workers find each other's UDP
address by a handshake that PASV or PORT prepares; both ends of it may still
see packets of an earlier transfer. The sessions of different clients meet
only in the tree of files below the server root.

What is hard, and so what the properties are about (`hazards` in
`PROJECT.json` gives each its line):

* RDT: lost, duplicated and late packets against cumulative ACKs; a SYN-ACK
  of the handshake that counts as an ACK; retry budgets that progress and
  SYNs reset; the two-generals problem at FIN; the empty and the last chunk.
* Server: a worker that finishes while the next transfer starts; `ABOR`,
  `QUIT`, a lost connection or the 30 s control timeout at every point of a
  worker; who may still write to the connection; lock order; what a worker
  that outlives `cleanup()` leaves behind.
* Client: which thread reads which reply, most of all when `ABOR` crosses the
  final reply and one side's answer tells the client how many replies follow.
* Channel: lost or late SYNs and SYN-ACKs when only one side retries; a peer
  address kept from an earlier transfer; ABOR that resets the channel under a
  worker; one end that gives up while the other waits.
* File system: paths resolved now and used later, while other sessions remove
  and rename what they pass; a rename in two commands, across logins and
  across sessions; an upload into a file that is renamed, deleted or written
  meanwhile.
* Wire: `recv` that splits lines anywhere, and the limit on their length;
  line breaks, block headers and the checksum at empty and full sizes.

What makes each component correct: the file received is the file sent, a call
that returns normally is backed by the other side, and both calls end (RDT);
each announced transfer runs and gets one verdict, replies of transfers do not
overlap, an abort sticks, closing leaves nothing behind (session); every reply
is read for the command it answers and the prompt always comes back (client);
the ends settle on each other and on nobody else, and 226 means that this
transfer's data arrived (channel); no session leaves the root, acts for a user
it is not, or reports an upload that the file does not hold (file system);
what is decoded is what was encoded (wire).

## 2. Modules

### RDT and ReliableTransfer

`RDT` is one transfer between `reliable_send` and `reliable_recv`. The data is
a sequence of chunks, each direction of the network is the *set* of packets in
flight: a packet may be lost, read in any order, and stay in flight after it
was read (a duplicate). A packet that fails its checksum, comes from another
address or is read where the code ignores it is a lost one. Clocks are
abstracted: whenever the code waits with a timer, the timer may expire.

| Action | Code |
|---|---|
| `SendWindow` | the window loop; `Listening` says it has run to its end |
| `ReceiveAck` = `NewAck`, `DuplicateAck`, `FastRetransmit`, `FastRetransmitSwallowed` | the ACK branches, whose disjuncts are the code's `if` arms |
| `SenderAnswersSyn`, `ReceiverAnswersSyn` | `respond_to_syn`, which resets the retry or timeout count |
| `RetransmitWindow`, `RetransmitRaises` | the retransmission timer and its limit |
| `SendFin`, `ReceiveFinAck`, `TeardownTimeout` | the FIN handshake |
| `ReceiveData`, `ReceiveFin`, `ReceiveTimeout` | `reliable_recv` |
| `LingerReceiveFin`, `LingerEnds` | `_linger_after_fin` |
| `SenderInterrupted`, `ReceiverInterrupted` | the cancel event, a closed socket |

`FastRetransmitSwallowed`: `reliable_send` raises `RDTDataTimeout` at line 212
of `rdt_core.py` when the duplicate ACK that should trigger a fast retransmit
finds the retries used up. The exception is a `TimeoutError`, which
`except socket.timeout` at line 220 of the same `try` takes (the two are one
class from Python 3.10 on), so the loop goes on with `dup_ack_count` at the
threshold. From there on the count matches the threshold no more, whatever
follows, until a new ACK clears it; the model lets `DUP_ACK_THRESHOLD` stand
for all these counts.

`ReliableTransfer` is what the pair promises: chunks are accepted in order and
once, either call returns "ok" only when all data has been accepted, and after
the sender's "ok" nothing more is accepted. The instance `RT` in `RDT` maps `send_phase` and
`recv_phase` to the outcomes of the two calls.

### Session

One control connection of the server, against *any* client. The control thread
(`control_pc`) and the worker (`worker_pc`) take one action per stretch of
code between two points where the other can interfere: a lock, a send, or a
field written without the lock. So `start_transfer` is three actions
(`StartMarks`, `StartFields`, `StartFlags`), because it writes its fields with
no lock while `finish_transfer` of the previous worker (`FinishUnmarks`,
`FinishFields`, `FinishFlags`) may be under way under `transfer_lock`.
`transfer_lock` is a variable since the worker holds it over several steps;
`conn_send_lock` only ever covers one send or assignment and is the atomicity
of those actions. `replies` is everything sent to the client, each reply with
the number of the transfer it speaks of.

Abstractions, each of which keeps the control flow:

* `LIST` behaves as `RETR`, `STOU` and `APPE` as `STOR`, `STAT` as `NOOP`,
  `PORT` as `PASV`; `HASH` stands for every command that is refused with 503
  during a transfer and otherwise has one reply. The session is logged in.
* 425 stands for every refusal of a transfer before 150 (also 550).
* The bytes are not moved here. A worker may complete (`WorkerCompletes`,
  when the cancel event was not set at its last check) or fail
  (`WorkerFails`) at any time: more than what RDT allows.
* After the client has gone a send may succeed or raise (`AfterSend`).
* `join(2.5)` may end by its timeout in any state of the worker.

### Client

`Client` extends `Session`: the same server variables and actions, with the
real client in place of any client. `read` counts the replies read. A transfer
phase of the client may succeed only if the server's worker has come past
opening its channel; otherwise the two sides' data phases end independently,
which covers every disagreement RDT leaves possible. The property
`ClientIsSession` (`Spec` of `Session`) shows that this client is one of the
clients `Session` allows, so every safety property of `Session` holds here.
`DataSocketFails` switches the `OSError` of the client's data socket on.

### DataChannel

One session's channels one after another: `Configure` is PASV or PORT on both
sides with the reset of the channel before, `Begin` the transfer command,
`SendAbort` and `HandleAbort` the ABOR of the user. Time is counted in
seconds, the unit of every timer of the handshakes: `Tick` passes when all
packets of this second have arrived or are lost, and a copy of a packet may
come at any later second. `channel` numbers sockets: one that the operating
system chose has a fresh address, the port of a PORT command may be used again
(`UserPort`), so that a packet to an earlier channel reaches the later one
exactly where it would in the code.

| Action | Code |
|---|---|
| `ClientOpens`, `ClientReceivesSynAck`, `ClientRetriesSyn` | `_open_passive_peer` |
| `ClientReceivesSyn`, `ClientAwaitTimeout` | `_wait_for_active_upload_peer` |
| `ServerOpens`, `ServerDiscovers`, `DiscoverTimeout` | `_discover_passive_peer`, the cached `passive_client_address` |
| `ServerReceivesSynAck`, `ServerRetriesSyn` | `_open_active_receive_peer`, whose attempts any packet uses up, and data most of all (`MoreFollows`) |
| `ServerAnswersSynAgain` | `respond_to_syn` of the data phase |
| `ClientReceivesData`, `ServerReceivesFin`, `ServerResends`, ... | `reliable_send` and `reliable_recv` |
| `ClientCancelled`, `ServerCancelled` | the cancel event |
| `ClientEnds`, `ServerFinishes` | the end of the workers, with the final reply |

What RDT does inside its window is in `RDT`; here only who talks to whom
matters. One `DATA` stands for all the packets of a window and the
retransmissions that follow within a second, of which the other end may read
any number: an end that waits for a SYN-ACK may read one after another
(`MoreFollows`), each of which costs it an attempt. That the server's worker can outlive the reply of ABOR, and then
write `passive_client_address` into a channel that was reset, is kept.

### Filesystem

Any number of sessions on one machine: directories, files with contents, and
each session's login, working directory, pending rename and upload. A path is
a sequence of names. `Candidate` is the resolution of an argument (`..` at the
root of the machine stays there) and `Inside` the check of the resolved path
against the root. Uploads go through
`BeginUpload` or `BeginUnique` (path resolved, 150), `OpenUpload`,
`WriteUpload` and `EndUpload`, between which other sessions change the tree;
`HandlesAfterUnlink`, `HandlesAfterRename` and `HandlesAfterWrite` say what
that does to files that are open. `Query` stands for `LIST`, `SIZE`, `HASH`
and every other command that reads; it notes in the history variable `leaked`
any path outside the root about which it would tell something. `proved` and
`selector` remember whose password was right and who gave `RNFR`.

Two things are taken from the machine: symbolic links do not occur, and a
check followed by the call it protects is one step, since a change in between
makes the call fail with the reply of the check. So `Confined` is about the
resolution of paths by name, and about what sessions keep; it does not speak of
a directory that somebody on the machine replaces by a link.

`LoginState` says what the code guarantees and no more. `USER` drops the login
and the file selected by `RNFR`, so no selection passes from one user to
another; a wrong `PASS` ends the login but keeps the selection, for the same
user's next attempt; the working directory survives them all.
`UploadIsStored` excepts a file that another session has written, moved or
removed while it was open (`alone`): there the code makes no promise.

### Framing, DataPath and MCWire

`Framing` is the receive loop of `handle_client`: pieces of the stream into
`buffer`, lines out of it, both limits on their length. `DataPath` takes one
file through `Encode` (TYPE and MODE), `Transmit` (packets that may be damaged
by one flipped bit or cut short, until the checksum accepts one) and `Decode`.
Text is of one-byte characters (`IsText`): the code accepts any UTF-8, and
treats the CR and LF in it alike.
zlib is any coding that can be undone, TYPE and MODE agree on both sides,
sequence numbers are below 2^16. The two share no state; `MCWire` runs either.

### Mutants

Some definitions are headed "Mutant of X". No specification uses them: each is
X with one plausible bug, and with it in X's place TLC finds the property that
`PROJECT.json` lists with it violated. They document what each property is
sensitive to.

## 3. Runs

| Run | What it shows | Bounds |
|---|---|---|
| `rdt` | in-order delivery, the window, the FIN handshake, what an error of the data phase tells, refinement of `ReliableTransfer`, termination of both calls | empty file, one chunk, three chunks with a repeated value; window 2; thresholds and retries 2; one late SYN |
| `session` | seven safety properties of the two server threads | any 5 commands, at most 1 unread |
| `session_live` | no thread waits for ever, verdicts arrive, closing releases everything | any 3 commands |
| `client` | every reply is read by the right thread for the right command; refines `Session` | 4 user commands (plus the automatic `HASH`) |
| `client_live` | the prompt always comes back, also with failing data sockets | 3 user commands |
| `channel` | the ends find each other, an active upload is given up for three reasons only, 226 is backed, every transfer ends | 2 channels in any modes and directions, 4 losses, 1 late copy, ABOR anywhere |
| `filesystem` | confinement, logins, what closed sessions keep, uploads | 2 sessions, 2 users, 5 arguments, 2 contents, 4 commands |
| `wire` | lines are the lines of the stream; files survive TYPE, MODE, packets and damage | streams of up to 7 bytes of 3 kinds, limit 2; files of up to 3 lines |
| `session_fields`, `client_hash`, `client_socket`, `client_timeout` | counterexamples, section 5 | |

Why the bounds are enough to be interesting. RDT: with three chunks and a
window of two the window must slide, an ACK can be late by a whole window, two
chunks are equal (a swap of equals is not masked by the position, since the
third differs), the empty file exercises the empty packet, and the limit of 2
is reached by counting 0, 1, 2 in each loop; the theorems cover all values.
Session: `PASV RETR ABOR PASV RETR` is the shortest sequence in which an
aborted worker can still be finishing while the next transfer starts, so five
commands are needed; one unread command is enough because the server reads one
at a time. Client: `PASV RETR ABOR` and one more command that could read a
reply not meant for it; the safety run was repeated once with five commands
and the liveness run with four, with the same result.

Channel: four attempts instead of five and timeouts of 4 and 5 s
instead of 5 and 6 s keep the order of all deadlines; the real values were run
once with five losses (2.6 million states) with the same result. Two channels
are what an address of an earlier one needs, and four losses use up a whole
handshake. File system: `RNFR` and `RNTO` of one session, and two changes of
the tree by the other in between, are four commands; the arguments stay in the
root, leave it, leave it and come back, and are absolute; the theorems cover
all others. Wire: seven bytes hold two lines with their ends and more, and
`recv` returns up to three; lines run from empty to one more than a packet,
blocks and packets get empty, full and short last ones. The lowest and the
highest bit of every byte are flipped (`BitsFlipped`).

Deadlock is not checked: both RDT calls return, a connection closes, a user
may stop typing. That nothing else stops the system is what the liveness
properties say.

Fairness. RDT: weak fairness of the window loop, of each timer and of the
loss of packets that stay undelivered (no packet lives in a network for ever).
Both loops read the clock on every round and every wait has a timeout, so no
traffic can keep them from it. Nothing is assumed about delivery: the calls end
even if every packet is lost. Session: weak fairness of each thread: `recv()`
has a timeout, locks are released after a few steps, and the worker's data
transfer ends by `SenderEnds` and `ReceiverEnds`. Client: the same for its
main thread and its worker; the user is never obliged to do anything. Channel:
both workers run, a socket delivers or drops what has arrived, an ABOR that
was sent is handled, and time passes; nothing is assumed about losses.

## 4. Proofs

`RDTProofs`, for any set of files over natural numbers, any positive window,
threshold and limits (`FilesAssumption`, `LimitsAssumption`):

* `Typing`: `TypeOK` is inductive on its own. Its last conjunct says when
  `dup_ack_count` stays at the threshold: only with the retries used up, or
  when SYNs that came late have restored them (`syn_responder`).
* `Inductive`: `IInv` holds. Delivery is not inductive alone: that the
  receiver accepts the right chunk rests on what DATA packets in flight carry
  (`SenderPackets`, in `TypeOK`); that the window may slide rests on ACKs in
  flight never exceeding `expected_seq` (`PacketsTruthful`), which in turn
  bounds `base` (`ReceiverInsideWindow`); that a FIN means completion rests on
  a FIN being sent only with `base = total_packets` (`PhasesAgree`), and that
  success is backed on a FIN answer existing only once the receiver left its
  loop, and that giving up is never wrong on a FIN having been sent only by a
  sender that has left its data loop (`FinWasSent`). `IInv` is the conjunction, proved action by action in `NextAgreement`
  and `NextInOrderDelivery`.
* `Delivery`, `InsideWindow`, `FinComplete`, `SuccessIsTrue` follow from it;
  `NoAcceptanceAfterGivingUp` (`GivingUpIsNeverAccepted`) says that a caller
  who is told `RDTDataTimeout` may take the file as not delivered, which
  `RDTTeardownTimeout` does not allow; `Refinement` shows that every step is a step of `ReliableTransfer` or a stutter (`DeliverRefines` for
  accepted DATA, `StepRefines` for the rest).

`SessionProofs`, for any number of commands:

* `Threads`: the inductive invariant `ThreadsInv`. The lock-free
  `start_transfer` is safe against the previous worker because 150 is only
  reached with `transfer_in_progress` false, which the worker clears in the
  middle of `finish_transfer` (`StartAfterUnmark`), and because the mark
  covers every earlier step of the worker (`MarkCoversTransfer`).
* `TransferRuns` (`AnnouncedTransferRuns`): a transfer announced with 150 is
  never refused by `run_transfer`.
* `NoSocketLeft` (`NoSocketAfterCleanup`): no socket is registered after
  `cleanup()` closed it; it rests on `cleanup_started` being set first.

* What the client reads rests on four more invariants. `GoodbyeInv`: when the
  221 is prepared the worker is already silenced (`GoodbyeIsLast`).
  `TransferInv`: an active worker runs the transfer announced last, and
  nothing but the control thread's own ABOR silences it. `AbortInv`: every
  confirmed abort is *held*, that is, its worker has the cancel event and the
  suppress flag until it has passed its final reply (`AbortsStay`).
  `VerdictInv`: a transfer with a final reply is *told*, and none is being
  aborted (`VerdictIsUnique`). `StatusInv` and `BeforeInv`: the last transfer
  has its outcome, or a worker or the control thread still owes it
  (`OutcomeBeforeNext`).
* `SessionIsTyped` (`TypeOK`). Most of it is a frame (`Fields`); the bounds on
  numbers are not. `CountInv`: each announced transfer, the one about to be
  announced and each unread command took a command of the client, which bounds
  `transfers` by `MaxCommands`. `RepliesInv`: a reply speaks of a transfer
  that was announced, or of none.

`ClientProofs`, for any number of user commands, and bounds of `Session` that
leave room for the ABOR and HASH that the client sends by itself:

* `OneReader` (`SingleReader`): the main thread waits for a reply only when no
  worker runs.
* `ClientImplements` (`ClientIsSession`): client and server together are a
  behaviour of `Session`; the bounds are met since at most one command more
  than the user may type is sent or owed (`Owing`). `ServerKeepsItsWord`
  draws the conclusion: the theorems about replies hold for this client.
* `ClientIsTyped` (`ClientTypeOK`): the client's phase is set exactly while
  its worker runs, and it never reads more than was sent.
* `ConversationHolds`: the inductive invariant of the two programs together.
  `RepliesAligned` only speaks of the next reply, when there is one; that it is
  the right one depends on everything still under way. `Conversation` says,
  for each place of the client's two threads, which commands the server has
  not read, where its control thread is, which replies are unread (at most
  two), and whether a verdict is still *due*, that is, owed by a worker that
  nobody has silenced. Its centre is `Aborting`: an ABOR either meets a worker
  that is due, silences it and is answered in place of the verdict, or comes
  after the verdict and is answered after it, and the client's `drain` tells
  the two apart from the verdict it reads.
  `ServerEffect` first reduces the server's steps to ten effects on the
  conversation (`Effect`), with the invariants of `SessionProofs`; then
  each place of the client is shown to survive each effect (`IdleStays`,
  `AskedStays`, `AnnouncingStays`, `RunningStays`, `AbortingStays`) and each
  action of the client to lead from one place to the next (`ClientConverses`).
* `RepliesStayAligned` (`RepliesAligned`) and `NothingIsLeftUnread`
  (`NothingLeftUnread`) follow. These two and `ConversationHolds` assume
  `~DataSocketFails`, as the run `client` does: with an `OSError` of the data
  socket they are false, which the run `client_socket` shows. They speak of
  the time before a control timeout (`TimedOut`), whose 421 answers no
  command.

`DataChannelProofs`, for any numbers of attempts, timeouts, losses, copies and
channels:

* `RoutesHold`: the inductive invariant. Every packet under way is between the
  sockets of one channel, and what an end has cached, or settled on, is of the
  present one; a SYN to a fresh socket can only be of its own channel.
* `PeersAreOfThisChannel` (`PeersAgree`) and `SuccessIsOfThisChannel`
  (`SuccessIsDelivery`) follow. Both except a port used twice with PORT: there
  the code asks nobody who is speaking, and the property says so.

The handshakes themselves, for any numbers likewise, and timers that fit each
other:

* `HandshakesAreTyped` (`TypeOK`): no attempt is counted beyond its limit, no
  second beyond the patience of its phase (`Patience`).
* `PassiveHandshakeSurvives` (`PassiveChannelOpens`). In a calm channel
  (`Calm`: no ABOR, fewer losses than the data phase waits seconds) the ends
  are `Meeting`: each attempt of the client but the present one has cost a
  lost packet (`ClientAsks`), and the server, waiting for a SYN or already in
  the data phase, has waited no longer than the client has tried. That is
  why both give up, if at all, only after more losses than there were. It needs
  `PassiveTimersAssumption`: the data phase (10 times 0.3 s, that is 3 s) is
  not longer than the five SYNs of the client, one a second, and the 5 s
  of `_discover_passive_peer`.
* `ActiveHandshakeSurvives` (`ActiveUploadOpens`), with the roles exchanged:
  the server asks and the client waits (`Opening`). The client answers once and
  goes on to its data, which may overtake the answer and use up all attempts.
  The theorem says that nothing else ends the handshake: whoever gives up, the
  SYN of every attempt was lost, or the SYN-ACK was, or it is still under way
  (`SynAckOvertaken`). As long as neither kind of loss has happened
  (`AnswerKept`), the answer is on its way while the server asks (`Answered`),
  and the client has waited no longer than the server has tried
  (`ClientAwaits`). It needs `ActiveTimersAssumption`: the 5 SYNs of the server
  fit into the 6 s that the client waits.

`FilesystemProofs`, for any sessions, users, arguments, trees and uploads:

* `StaysInRoot` (`Confined`) from `AllInside`: every path that a session, an
  upload or an open file holds is in the root. It needs that a walk by names
  does what it should, for arguments of any length: that is proved about the
  recursive function by a least counterexample, without an induction theorem.
* `LoginsHangTogether` (`LoginState`).
* `SessionsAreTyped` (`TypeOK`) from `SessionsInv`: whatever happens after
  `QUIT`, a closed session has no login and no selection, and each job has the
  shape of its stage, also when another session renames, deletes or writes the
  file it has open (`ShapeDisturbed`).
* `UploadsAreStored` (`UploadIsStored`) from `StoredInv`: a worker whose file
  no other session has removed, moved or written has it open under the path it
  resolved, and once written the file holds the upload, or ends with it after
  `APPE`. Contents are sequences (`NamesAssumption`). It rests on `TreeInv`,
  which says that renames of whole directories keep the tree a tree
  (`TreeHolds`) with every open file in it (`HandlesHold`); the lemmas
  `MovedBelow`, `MovedApart` and `AboveMoved` say what a rename does to a path
  and to the paths above it. This is what the modelled calls of the operating
  system do, and no property of the program. It assumes that the rest of the
  machine is a tree (`MachineAssumption`).

`FramingProofs`, for streams of any length over any alphabet and any limit:

* `LinesAreAlwaysCut` (`LinesAreCut`) from `FramingInv`. `BufferInv` places the
  buffer in the stream: it is what was received after the last line end that
  was cut. `CommandsInv` is the property for that place alone. That cutting at
  the first CRLF of the buffer finds the next line of the stream needs that no
  line end lies across the cut (`EndsUpToCut`, `LineIsCut`), and then that the
  list of commands grows by one or by none (`CommandsGrow`). The bound on the
  buffer needs one fact more, in `BoundsInv`: whatever follows a line end in
  the buffer came with the last piece, so that cutting a line never leaves
  more than `recv` may return. Hence the assumption that `ChunkSize` is at most
  one more than `MAX_COMMAND_LENGTH`; in the code they are 1024 and 4096.

`DataPathProofs`, for files of any length, blocks and packets of any size, and
any of the bits of a byte. `BLOCK_MAX_PAYLOAD` fits into the two bytes of the
block header (in the code it is 65535), and the lines of a file contain no CR
or LF, for those are the breaks between them. `PathInv` says that the file is
still lines and breaks, that what was accepted are the first chunks of the
encoded file, and that what was encoded is the file in its TYPE and MODE.

* `DamageIsDetected` (`DamageDetected`). The checksum adds with the carry at
  the low end, so two sums of words that differ in one word are equal only if
  the words differ by a multiple of 65535 (`SumChanges`). A flipped bit changes
  a word by a power of two (`FlipNoticed`). Where the front of a packet is
  concerned the checksum shows nothing, and the length check decides
  (`FrontNoticed`).
* `FileAlwaysArrives` (`FileArrives`), in four parts. The chunks of a sequence,
  put together, are the sequence, also when the last is short
  (`ChunksFlatten`). `DecodeBlocks` undoes `EncodeBlocks` (`Decoded`), since
  from the start of a block it yields what the blocks from there on hold, and
  it refuses every front of the stream (`DecodedFront`). Line breaks: what
  `Normalized` does to two parts is what it does to their whole, unless a CRLF
  lies across (`NormalizedConcat`), so a file of lines becomes the same lines
  with LF (`NormalizedJoined`) and then with the breaks of the receiver
  (`TextArrives`). `TypeUndone` and `ModeUndone` put them together.

A packet's sequence number and length are written as numbers of two bytes
(`FourBytes`, `TwoBytes`); for numbers that do not fit, which the code refuses
to pack or puts into the upper half of four bytes, the theorems speak of the
model only.

`SequenceProofs` holds what these two need of numbers and sequences. The
library states induction, and recursive functions, with an operator as a
parameter, which the installed provers cannot instantiate. `Upwards`, `Downwards`
and `Recursion` are proved from a least counterexample (`Least`) and take a
*set* of numbers in its place. On them rest the lemmas about `FlattenSeq`, by
its running concatenation (`PartialStep`, `FlattenIsPartial`).

Only model-checked is liveness: fairness and `ENABLED` are outside the
prover's reach, so `SenderEnds`, `ReceiverEnds`, `ControlReturns`,
`AnnouncedIsConcluded`, `ClosedIsReleased`, `ClientTransferEnds`,
`PromptReturns` and `TransferEnds` stay with TLC. Every invariant, action
property and refinement of the passing runs is a theorem.

## 5. Where code and documents disagree

* `session_fields`: `session.py:48` says `transfer_lock` protects the transfer
  fields. `start_transfer` writes them without it; the finishing worker's
  `finish_transfer` can wipe the fields of the next transfer.
* `client_hash`: `README.md:75` promises a SHA-256 comparison after each
  transfer in `TYPE I`. The final reply precedes the clearing of
  `transfer_in_progress`, so the client's `HASH` can get 503 and the
  comparison is skipped silently.
* `client_socket`: `command_handler.py:22-24` of the client says a command
  never reads the worker's 226 or 426. A worker that dies of an `OSError`
  leaves its reply unread and every later reply is off by one.
* `client_timeout`: `main_server.py:20` says the control timeout is for idle
  clients. It also ends a transfer that takes longer than 30 s.

Each is a counterexample of one run; none contradicts a theorem.

Two more observations contradict no document, and so have no run of their own:

* The error of the fast retransmit (`rdt_core.py:212`) never leaves the loop,
  since `except socket.timeout` takes it. The transfer ends all the same, by
  the limit of the retransmission timer.
* `_open_active_receive_peer` gives each packet that is not the SYN-ACK one of
  its five attempts (`data_channel.py:116-131`). An active upload of five
  chunks or more whose SYN-ACK is overtaken by its data fails although nothing
  was lost; TLC reaches that state in the run `channel`, and
  `ActiveUploadOpens` names it as one of three reasons.

## 6. Not modelled

* Texts of replies, listings and help, progress display, socket options: no
  property depends on them. The client's handlers that send one command and
  print its reply are the class of `NOOP` and `HASH` in `Client`.
* Packets from a third address: both loops of RDT drop them before they change
  anything, and the handshakes of `DataChannel` are between two hosts.
* A second worker of a session: it cannot exist (`TransferRuns`).
* What a stopped server or client process leaves on disk: the program keeps no
  state that it would read again, and writes a file in place.
* zlib and the operating system's calls are taken to do what they promise.
* What a failed or aborted upload leaves of a file: `Session` and `Filesystem`
  model the steps, no document says what it should be.

## 7. How the parts fit

`RDT` is the data phase of one transfer, `DataChannel` finds its two ends,
`DataPath` is the content of its packets. `Session` runs such transfers as
"completes or fails", `Client` puts the real client in front of it, `Framing`
makes its commands out of bytes, and `Filesystem` is what the commands and the
uploads do to the tree that all sessions share. What could still be added: the
uploads of `Filesystem` joined to the verdicts of `Session`, so that one
theorem speaks of 226 and of the file.

------------------------------- MODULE Client -------------------------------
(***************************************************************************)
(* The command-line client on one control connection: its main thread      *)
(* (run_client, handle_command and the handlers of src/client/control),    *)
(* which waits for the reply of every command it sends, and its transfer   *)
(* worker, which alone reads replies while a transfer runs.  The server is *)
(* the one of Session, here with this client in place of any client.       *)
(***************************************************************************)
EXTENDS Session

CONSTANTS
  MaxUserCommands,   \* bound: commands on the connection before the user stops typing
  DataSocketFails    \* TRUE if the data socket may raise an OSError of the system

ASSUME ClientAssumption == MaxUserCommands \in Nat /\ DataSocketFails \in BOOLEAN

VARIABLES
  main_pc,           \* where the main thread is
  main_command,      \* the command whose reply it waits for
  client_pc,         \* where the client's transfer worker is
  read,              \* how many replies the client has read
  client_mode,       \* context.data_connection_mode: "NONE" or "SET"
  transfer_phase,    \* context.transfer_phase: "none", "DATA" or "FINALIZING"
  abort_requested,   \* with it, context.transfer_cancel_event is set and cleared
  drain,             \* the abort_requested that _read_final_transfer_reply saw
  data_ok            \* the data phase of the worker succeeded

main_vars == <<main_pc, main_command>>
context_vars == <<client_mode, transfer_phase, abort_requested>>
client_worker_vars == <<client_pc, drain, data_ok>>
client_vars == <<main_vars, client_worker_vars, read, context_vars>>
server_vars == <<control_vars, worker_vars, transfer_vars, transfer_thread,
                 direction, socket_vars>>
all_vars == <<vars, client_vars>>

ClientInit ==
  /\ Init
  /\ main_pc = "prompt" /\ main_command = "NOOP"
  /\ client_pc = "none" /\ read = 0
  /\ client_mode = "NONE"
  /\ transfer_phase = "none" /\ abort_requested = FALSE
  /\ drain = FALSE /\ data_ok = FALSE

-----------------------------------------------------------------------------
(* The control connection *)

SendCommand(c) ==
  /\ requests' = Append(requests, c)
  /\ commands' = commands + 1
  /\ UNCHANGED <<replies, connected, read>>

(* read_reply_line blocks for the next reply. *)
ReplyReady == read < Len(replies)
NextReply == replies[read + 1]

ReadReply ==
  /\ ReplyReady
  /\ read' = read + 1
  /\ UNCHANGED streams

(* It raises ConnectionError at the end of the stream. *)
StreamEnded == ~ReplyReady /\ control_pc = "closed"

-----------------------------------------------------------------------------
(* The main thread *)

(* Mutant of Typed: any command is sent while a transfer runs. *)
TypedDuringTransfer(c) ==
  /\ main_pc = "prompt"
  /\ commands < MaxUserCommands
  /\ SendCommand(c)
  /\ main_command' = c
  /\ UNCHANGED <<server_vars, client_worker_vars, transfer_phase, abort_requested>>

Typed(c) ==
  /\ main_pc = "prompt"
  /\ commands < MaxUserCommands
  /\ transfer_phase = "none"
  /\ SendCommand(c)
  /\ main_command' = c
  /\ UNCHANGED <<server_vars, client_worker_vars, transfer_phase, abort_requested>>

(* Commands with one reply; PASV and QUIT first reset the data connection,   *)
(* and handle_abor sends ABOR only to relay the answer of an idle server.    *)
TypeSimple(c) ==
  /\ c \in Queries \cup Setup \cup {"NOOP", "QUIT", "ABOR"}
  /\ Typed(c)
  /\ main_pc' = "reply"
  /\ client_mode' = IF c \in Setup \cup {"QUIT"} THEN "NONE" ELSE client_mode

TypeTransfer(c) ==
  /\ c \in Transfers
  /\ client_mode = "SET"
  /\ Typed(c)
  /\ main_pc' = "preliminary"
  /\ UNCHANGED client_mode

(* Mutant of RequestAbort: ABOR is accepted while the transfer is finalizing. *)
AbortWhileFinalizing ==
  /\ main_pc = "prompt"
  /\ commands < MaxUserCommands
  /\ transfer_phase # "none"
  /\ ~abort_requested
  /\ abort_requested' = TRUE
  /\ main_pc' = "send abort"
  /\ UNCHANGED <<streams, server_vars, read, main_command, client_worker_vars,
                 client_mode, transfer_phase>>

(* ABOR during the data phase; later it is refused ("already finalizing").   *)
RequestAbort ==
  /\ main_pc = "prompt"
  /\ commands < MaxUserCommands
  /\ transfer_phase = "DATA"
  /\ ~abort_requested
  /\ abort_requested' = TRUE
  /\ main_pc' = "send abort"
  /\ UNCHANGED <<streams, server_vars, read, main_command, client_worker_vars,
                 client_mode, transfer_phase>>

SendAbort ==
  /\ main_pc = "send abort"
  /\ SendCommand("ABOR")
  /\ main_pc' = "prompt"
  /\ UNCHANGED <<server_vars, main_command, client_worker_vars, context_vars>>

(* The client may still fail to create its own data socket after 227. *)
MainReadsReply ==
  /\ main_pc = "reply"
  /\ main_command # "QUIT"
  /\ ReadReply
  /\ main_pc' = "prompt"
  /\ client_mode' \in IF main_command \in Setup /\ NextReply.code = "227"
                        THEN {"SET", "NONE"} ELSE {client_mode}
  /\ UNCHANGED <<server_vars, main_command, client_worker_vars, transfer_phase,
                 abort_requested>>

(* 150 starts the worker: context.start_transfer. *)
MainReadsPreliminary ==
  /\ main_pc = "preliminary"
  /\ ReadReply
  /\ main_pc' = "prompt"
  /\ IF NextReply.code = "150"
       THEN /\ transfer_phase' = "DATA"
            /\ abort_requested' = FALSE
            /\ client_pc' = "data"
       ELSE UNCHANGED <<transfer_phase, abort_requested, client_pc>>
  /\ UNCHANGED <<server_vars, main_command, drain, data_ok, client_mode>>

(* Mutant of Leave: the transfer worker outlives the main thread. *)
LeaveWorkerBehind ==
  /\ main_pc' = "gone"
  /\ connected' = FALSE
  /\ UNCHANGED <<requests, commands, replies, server_vars, main_command,
                 client_worker_vars, context_vars>>

(* run_client returns, and the process takes its worker with it. *)
Leave ==
  /\ main_pc' = "gone"
  /\ client_pc' = "none"
  /\ transfer_phase' = "none"
  /\ connected' = FALSE
  /\ UNCHANGED <<requests, commands, replies, server_vars, main_command, drain,
                 data_ok, client_mode, abort_requested>>

MainReadsGoodbye ==
  /\ main_pc = "reply"
  /\ main_command = "QUIT"
  /\ ReplyReady
  /\ read' = read + 1
  /\ Leave

(* A read, or the send of ABOR, on a connection the server has closed. *)
MainLosesConnection ==
  /\ \/ main_pc \in {"reply", "preliminary"} /\ StreamEnded
     \/ main_pc = "send abort" /\ control_pc = "closed"
  /\ Leave
  /\ UNCHANGED read

(* End of input, Ctrl-C, or the process is killed, wherever it is. *)
ClientLeaves ==
  /\ main_pc # "gone"
  /\ Leave
  /\ UNCHANGED read

-----------------------------------------------------------------------------
(* The transfer worker *)

(* The two data phases meet only after the server's worker opened its side. *)
ServerTransfers ==
  /\ control_pc \notin {"start", "start fields", "start flags", "run"}
  /\ worker_pc # "open"

(* The data phase ends: complete, or by a timeout or the cancel event.  Then *)
(* mark_transfer_finalizing, before the final reply is read.                 *)
DataPhaseEnds ==
  /\ client_pc = "data"
  /\ data_ok' \in IF ServerTransfers THEN {TRUE, FALSE} ELSE {FALSE}
  /\ transfer_phase' = "FINALIZING"
  /\ drain' = abort_requested
  /\ client_pc' = "final"
  /\ UNCHANGED <<streams, server_vars, main_vars, read, client_mode, abort_requested>>

(* An OSError other than a timeout reaches start_transfer's catch-all: the   *)
(* worker ends without reading its final reply.                              *)
DataSocketRaises ==
  /\ DataSocketFails
  /\ client_pc = "data"
  /\ client_pc' = "reset"
  /\ UNCHANGED <<streams, server_vars, main_vars, read, drain, data_ok, context_vars>>

(* A successful transfer is verified, unless it was a LIST or APPE, in TYPE  *)
(* A, or the local hash cannot be computed.                                  *)
AfterFinal(code) ==
  IF data_ok /\ code = "226" THEN {"hash", "reset"} ELSE {"reset"}

(* Mutant of ReadFinalReply: the reply to a late ABOR is left unread. *)
ReadFinalReplyOnly ==
  /\ client_pc = "final"
  /\ ReadReply
  /\ client_pc' \in AfterFinal(NextReply.code)
  /\ UNCHANGED <<server_vars, main_vars, drain, data_ok, context_vars>>

(* Mutant of ReadFinalReply: a confirmed ABOR is drained too. *)
ReadFinalReplyAndDrain ==
  /\ client_pc = "final"
  /\ ReadReply
  /\ client_pc' \in IF drain THEN {"late"} ELSE AfterFinal(NextReply.code)
  /\ UNCHANGED <<server_vars, main_vars, drain, data_ok, context_vars>>

ReadFinalReply ==
  /\ client_pc = "final"
  /\ ReadReply
  /\ client_pc' \in IF drain /\ NextReply.code # "aborted"
                      THEN {"late"} ELSE AfterFinal(NextReply.code)
  /\ UNCHANGED <<server_vars, main_vars, drain, data_ok, context_vars>>

(* ABOR came too late: its own reply follows the final one. *)
ReadLateAbortReply ==
  /\ client_pc = "late"
  /\ ReadReply
  /\ client_pc' \in AfterFinal(replies[read].code)
  /\ UNCHANGED <<server_vars, main_vars, drain, data_ok, context_vars>>

SendHash ==
  /\ client_pc = "hash"
  /\ SendCommand("HASH")
  /\ client_pc' = "hash reply"
  /\ UNCHANGED <<server_vars, main_vars, drain, data_ok, context_vars>>

(* Any reply but 200 is ignored: the transfer stays unverified. *)
ReadHashReply ==
  /\ client_pc = "hash reply"
  /\ ReadReply
  /\ client_pc' = "reset"
  /\ UNCHANGED <<server_vars, main_vars, drain, data_ok, context_vars>>

WorkerLosesConnection ==
  /\ client_pc \in {"final", "late", "hash reply"}
  /\ StreamEnded
  /\ client_pc' = "reset"
  /\ UNCHANGED <<streams, server_vars, main_vars, read, drain, data_ok, context_vars>>

(* finally: reset_data_connection, then the phase under transfer_lock *)
WorkerResets ==
  /\ client_pc = "reset"
  /\ client_pc' = "end"
  /\ client_mode' = "NONE"
  /\ UNCHANGED <<streams, server_vars, main_vars, read, drain, data_ok,
                 transfer_phase, abort_requested>>

(* Mutant of WorkerEnds: the phase is left set. *)
WorkerEndsInPhase ==
  /\ client_pc = "end"
  /\ client_pc' = "none"
  /\ abort_requested' = FALSE
  /\ UNCHANGED <<streams, server_vars, main_vars, read, drain, data_ok,
                 transfer_phase, client_mode>>

WorkerEnds ==
  /\ client_pc = "end"
  /\ client_pc' = "none"
  /\ transfer_phase' = "none"
  /\ abort_requested' = FALSE
  /\ UNCHANGED <<streams, server_vars, main_vars, read, drain, data_ok, client_mode>>

-----------------------------------------------------------------------------
UserStep == RequestAbort \/ \E c \in Commands : TypeSimple(c) \/ TypeTransfer(c)

MainStep ==
  \/ SendAbort \/ MainReadsReply \/ MainReadsPreliminary \/ MainReadsGoodbye
  \/ MainLosesConnection

ClientWorkerStep ==
  \/ DataPhaseEnds \/ DataSocketRaises
  \/ ReadFinalReply \/ ReadLateAbortReply \/ SendHash \/ ReadHashReply
  \/ WorkerLosesConnection \/ WorkerResets \/ WorkerEnds

ClientNext ==
  \/ ServerStep /\ UNCHANGED client_vars
  \/ UserStep \/ MainStep \/ ClientWorkerStep \/ ClientLeaves

ClientSpec == ClientInit /\ [][ClientNext]_all_vars

(* The server's fairness, and the client's two threads run; the user is free *)
(* to type or leave.                                                         *)
ClientFairSpec ==
  /\ ClientSpec
  /\ WF_all_vars(ControlRuns /\ UNCHANGED client_vars)
  /\ WF_all_vars(WorkerStep /\ UNCHANGED client_vars)
  /\ WF_all_vars(MainStep)
  /\ WF_all_vars(ClientWorkerStep)

-----------------------------------------------------------------------------
MainReading == main_pc \in {"reply", "preliminary"}
WorkerReading == client_pc \in {"final", "late", "hash reply"}

(* The server has given up on an idle connection. *)
TimedOut == \E i \in DOMAIN replies : replies[i].code = "421"

(* The client's state; a phase is set exactly while a worker runs.           *)
ClientTypeOK ==
  /\ main_pc \in {"prompt", "reply", "preliminary", "send abort", "gone"}
  /\ main_command \in Commands
  /\ client_pc \in {"none", "data", "final", "late", "hash", "hash reply", "reset", "end"}
  /\ read \in 0..Len(replies)
  /\ client_mode \in {"NONE", "SET"}
  /\ transfer_phase \in {"none", "DATA", "FINALIZING"}
  /\ abort_requested \in BOOLEAN /\ drain \in BOOLEAN /\ data_ok \in BOOLEAN
  /\ transfer_phase = "none" <=> client_pc = "none"

(* The two threads never read the control connection at the same time.       *)
SingleReader == ~(MainReading /\ WorkerReading)

ExpectedByMain ==
  CASE main_pc = "preliminary" -> {"150", "425", "503"}
    [] main_command \in Setup -> {"227", "425", "503"}
    [] main_command \in Queries -> {"200", "503"}
    [] main_command = "NOOP" -> {"200"}
    [] main_command = "ABOR" -> {"no transfer", "aborted"}
    [] OTHER -> {"221"}

ExpectedByWorker ==
  CASE client_pc = "final" -> {"226", "426", "aborted"}
    [] client_pc = "late" -> {"no transfer"}
    [] OTHER -> {"200", "503"}

(* Every reply is read by the thread, and for the command, that it answers,  *)
(* as long as the server has not sent 421: another command is never answered *)
(* with the 226 or 426 of a transfer (command_handler.py:22-24).             *)
RepliesAligned ==
  ReplyReady /\ ~TimedOut =>
    /\ MainReading => NextReply.code \in ExpectedByMain
    /\ WorkerReading => NextReply.code \in ExpectedByWorker

(* When nothing is going on, the client has read everything the server says: *)
(* no reply is left, or still to come, for a later command to read.          *)
NothingLeftUnread ==
  main_pc = "prompt" /\ client_pc = "none" /\ ~TimedOut =>
    /\ requests = <<>> /\ ~ReplyReady
    /\ control_pc = "recv"
    /\ worker_pc \in {"open", "data", "unregister", "store", "ended", "verdict"}
         => suppress_current_transfer_reply

(* After every successful RETR, STOR or STOU in TYPE I the client compares   *)
(* SHA-256 (README.md:75): the server does not refuse its HASH.              *)
HashIsCompared == client_pc = "hash reply" /\ ReplyReady => NextReply.code # "503"

(* The control timeout is for clients that sit idle (main_server.py:20,      *)
(* constants.py:24): it does not end a connection whose transfer runs.       *)
TimeoutOnlyWhenIdle ==
  control_pc = "cleanup" /\ TimedOut => ~transfer_in_progress

(* The prompt gets a free client back: no transfer stays in progress for     *)
(* ever, aborted or not.                                                     *)
ClientTransferEnds == transfer_phase # "none" ~> transfer_phase = "none"

(* No command leaves the user without an answer for ever.                    *)
PromptReturns == MainReading ~> ~MainReading

(* This client is one of the clients of Session, so what holds there holds   *)
(* here: nothing is sent once the process has left the connection.           *)
ClientIsSession == Spec
=============================================================================

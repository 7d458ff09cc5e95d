------------------------------- MODULE Session ------------------------------
(***************************************************************************)
(* One control connection of the server: the control thread (handle_client *)
(* of src/server/main_server.py with handle_command) and the transfer      *)
(* worker it starts, sharing one ClientSession (src/server/control/        *)
(* session.py).  Each action is a stretch of one thread between two points *)
(* where the other can interfere: a lock, a send, or a field written       *)
(* without the lock.                                                       *)
(*                                                                         *)
(* conn_send_lock is held only around one send or one assignment, so it is *)
(* the atomicity of those actions.  transfer_lock is held across several   *)
(* steps of the worker and is a variable.                                  *)
(***************************************************************************)
EXTENDS Naturals, Sequences, FiniteSets

CONSTANTS
  MaxCommands,   \* bound: commands the client sends
  MaxPipelined   \* bound: commands the server has not read yet

ASSUME MaxCommandsAssumption == MaxCommands \in Nat /\ MaxPipelined \in Nat

VARIABLES
  requests,                       \* TCP stream to the server, still unread
  commands,                       \* commands the client has sent so far
  replies,                        \* TCP stream to the client, from its beginning
  connected,                      \* FALSE once the client has gone
  control_pc,                     \* where the control thread is
  pending,                        \* the reply the control thread is about to send
  worker_pc,                      \* where the transfer worker is
  verdict,                        \* the worker's final_reply
  transfer_in_progress,
  current_transfer,               \* the transfer fields, as the transfer they describe
  direction,                      \* of the transfer the worker runs
  suppress_current_transfer_reply,
  cancel_event,
  transfer_thread,                \* the worker recorded in the session; 0 is None
  transfer_lock,                  \* "free" or "worker"
  suppress_transfer_reply,
  cleanup_started,
  joined,                         \* the worker cleanup() waits for
  control_conn,                   \* FALSE once the session has dropped it
  current_data_socket,            \* TRUE while a data socket is registered
  data_connection_mode,           \* "NONE" or "SET" (by PASV or PORT)
  transfers                       \* transfers announced so far: their numbers are 1..transfers

control_vars == <<control_pc, pending, cleanup_started, joined, control_conn,
                  suppress_transfer_reply, data_connection_mode, transfers>>
worker_vars == <<worker_pc, verdict, transfer_lock>>
transfer_vars == <<transfer_in_progress, current_transfer,
                   suppress_current_transfer_reply, cancel_event>>
socket_vars == <<current_data_socket>>
streams == <<requests, commands, replies, connected>>
vars == <<streams, control_vars, worker_vars, transfer_vars, transfer_thread,
          direction, socket_vars>>

-----------------------------------------------------------------------------
Transfers == {"RETR", "STOR"}          \* LIST behaves as RETR; STOU, APPE as STOR
Setup == {"PASV"}                      \* PORT too; refused during a transfer
Queries == {"HASH"}                    \* any other command refused during a transfer
COMMANDS_ALLOWED_DURING_TRANSFER == {"ABOR", "NOOP", "QUIT"}   \* STAT behaves as NOOP
Commands == Transfers \cup Setup \cup Queries \cup COMMANDS_ALLOWED_DURING_TRANSFER

(* Replies by what they tell the client.  "200" is the direct reply of a     *)
(* query, "425" any refusal of PASV or of a transfer (550 for its file too), *)
(* "aborted" and "no transfer" the two replies of ABOR (226 and 200).        *)
Codes == {"150", "226", "426", "aborted", "no transfer", "503", "425", "200",
          "227", "221", "421"}

(* A reply, with the number of the transfer it belongs to (0: none). *)
Reply(code, t) == [code |-> code, transfer |-> t]
NoReply == Reply("200", 0)

Init ==
  /\ requests = <<>> /\ commands = 0 /\ replies = <<>> /\ connected = TRUE
  /\ control_pc = "recv" /\ pending = NoReply
  /\ worker_pc = "none" /\ verdict = "226"
  /\ transfer_in_progress = FALSE /\ current_transfer = 0
  /\ direction = "DOWNLOAD"
  /\ suppress_current_transfer_reply = FALSE /\ cancel_event = FALSE
  /\ transfer_thread = 0 /\ transfer_lock = "free"
  /\ suppress_transfer_reply = FALSE
  /\ cleanup_started = FALSE /\ joined = 0
  /\ control_conn = TRUE
  /\ current_data_socket = FALSE
  /\ data_connection_mode = "NONE"
  /\ transfers = 0

Send(r) == replies' = IF connected THEN Append(replies, r) ELSE replies

(* After a send handle_client goes on; with the client gone it may fail, and *)
(* an OSError ends the connection.                                           *)
AfterSend(pc) == IF connected THEN {pc} ELSE {pc, "cleanup"}

-----------------------------------------------------------------------------
(* The control thread: receive one command and dispatch it *)

(* The handler's reply, and the data connection mode it leaves behind. *)
Respond(r, mode) ==
  /\ pending' = r
  /\ control_pc' = "reply"
  /\ data_connection_mode' = mode

Continue(pc) ==
  /\ control_pc' = pc
  /\ UNCHANGED <<pending, data_connection_mode>>

(* transfer_in_progress is read without the lock. *)
Refused(c) == transfer_in_progress /\ c \notin COMMANDS_ALLOWED_DURING_TRANSFER

Dispatch(c) ==
  \/ c \in Setup /\ Respond(Reply("227", 0), "SET")
  \/ c \in Setup /\ Respond(Reply("425", 0), "NONE")      \* bind failed
  \/ c \in Queries \cup {"NOOP"} /\ Respond(Reply("200", 0), data_connection_mode)
  \/ c \in Transfers /\ Respond(Reply("425", 0), data_connection_mode)
  \/ /\ c \in Transfers
     /\ data_connection_mode = "SET"
     /\ Continue("preliminary")
  \/ c = "ABOR" /\ Continue("abort")
  \/ c = "QUIT" /\ Continue("quit")

ReceiveCommand ==
  /\ control_pc = "recv"
  /\ requests # <<>>
  /\ requests' = Tail(requests)
  /\ LET c == Head(requests) IN
       /\ IF Refused(c) THEN Respond(Reply("503", 0), data_connection_mode)
                        ELSE Dispatch(c)
       /\ direction' = IF control_pc' # "preliminary" THEN direction
                       ELSE IF c = "RETR" THEN "DOWNLOAD" ELSE "UPLOAD"
  /\ UNCHANGED <<commands, replies, connected, cleanup_started, joined, control_conn,
                 transfers, suppress_transfer_reply, worker_vars, transfer_vars,
                 transfer_thread, socket_vars>>

SendReply ==
  /\ control_pc = "reply"
  /\ Send(pending)
  /\ control_pc' \in AfterSend(IF pending.code = "221" THEN "cleanup" ELSE "recv")
  /\ UNCHANGED <<requests, commands, connected, pending, cleanup_started, joined, control_conn,
                 suppress_transfer_reply, data_connection_mode, transfers,
                 worker_vars, transfer_vars, transfer_thread, direction, socket_vars>>

(* No command for CONTROL_TIMEOUT_SEC: 421, sent without conn_send_lock. *)
ControlTimeout ==
  /\ control_pc = "recv"
  /\ requests = <<>>
  /\ connected
  /\ Send(Reply("421", 0))
  /\ control_pc' = "cleanup"
  /\ UNCHANGED <<requests, commands, connected, pending, cleanup_started, joined, control_conn,
                 suppress_transfer_reply, data_connection_mode, transfers,
                 worker_vars, transfer_vars, transfer_thread, direction, socket_vars>>

Goto(from, to) ==
  /\ control_pc = from
  /\ control_pc' = to
  /\ UNCHANGED <<requests, commands, connected, pending, joined, worker_vars, direction>>

(* recv() returns b"", or fails with requests still unread. *)
ConnectionLost ==
  /\ ~connected
  /\ Goto("recv", "cleanup")
  /\ UNCHANGED <<replies, cleanup_started, control_conn, suppress_transfer_reply,
                 data_connection_mode, transfers, transfer_vars, transfer_thread,
                 socket_vars>>

-----------------------------------------------------------------------------
(* The control thread: start a transfer *)

(* The generator yields the preliminary reply before it starts anything. *)
SendPreliminary ==
  /\ \E pc \in AfterSend("start") : Goto("preliminary", pc)
  /\ transfers' = transfers + 1
  /\ Send(Reply("150", transfers'))
  /\ UNCHANGED <<cleanup_started, control_conn, suppress_transfer_reply,
                 data_connection_mode, transfer_vars, transfer_thread, socket_vars>>

(* start_transfer, without the lock, while an earlier worker may still be in *)
(* finish_transfer.                                                          *)
StartMarks ==
  /\ Goto("start", "start fields")
  /\ transfer_in_progress' = TRUE
  /\ UNCHANGED <<replies, cleanup_started, control_conn, suppress_transfer_reply,
                 data_connection_mode, transfers, current_transfer, cancel_event,
                 suppress_current_transfer_reply, transfer_thread, socket_vars>>

StartFields ==
  /\ Goto("start fields", "start flags")
  /\ current_transfer' = transfers
  /\ UNCHANGED <<replies, cleanup_started, control_conn, suppress_transfer_reply,
                 data_connection_mode, transfers, transfer_in_progress, cancel_event,
                 suppress_current_transfer_reply, transfer_thread, socket_vars>>

StartFlags ==
  /\ Goto("start flags", "run")
  /\ suppress_current_transfer_reply' = FALSE
  /\ cancel_event' = FALSE
  /\ UNCHANGED <<replies, cleanup_started, control_conn, suppress_transfer_reply,
                 data_connection_mode, transfers, transfer_in_progress,
                 current_transfer, transfer_thread, socket_vars>>

(* run_transfer: the worker is created and started under the lock. *)
RunTransfer ==
  /\ control_pc = "run"
  /\ transfer_lock = "free"
  /\ transfer_thread = 0
  /\ transfer_thread' = transfers
  /\ worker_pc' = "open"
  /\ control_pc' = "recv"
  /\ UNCHANGED <<streams, pending, cleanup_started, joined, control_conn,
                 suppress_transfer_reply, data_connection_mode, transfers, verdict,
                 transfer_lock, transfer_vars, direction, socket_vars>>

(* "A transfer is already in progress for this session."  The exception     *)
(* reaches handle_client, which answers 421 and closes.                     *)
RunRefused ==
  /\ control_pc = "run"
  /\ transfer_lock = "free"
  /\ transfer_thread # 0

-----------------------------------------------------------------------------
(* The control thread: ABOR and QUIT *)

(* request_abort(suppress_worker_reply=True) on a running transfer *)
Cancel ==
  /\ suppress_current_transfer_reply' = TRUE
  /\ cancel_event' = TRUE
  /\ UNCHANGED <<transfer_in_progress, current_transfer>>

Abort ==
  /\ control_pc = "abort"
  /\ transfer_lock = "free"
  /\ IF transfer_in_progress
       THEN /\ Cancel
            /\ Continue("abort close")
       ELSE /\ Respond(Reply("no transfer", 0), data_connection_mode)
            /\ UNCHANGED transfer_vars
  /\ UNCHANGED <<streams, cleanup_started, joined, control_conn, transfers,
                 suppress_transfer_reply, worker_vars, transfer_thread, direction,
                 socket_vars>>

(* Mutant of AbortCloses: ABOR ends the transfer itself with finish_transfer. *)
AbortFinishes ==
  /\ control_pc = "abort close"
  /\ transfer_lock = "free"
  /\ current_data_socket' = FALSE
  /\ transfer_in_progress' = FALSE /\ current_transfer' = 0
  /\ suppress_current_transfer_reply' = FALSE /\ cancel_event' = FALSE
  /\ Respond(Reply("aborted", transfers), "NONE")
  /\ UNCHANGED <<streams, cleanup_started, joined, control_conn, transfers,
                 suppress_transfer_reply, worker_vars, transfer_thread, direction>>

(* Mutant of AbortCloses: the reply depends on transfer_in_progress read anew. *)
AbortRereadsState ==
  /\ control_pc = "abort close"
  /\ transfer_lock = "free"
  /\ current_data_socket' = FALSE
  /\ Respond(IF transfer_in_progress THEN Reply("aborted", transfers)
                                     ELSE Reply("no transfer", 0), "NONE")
  /\ UNCHANGED <<streams, cleanup_started, joined, control_conn, transfers,
                 suppress_transfer_reply, worker_vars, transfer_vars,
                 transfer_thread, direction>>

(* close_current_data_socket, then reset_data_connection *)
AbortCloses ==
  /\ control_pc = "abort close"
  /\ transfer_lock = "free"
  /\ current_data_socket' = FALSE
  /\ Respond(Reply("aborted", transfers), "NONE")
  /\ UNCHANGED <<streams, cleanup_started, joined, control_conn, transfers,
                 suppress_transfer_reply, worker_vars, transfer_vars,
                 transfer_thread, direction>>

(* prepare_control_close, run by QUIT and again by cleanup() *)
SuppressReplies(from, to) ==
  /\ Goto(from, to)
  /\ suppress_transfer_reply' = TRUE
  /\ UNCHANGED <<replies, cleanup_started, control_conn, data_connection_mode,
                 transfers, transfer_vars, transfer_thread, socket_vars>>

CloseAborts(from, to) ==
  /\ transfer_lock = "free"
  /\ Goto(from, to)
  /\ IF transfer_in_progress THEN Cancel ELSE UNCHANGED transfer_vars
  /\ UNCHANGED <<replies, cleanup_started, control_conn, suppress_transfer_reply,
                 data_connection_mode, transfers, transfer_thread, socket_vars>>

CloseSocket == transfer_lock = "free" /\ current_data_socket' = FALSE

(* The last step of QUIT: close the socket, logout() and reply. *)
QuitReplies ==
  /\ control_pc = "quit close"
  /\ CloseSocket
  /\ Respond(Reply("221", 0), "NONE")
  /\ UNCHANGED <<streams, cleanup_started, joined, control_conn, transfers,
                 suppress_transfer_reply, worker_vars, transfer_vars,
                 transfer_thread, direction>>

Quit ==
  \/ SuppressReplies("quit", "quit abort")
  \/ CloseAborts("quit abort", "quit close")
  \/ QuitReplies

-----------------------------------------------------------------------------
(* The control thread: cleanup() *)

CleanupBegins ==
  /\ control_pc = "cleanup"
  /\ transfer_lock = "free"
  /\ control_pc' = "cleanup suppress"
  /\ cleanup_started' = TRUE
  /\ joined' = transfer_thread
  /\ UNCHANGED <<streams, pending, control_conn, suppress_transfer_reply,
                 data_connection_mode, transfers, worker_vars, transfer_vars,
                 transfer_thread, direction, socket_vars>>

CleanupClosesSocket ==
  /\ Goto("cleanup close", "join")
  /\ CloseSocket
  /\ data_connection_mode' = "NONE"
  /\ UNCHANGED <<replies, cleanup_started, control_conn, suppress_transfer_reply,
                 transfers, transfer_vars, transfer_thread>>

WorkerAlive == joined # 0 /\ worker_pc # "none"

(* join(2.5) ends when the worker does, or by its timeout. *)
CleanupJoins ==
  /\ Goto("join", "drop")
  /\ UNCHANGED <<replies, cleanup_started, control_conn, suppress_transfer_reply,
                 data_connection_mode, transfers, transfer_vars, transfer_thread,
                 socket_vars>>

CleanupDrops ==
  /\ Goto("drop", "finish")
  /\ control_conn' = FALSE
  /\ UNCHANGED <<replies, cleanup_started, suppress_transfer_reply,
                 data_connection_mode, transfers, transfer_vars, transfer_thread,
                 socket_vars>>

(* Only a worker that has ended is cleaned up after; then the socket closes. *)
CleanupEnds ==
  /\ Goto("finish", "closed")
  /\ \/ /\ ~WorkerAlive
        /\ transfer_lock = "free"
        /\ transfer_thread' = 0
        /\ IF transfer_in_progress
             THEN /\ transfer_in_progress' = FALSE /\ current_transfer' = 0
                  /\ suppress_current_transfer_reply' = FALSE /\ cancel_event' = FALSE
             ELSE UNCHANGED transfer_vars
     \/ WorkerAlive /\ UNCHANGED <<transfer_thread, transfer_vars>>
  /\ UNCHANGED <<replies, cleanup_started, control_conn, suppress_transfer_reply,
                 data_connection_mode, transfers, socket_vars>>

Cleanup ==
  \/ CleanupBegins
  \/ SuppressReplies("cleanup suppress", "cleanup abort")
  \/ CloseAborts("cleanup abort", "cleanup close")
  \/ CleanupClosesSocket
  \/ CleanupJoins
  \/ CleanupDrops
  \/ CleanupEnds

-----------------------------------------------------------------------------
(* The transfer worker: worker_fn *)

WorkerGoto(from, to) ==
  /\ worker_pc = from
  /\ worker_pc' = to
  /\ UNCHANGED <<requests, commands, connected, control_vars, direction>>

(* Mutant of WorkerOpens: registers without a look at cleanup_started. *)
WorkerOpensRegardless ==
  /\ transfer_lock = "free"
  /\ WorkerGoto("open", "data")
  /\ current_data_socket' = TRUE
  /\ UNCHANGED <<replies, verdict, transfer_lock, transfer_vars, transfer_thread>>

(* validate_data_connection has passed before the mode can be reset, and     *)
(* register_data_socket refuses a session that is being cleaned up.          *)
WorkerOpens ==
  /\ transfer_lock = "free"
  /\ ~cleanup_started
  /\ WorkerGoto("open", "data")
  /\ current_data_socket' = TRUE
  /\ UNCHANGED <<replies, verdict, transfer_lock, transfer_vars, transfer_thread>>

(* Refused, or the data connection was reset in the meantime. *)
WorkerCannotOpen ==
  /\ cleanup_started \/ data_connection_mode = "NONE"
  /\ WorkerGoto("open", "ended")
  /\ verdict' = "426"
  /\ UNCHANGED <<replies, transfer_lock, transfer_vars, transfer_thread, socket_vars>>

(* The last check of the cancel event lies behind: the data is complete. *)
WorkerCompletes ==
  /\ ~cancel_event
  /\ WorkerGoto("data", "unregister")
  /\ verdict' = "226"
  /\ UNCHANGED <<replies, transfer_lock, transfer_vars, transfer_thread, socket_vars>>

(* Mutant of WorkerFails: a cancelled worker keeps waiting for packets. *)
WorkerIgnoresCancel ==
  /\ ~cancel_event
  /\ WorkerGoto("data", "unregister")
  /\ verdict' = "426"
  /\ UNCHANGED <<replies, transfer_lock, transfer_vars, transfer_thread, socket_vars>>

(* Cancelled, timed out, no peer, or the socket was closed underneath. *)
WorkerFails ==
  /\ WorkerGoto("data", "unregister")
  /\ verdict' = "426"
  /\ UNCHANGED <<replies, transfer_lock, transfer_vars, transfer_thread, socket_vars>>

WorkerUnregisters ==
  /\ transfer_lock = "free"
  /\ WorkerGoto("unregister",
                IF verdict = "226" /\ direction = "UPLOAD" THEN "store" ELSE "ended")
  /\ current_data_socket' = FALSE
  /\ UNCHANGED <<replies, verdict, transfer_lock, transfer_vars, transfer_thread>>

(* receive_file decodes and writes the file, which may fail; it no longer    *)
(* looks at the cancel event.                                                *)
WorkerStores ==
  /\ WorkerGoto("store", "ended")
  /\ verdict' \in {verdict, "426"}
  /\ UNCHANGED <<replies, transfer_lock, transfer_vars, transfer_thread, socket_vars>>

-----------------------------------------------------------------------------
(* The transfer worker: the end of _run, under transfer_lock *)

(* Mutant of WorkerLocks: the transfer is over before its reply is sent. *)
WorkerUnmarksFirst ==
  /\ transfer_lock = "free"
  /\ WorkerGoto("ended", "verdict")
  /\ transfer_lock' = "worker"
  /\ transfer_in_progress' = FALSE
  /\ UNCHANGED <<replies, verdict, current_transfer, suppress_current_transfer_reply,
                 cancel_event, transfer_thread, socket_vars>>

(* Mutant of WorkerLocks: the end of the transfer is not under the lock. *)
WorkerSkipsLock ==
  /\ WorkerGoto("ended", "verdict")
  /\ UNCHANGED <<replies, verdict, transfer_lock, transfer_vars, transfer_thread,
                 socket_vars>>

WorkerLocks ==
  /\ transfer_lock = "free"
  /\ WorkerGoto("ended", "verdict")
  /\ transfer_lock' = "worker"
  /\ UNCHANGED <<replies, verdict, transfer_vars, transfer_thread, socket_vars>>

(* Mutant of WorkerReplies: the final reply is always sent. *)
WorkerAlwaysReplies ==
  /\ WorkerGoto("verdict", "finish")
  /\ Send(Reply(verdict, transfer_thread))
  /\ UNCHANGED <<verdict, transfer_lock, transfer_vars, transfer_thread, socket_vars>>

WorkerReplies ==
  /\ WorkerGoto("verdict", "finish")
  /\ IF suppress_current_transfer_reply \/ suppress_transfer_reply \/ ~control_conn
       THEN UNCHANGED replies
       ELSE Send(Reply(verdict, transfer_thread))
  /\ UNCHANGED <<verdict, transfer_lock, transfer_vars, transfer_thread, socket_vars>>

(* finish_transfer: the flag that admits new commands is cleared first. *)
FinishUnmarks ==
  /\ WorkerGoto("finish", "finish fields")
  /\ transfer_in_progress' = FALSE
  /\ UNCHANGED <<replies, verdict, transfer_lock, current_transfer,
                 suppress_current_transfer_reply, cancel_event, transfer_thread,
                 socket_vars>>

FinishFields ==
  /\ WorkerGoto("finish fields", "finish flags")
  /\ current_transfer' = 0
  /\ UNCHANGED <<replies, verdict, transfer_lock, transfer_in_progress,
                 suppress_current_transfer_reply, cancel_event, transfer_thread,
                 socket_vars>>

(* Mutant of FinishFlags: the session keeps its finished worker. *)
FinishKeepsThread ==
  /\ WorkerGoto("finish flags", "none")
  /\ suppress_current_transfer_reply' = FALSE
  /\ cancel_event' = FALSE
  /\ transfer_lock' = "free"
  /\ UNCHANGED <<replies, verdict, transfer_in_progress, current_transfer,
                 transfer_thread, socket_vars>>

(* Mutant of FinishFlags: the lock is not released. *)
FinishKeepsLock ==
  /\ WorkerGoto("finish flags", "none")
  /\ suppress_current_transfer_reply' = FALSE
  /\ cancel_event' = FALSE
  /\ transfer_thread' = 0
  /\ UNCHANGED <<replies, verdict, transfer_lock, transfer_in_progress,
                 current_transfer, socket_vars>>

(* ... transfer_thread = None, and the lock is released. *)
FinishFlags ==
  /\ WorkerGoto("finish flags", "none")
  /\ suppress_current_transfer_reply' = FALSE
  /\ cancel_event' = FALSE
  /\ transfer_thread' = 0
  /\ transfer_lock' = "free"
  /\ UNCHANGED <<replies, verdict, transfer_in_progress, current_transfer,
                 socket_vars>>

-----------------------------------------------------------------------------
ControlRuns ==
  \/ ReceiveCommand \/ SendReply \/ ConnectionLost
  \/ SendPreliminary \/ StartMarks \/ StartFields \/ StartFlags \/ RunTransfer
  \/ Abort \/ AbortCloses \/ Quit \/ Cleanup

ControlStep == ControlRuns \/ ControlTimeout

WorkerStep ==
  \/ WorkerOpens \/ WorkerCannotOpen \/ WorkerCompletes \/ WorkerFails
  \/ WorkerUnregisters \/ WorkerStores
  \/ WorkerLocks \/ WorkerReplies \/ FinishUnmarks \/ FinishFields \/ FinishFlags

ServerStep == ControlStep \/ WorkerStep

(* Any client: it sends any command at any time, or goes away.               *)
ClientSends(c) ==
  /\ connected
  /\ Len(requests) < MaxPipelined
  /\ commands < MaxCommands
  /\ requests' = Append(requests, c)
  /\ commands' = commands + 1
  /\ UNCHANGED <<replies, connected, control_vars, worker_vars, transfer_vars,
                 transfer_thread, direction, socket_vars>>

ClientGoes ==
  /\ connected
  /\ connected' = FALSE
  /\ UNCHANGED <<requests, commands, replies, control_vars, worker_vars,
                 transfer_vars, transfer_thread, direction, socket_vars>>

ClientStep == ClientGoes \/ \E c \in Commands : ClientSends(c)

Next == ServerStep \/ ClientStep

Spec == Init /\ [][Next]_vars

(* Both threads run: each lock is released after a few steps, and a worker's *)
(* data transfer returns or raises (FairSpec of RDT).  The control timeout   *)
(* may fire, but nothing relies on it.                                       *)
Fairness == WF_vars(ControlRuns) /\ WF_vars(WorkerStep)

FairSpec == Spec /\ Fairness

-----------------------------------------------------------------------------
WorkerRuns == worker_pc # "none"
WorkerFinishing ==
  worker_pc \in {"verdict", "finish", "finish fields", "finish flags"}
CleanupClosedSocket == control_pc \in {"join", "drop", "finish", "closed"}
Verdicts == {"226", "426", "aborted"}
Announced(t) == \E i \in DOMAIN replies : replies[i] = Reply("150", t)
Concluded(t) ==
  \E i \in DOMAIN replies : replies[i].transfer = t /\ replies[i].code \in Verdicts
Farewell == \E i \in DOMAIN replies : replies[i].code \in {"221", "421"}

(* The state of the two threads; the lock is the worker's exactly while it   *)
(* delivers its verdict, and the session records exactly the running worker. *)
TypeOK ==
  /\ requests \in Seq(Commands) /\ commands \in 0..MaxCommands
  /\ replies \in Seq([code : Codes, transfer : 0..MaxCommands])
  /\ connected \in BOOLEAN
  /\ control_pc \in {"recv", "reply", "preliminary", "start", "start fields",
       "start flags", "run", "abort", "abort close", "quit", "quit abort", "quit close",
       "cleanup", "cleanup suppress", "cleanup abort", "cleanup close", "join", "drop",
       "finish", "closed"}
  /\ pending \in [code : Codes, transfer : 0..MaxCommands]
  /\ worker_pc \in {"none", "open", "data", "unregister", "store", "ended"}
                     \cup {"verdict", "finish", "finish fields", "finish flags"}
  /\ verdict \in {"226", "426"}
  /\ transfer_in_progress \in BOOLEAN
  /\ current_transfer \in 0..transfers
  /\ direction \in {"DOWNLOAD", "UPLOAD"}
  /\ suppress_current_transfer_reply \in BOOLEAN /\ cancel_event \in BOOLEAN
  /\ transfer_thread \in 0..transfers /\ joined \in 0..transfers
  /\ suppress_transfer_reply \in BOOLEAN /\ cleanup_started \in BOOLEAN
  /\ control_conn \in BOOLEAN /\ current_data_socket \in BOOLEAN
  /\ data_connection_mode \in {"NONE", "SET"}
  /\ transfers \in 0..MaxCommands
  /\ transfer_lock = IF WorkerFinishing THEN "worker" ELSE "free"
  /\ transfer_thread # 0 <=> WorkerRuns

(* The client is told at most one outcome of a transfer: the worker sends at *)
(* most one final reply, and none at all for a transfer whose abort is       *)
(* confirmed in its place.  (ABOR itself may be repeated.)                   *)
OneVerdict ==
  \A i, j \in DOMAIN replies :
    /\ replies[i].code \in {"226", "426"} /\ replies[j].code \in Verdicts
    /\ replies[i].transfer = replies[j].transfer
    => i = j

(* A transfer is announced only when the client has been told the outcome of *)
(* the one before: replies never overlap between transfers.                  *)
VerdictBeforeNext ==
  \A i \in DOMAIN replies :
    replies[i].code = "150" =>
      \A t \in 1..(replies[i].transfer - 1) :
        \E j \in 1..(i - 1) : replies[j].transfer = t /\ replies[j].code \in Verdicts

(* No worker writes to the control connection after the 221 that answers     *)
(* QUIT.                                                                     *)
NothingAfterGoodbye ==
  \A i \in DOMAIN replies : replies[i].code = "221" => i = Len(replies)

(* Once the abort of the running transfer is confirmed, nothing takes the    *)
(* cancellation back before its worker has passed its final reply: neither   *)
(* finish_transfer of an earlier worker nor start_transfer of a later one.   *)
AbortNotLost ==
  \A i \in DOMAIN replies :
    /\ replies[i].code = "aborted"
    /\ replies[i].transfer = transfer_thread
    /\ worker_pc \notin {"finish fields", "finish flags"}
    => cancel_event /\ suppress_current_transfer_reply

(* A transfer announced with 150 is never refused by run_transfer, although  *)
(* the command was admitted before the previous worker had ended.            *)
AnnouncedTransferRuns == ~RunRefused

(* When cleanup() has closed the data socket, no worker can register another *)
(* one, even if it outlives the 2.5 s of join().                             *)
NoSocketAfterCleanup ==
  CleanupClosedSocket => ~current_data_socket /\ data_connection_mode = "NONE"

(* transfer_lock protects the transfer fields (session.py:48): while a       *)
(* worker transfers, they describe its transfer.                             *)
FieldsDescribeTransfer ==
  worker_pc \in {"open", "data", "unregister", "store", "ended"}
    => current_transfer = transfer_thread

(* The two threads never wait for each other for ever: every command is      *)
(* answered or ends the connection.                                          *)
ControlReturns == control_pc # "recv" ~> control_pc \in {"recv", "closed"}

(* Every transfer announced to a client that stays gets an outcome, unless   *)
(* the server says 221 or 421 first.                                         *)
AnnouncedIsConcluded ==
  \A t \in 1..MaxCommands :
    Announced(t) ~> (Concluded(t) \/ Farewell \/ ~connected)

(* A closed session ends up holding nothing, even when its worker outlived   *)
(* cleanup().                                                                *)
ClosedIsReleased ==
  control_pc = "closed" ~>
    /\ control_pc = "closed" /\ ~WorkerRuns
    /\ transfer_thread = 0 /\ ~transfer_in_progress
    /\ ~current_data_socket /\ data_connection_mode = "NONE"
=============================================================================

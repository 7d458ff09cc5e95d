---------------------------- MODULE ClientProofs ----------------------------
(***************************************************************************)
(* Proofs about Client: its two threads take turns at the connection, and  *)
(* together they are a client that Session allows, so that the theorems of *)
(* SessionProofs hold for this client too; every reply is read by the      *)
(* thread, and for the command, that it answers, and nothing is left unread *)
(* when the client is idle.                                                *)
(***************************************************************************)
EXTENDS Client, SessionProofs

(* Main thread and worker: while the main thread waits for a reply there is  *)
(* no worker, and the end of the process ends both.                          *)
Turns ==
  /\ main_pc \in {"prompt", "reply", "preliminary", "send abort", "gone"}
  /\ transfer_phase = "none" <=> client_pc = "none"
  /\ main_pc \in {"reply", "preliminary", "gone"} => client_pc = "none"
  /\ connected <=> main_pc # "gone"

(* What the client may send by itself: the HASH of a transfer that began or  *)
(* is about to, and the ABOR that the user asked for.                        *)
HashOwed == main_pc = "preliminary" \/ client_pc \in {"data", "final", "late", "hash"}
AbortOwed == main_pc = "send abort"

(* Sent and owed together are at most one more than the user may type.       *)
Owing ==
  /\ commands \in Nat /\ commands <= MaxUserCommands + 1
  /\ HashOwed \/ AbortOwed => commands <= MaxUserCommands
  /\ HashOwed /\ AbortOwed => commands < MaxUserCommands

(* The stream of commands holds some of those that were sent.                *)
Counts ==
  /\ requests \in Seq(Commands)
  /\ Len(requests) <= commands
  /\ Owing

(* The inductive invariant of the two client threads.                        *)
ClientInv == Turns /\ Counts

(* At the start nothing runs.                                                *)
LEMMA InitClient == ClientInit => ClientInv
  <1> SUFFICES ASSUME ClientInit PROVE ClientInv
    OBVIOUS
  <1>1. Turns
    BY DEF ClientInit, Init, Turns
  <1>2. requests = <<>> /\ commands = 0 /\ main_pc = "prompt" /\ client_pc = "none"
    BY DEF ClientInit, Init
  <1>3. Owing
    BY <1>2, ClientAssumption DEF Owing, HashOwed, AbortOwed
  <1>4. Counts
    BY <1>2, <1>3 DEF Counts
  <1> QED
    BY <1>1, <1>4 DEF ClientInv

(* The server takes requests from the front and leaves the client's side of  *)
(* the connection alone.                                                     *)
LEMMA ServerTakes ==
  ServerStep => /\ UNCHANGED <<commands, connected>>
                /\ requests' = requests \/ (requests # <<>> /\ requests' = Tail(requests))
  <1> SUFFICES ASSUME ServerStep
               PROVE  /\ UNCHANGED <<commands, connected>>
                      /\ requests' = requests \/ (requests # <<>> /\ requests' = Tail(requests))
    OBVIOUS
  <1> USE DEF streams, control_vars, worker_vars, transfer_vars, socket_vars
  <1>1. CASE ReceiveCommand
    BY <1>1 DEF ReceiveCommand
  <1>2. CASE SendReply
    BY <1>2 DEF SendReply
  <1>3. CASE ControlTimeout
    BY <1>3 DEF ControlTimeout
  <1>4. CASE ConnectionLost
    BY <1>4 DEF ConnectionLost, Goto
  <1>5. CASE SendPreliminary
    BY <1>5 DEF SendPreliminary, Goto
  <1>6. CASE StartMarks
    BY <1>6 DEF StartMarks, Goto
  <1>7. CASE StartFields
    BY <1>7 DEF StartFields, Goto
  <1>8. CASE StartFlags
    BY <1>8 DEF StartFlags, Goto
  <1>9. CASE RunTransfer
    BY <1>9 DEF RunTransfer
  <1>10. CASE Abort
    BY <1>10 DEF Abort, Cancel, Continue, Respond, Reply
  <1>11. CASE AbortCloses
    BY <1>11 DEF AbortCloses, Respond, Reply
  <1>12. CASE SuppressReplies("quit", "quit abort")
    BY <1>12 DEF SuppressReplies, Goto
  <1>13. CASE CloseAborts("quit abort", "quit close")
    BY <1>13 DEF CloseAborts, Goto, Cancel
  <1>14. CASE QuitReplies
    BY <1>14 DEF QuitReplies, CloseSocket, Respond, Reply
  <1>15. CASE CleanupBegins
    BY <1>15 DEF CleanupBegins
  <1>16. CASE SuppressReplies("cleanup suppress", "cleanup abort")
    BY <1>16 DEF SuppressReplies, Goto
  <1>17. CASE CloseAborts("cleanup abort", "cleanup close")
    BY <1>17 DEF CloseAborts, Goto, Cancel
  <1>18. CASE CleanupClosesSocket
    BY <1>18 DEF CleanupClosesSocket, Goto, CloseSocket
  <1>19. CASE CleanupJoins
    BY <1>19 DEF CleanupJoins, Goto
  <1>20. CASE CleanupDrops
    BY <1>20 DEF CleanupDrops, Goto
  <1>21. CASE CleanupEnds
    BY <1>21 DEF CleanupEnds, Goto, WorkerAlive
  <1>22. CASE WorkerOpens
    BY <1>22 DEF WorkerOpens, WorkerGoto
  <1>23. CASE WorkerCannotOpen
    BY <1>23 DEF WorkerCannotOpen, WorkerGoto
  <1>24. CASE WorkerCompletes
    BY <1>24 DEF WorkerCompletes, WorkerGoto
  <1>25. CASE WorkerFails
    BY <1>25 DEF WorkerFails, WorkerGoto
  <1>26. CASE WorkerUnregisters
    BY <1>26 DEF WorkerUnregisters, WorkerGoto
  <1>27. CASE WorkerStores
    BY <1>27 DEF WorkerStores, WorkerGoto
  <1>28. CASE WorkerLocks
    BY <1>28 DEF WorkerLocks, WorkerGoto
  <1>29. CASE WorkerReplies
    BY <1>29 DEF WorkerReplies, WorkerGoto
  <1>30. CASE FinishUnmarks
    BY <1>30 DEF FinishUnmarks, WorkerGoto
  <1>31. CASE FinishFields
    BY <1>31 DEF FinishFields, WorkerGoto
  <1>32. CASE FinishFlags
    BY <1>32 DEF FinishFlags, WorkerGoto
  <1> QED
    BY <1>1, <1>2, <1>3, <1>4, <1>5, <1>6, <1>7, <1>8, <1>9, <1>10, <1>11,
       <1>12, <1>13, <1>14, <1>15, <1>16, <1>17, <1>18, <1>19, <1>20, <1>21,
       <1>22, <1>23, <1>24, <1>25, <1>26, <1>27, <1>28, <1>29, <1>30, <1>31,
       <1>32
       DEF ServerStep, ControlStep, ControlRuns, WorkerStep, Quit, Cleanup

(* Sends of the client, in turn and within what it may send.                 *)
Sends(c) == connected /\ commands <= MaxUserCommands /\ SendCommand(c) /\ UNCHANGED server_vars

(* What a step of the client does to the connection.                         *)
Contact ==
  \/ UNCHANGED vars
  \/ \E c \in Commands : Sends(c)
  \/ ClientGoes

(* Every step of the client keeps its threads in turn, and sends, leaves or  *)
(* lets the connection alone.                                                *)
LEMMA StepClient ==
  ASSUME Turns, Owing, UserStep \/ MainStep \/ ClientWorkerStep \/ ClientLeaves
  PROVE  Turns' /\ Owing' /\ Contact
  <1> USE ClientAssumption
      DEF Owing, HashOwed, AbortOwed, streams, server_vars, main_vars, context_vars, client_worker_vars
  <1>1. ASSUME NEW c \in Commands, TypeSimple(c) PROVE Turns' /\ Owing' /\ Contact
    <2>1. Turns'
      BY <1>1 DEF Turns, TypeSimple, Typed, SendCommand
    <2>2. Owing'
      BY <1>1 DEF Turns, TypeSimple, Typed, SendCommand
    <2>3. Sends(c) /\ c \in Commands
      BY <1>1 DEF Turns, Sends, TypeSimple, Typed, SendCommand
    <2> QED
      BY <2>1, <2>2, <2>3 DEF Contact
  <1>2. ASSUME NEW c \in Commands, TypeTransfer(c) PROVE Turns' /\ Owing' /\ Contact
    <2>1. Turns'
      BY <1>2 DEF Turns, TypeTransfer, Typed, SendCommand
    <2>2. Owing'
      BY <1>2 DEF Turns, TypeTransfer, Typed, SendCommand
    <2>3. Sends(c) /\ c \in Commands
      BY <1>2 DEF Turns, Sends, TypeTransfer, Typed, SendCommand
    <2> QED
      BY <2>1, <2>2, <2>3 DEF Contact
  <1>3. CASE RequestAbort
    <2>1. Turns'
      BY <1>3 DEF Turns, RequestAbort
    <2>2. Owing'
      <3>1. commands < MaxUserCommands /\ UNCHANGED commands
        BY <1>3 DEF Turns, RequestAbort
      <3> HIDE DEF HashOwed, AbortOwed
      <3> QED
        BY <3>1
    <2>3. UNCHANGED vars
      BY <1>3 DEF vars, RequestAbort
    <2> QED
      BY <2>1, <2>2, <2>3 DEF Contact
  <1>4. CASE SendAbort
    <2>1. Turns'
      BY <1>4 DEF Turns, SendAbort, SendCommand
    <2>2. Owing'
      <3>1. /\ AbortOwed /\ ~AbortOwed' /\ (HashOwed' <=> HashOwed)
            /\ commands' = commands + 1
        BY <1>4 DEF Turns, SendAbort, SendCommand
      <3> HIDE DEF HashOwed, AbortOwed
      <3> QED
        BY <3>1
    <2>3. Sends("ABOR") /\ "ABOR" \in Commands
      BY <1>4 DEF Turns, Sends, SendAbort, SendCommand, Commands, Queries, COMMANDS_ALLOWED_DURING_TRANSFER
    <2> QED
      BY <2>1, <2>2, <2>3 DEF Contact
  <1>5. CASE MainReadsReply
    <2>1. Turns'
      BY <1>5 DEF Turns, MainReadsReply, ReadReply
    <2>2. Owing'
      BY <1>5 DEF Turns, MainReadsReply, ReadReply
    <2>3. UNCHANGED vars
      BY <1>5 DEF vars, MainReadsReply, ReadReply
    <2> QED
      BY <2>1, <2>2, <2>3 DEF Contact
  <1>6. CASE MainReadsPreliminary
    <2>1. Turns'
      BY <1>6 DEF Turns, MainReadsPreliminary, ReadReply
    <2>2. Owing'
      BY <1>6 DEF Turns, MainReadsPreliminary, ReadReply
    <2>3. UNCHANGED vars
      BY <1>6 DEF vars, MainReadsPreliminary, ReadReply
    <2> QED
      BY <2>1, <2>2, <2>3 DEF Contact
  <1>7. CASE MainReadsGoodbye
    <2>1. Turns'
      BY <1>7 DEF Turns, MainReadsGoodbye, Leave, ClientGoes
    <2>2. Owing'
      BY <1>7 DEF Turns, MainReadsGoodbye, Leave, ClientGoes
    <2>3. ClientGoes
      BY <1>7 DEF Turns, MainReadsGoodbye, Leave, ClientGoes
    <2> QED
      BY <2>1, <2>2, <2>3 DEF Contact
  <1>8. CASE MainLosesConnection
    <2>1. Turns'
      BY <1>8 DEF Turns, MainLosesConnection, Leave, ClientGoes
    <2>2. Owing'
      BY <1>8 DEF Turns, MainLosesConnection, Leave, ClientGoes
    <2>3. ClientGoes
      BY <1>8 DEF Turns, MainLosesConnection, Leave, ClientGoes
    <2> QED
      BY <2>1, <2>2, <2>3 DEF Contact
  <1>9. CASE ClientLeaves
    <2>1. Turns'
      BY <1>9 DEF Turns, ClientLeaves, Leave, ClientGoes
    <2>2. Owing'
      BY <1>9 DEF Turns, ClientLeaves, Leave, ClientGoes
    <2>3. ClientGoes
      BY <1>9 DEF Turns, ClientLeaves, Leave, ClientGoes
    <2> QED
      BY <2>1, <2>2, <2>3 DEF Contact
  <1>10. CASE DataPhaseEnds
    <2>1. Turns'
      BY <1>10 DEF Turns, DataPhaseEnds
    <2>2. Owing'
      BY <1>10 DEF Turns, DataPhaseEnds
    <2>3. UNCHANGED vars
      BY <1>10 DEF vars, DataPhaseEnds
    <2> QED
      BY <2>1, <2>2, <2>3 DEF Contact
  <1>11. CASE DataSocketRaises
    <2>1. Turns'
      BY <1>11 DEF Turns, DataSocketRaises
    <2>2. Owing'
      BY <1>11 DEF Turns, DataSocketRaises
    <2>3. UNCHANGED vars
      BY <1>11 DEF vars, DataSocketRaises
    <2> QED
      BY <2>1, <2>2, <2>3 DEF Contact
  <1>12. CASE ReadFinalReply
    <2>1. Turns'
      BY <1>12 DEF Turns, ReadFinalReply, ReadReply, AfterFinal
    <2>2. Owing'
      BY <1>12 DEF Turns, ReadFinalReply, ReadReply, AfterFinal
    <2>3. UNCHANGED vars
      BY <1>12 DEF vars, ReadFinalReply, ReadReply, AfterFinal
    <2> QED
      BY <2>1, <2>2, <2>3 DEF Contact
  <1>13. CASE ReadLateAbortReply
    <2>1. Turns'
      BY <1>13 DEF Turns, ReadLateAbortReply, ReadReply, AfterFinal
    <2>2. Owing'
      BY <1>13 DEF Turns, ReadLateAbortReply, ReadReply, AfterFinal
    <2>3. UNCHANGED vars
      BY <1>13 DEF vars, ReadLateAbortReply, ReadReply, AfterFinal
    <2> QED
      BY <2>1, <2>2, <2>3 DEF Contact
  <1>14. CASE SendHash
    <2>1. Turns'
      BY <1>14 DEF Turns, SendHash, SendCommand
    <2>2. Owing'
      <3>1. /\ HashOwed /\ ~HashOwed' /\ (AbortOwed' <=> AbortOwed)
            /\ commands' = commands + 1
        BY <1>14 DEF Turns, SendHash, SendCommand
      <3> HIDE DEF HashOwed, AbortOwed
      <3> QED
        BY <3>1
    <2>3. Sends("HASH") /\ "HASH" \in Commands
      BY <1>14 DEF Turns, Sends, SendHash, SendCommand, Commands, Queries, COMMANDS_ALLOWED_DURING_TRANSFER
    <2> QED
      BY <2>1, <2>2, <2>3 DEF Contact
  <1>15. CASE ReadHashReply
    <2>1. Turns'
      BY <1>15 DEF Turns, ReadHashReply, ReadReply
    <2>2. Owing'
      BY <1>15 DEF Turns, ReadHashReply, ReadReply
    <2>3. UNCHANGED vars
      BY <1>15 DEF vars, ReadHashReply, ReadReply
    <2> QED
      BY <2>1, <2>2, <2>3 DEF Contact
  <1>16. CASE WorkerLosesConnection
    <2>1. Turns'
      BY <1>16 DEF Turns, WorkerLosesConnection
    <2>2. Owing'
      BY <1>16 DEF Turns, WorkerLosesConnection
    <2>3. UNCHANGED vars
      BY <1>16 DEF vars, WorkerLosesConnection
    <2> QED
      BY <2>1, <2>2, <2>3 DEF Contact
  <1>17. CASE WorkerResets
    <2>1. Turns'
      BY <1>17 DEF Turns, WorkerResets
    <2>2. Owing'
      BY <1>17 DEF Turns, WorkerResets
    <2>3. UNCHANGED vars
      BY <1>17 DEF vars, WorkerResets
    <2> QED
      BY <2>1, <2>2, <2>3 DEF Contact
  <1>18. CASE WorkerEnds
    <2>1. Turns'
      BY <1>18 DEF Turns, WorkerEnds
    <2>2. Owing'
      BY <1>18 DEF Turns, WorkerEnds
    <2>3. UNCHANGED vars
      BY <1>18 DEF vars, WorkerEnds
    <2> QED
      BY <2>1, <2>2, <2>3 DEF Contact
  <1> QED
    BY <1>1, <1>2, <1>3, <1>4, <1>5, <1>6, <1>7, <1>8, <1>9, <1>10, <1>11,
       <1>12, <1>13, <1>14, <1>15, <1>16, <1>17, <1>18
       DEF UserStep, MainStep, ClientWorkerStep

(* Every step keeps the invariant, and is a step of Session or leaves it     *)
(* alone: the client never sends when it has gone or beyond the bounds of    *)
(* Session, if these leave room for the commands that it sends by itself.    *)
LEMMA NextClient ==
  ASSUME ClientInv, [ClientNext]_all_vars,
         MaxCommands > MaxUserCommands, MaxPipelined > MaxUserCommands
  PROVE  ClientInv' /\ [Next]_vars
  <1> USE ClientAssumption, MaxCommandsAssumption
  <1>1. CASE ServerStep /\ UNCHANGED client_vars
    <2>1. UNCHANGED <<main_pc, client_pc, transfer_phase>>
      BY <1>1 DEF client_vars, main_vars, client_worker_vars, context_vars
    <2>2. /\ UNCHANGED <<commands, connected>>
          /\ requests' = requests \/ (requests # <<>> /\ requests' = Tail(requests))
      BY <1>1, ServerTakes
    <2>3. Turns'
      BY <2>1, <2>2 DEF ClientInv, Turns
    <2>4. requests' \in Seq(Commands) /\ Len(requests') <= Len(requests)
      <3>1. requests \in Seq(Commands)
        BY DEF ClientInv, Counts
      <3>2. CASE requests # <<>> /\ requests' = Tail(requests)
        <4>1. Tail(requests) \in Seq(Commands) /\ Len(Tail(requests)) = Len(requests) - 1
          BY <3>1, <3>2, HeadTailProperties
        <4>2. Len(requests) \in Nat
          BY <3>1
        <4> QED
          BY <3>2, <4>1, <4>2
      <3>3. CASE requests' = requests
        BY <3>1, <3>3
      <3> QED
        BY <2>2, <3>2, <3>3
    <2>5. Counts'
      <3>1. Owing'
        BY <2>1, <2>2 DEF ClientInv, Counts, Owing, HashOwed, AbortOwed
      <3>2. requests \in Seq(Commands) /\ Len(requests) \in Nat
        BY DEF ClientInv, Counts
      <3>3. Len(requests') \in Nat
        BY <2>4
      <3> QED
        BY <2>2, <2>4, <3>1, <3>2, <3>3 DEF ClientInv, Counts, Owing
    <2> QED
      BY <1>1, <2>3, <2>5 DEF ClientInv, Next
  <1>2. CASE UserStep \/ MainStep \/ ClientWorkerStep \/ ClientLeaves
    <2>1. Turns' /\ Owing' /\ Contact
      BY <1>2, StepClient DEF ClientInv, Counts
    <2>2. requests \in Seq(Commands) /\ commands \in Nat /\ Len(requests) <= commands
      BY DEF ClientInv, Counts, Owing
    <2>3. CASE UNCHANGED vars
      <3>1. UNCHANGED <<requests, commands>>
        BY <2>3 DEF vars, streams
      <3>2. Counts'
        BY <2>1, <2>2, <3>1 DEF Counts, Owing
      <3> QED
        BY <2>1, <2>3, <3>2 DEF ClientInv
    <2>4. ASSUME NEW c \in Commands, Sends(c) PROVE ClientInv' /\ ClientSends(c)
      <3>1. /\ connected /\ commands <= MaxUserCommands
            /\ requests' = Append(requests, c) /\ commands' = commands + 1
            /\ UNCHANGED <<replies, connected>>
        BY <2>4 DEF Sends, SendCommand
      <3>2. requests' \in Seq(Commands) /\ Len(requests') = Len(requests) + 1
        BY <2>2, <2>4, <3>1, AppendProperties
      <3>3. Len(requests) \in Nat
        BY <2>2
      <3>4. Len(requests') <= commands' /\ Len(requests) < MaxPipelined /\ commands < MaxCommands
        BY <2>2, <3>1, <3>2, <3>3
      <3>5. Counts'
        BY <2>1, <3>2, <3>4 DEF Counts, Owing
      <3>6. ClientSends(c)
        BY <2>4, <3>1, <3>4 DEF ClientSends, Sends, server_vars
      <3> QED
        BY <2>1, <3>5, <3>6 DEF ClientInv
    <2>5. CASE ClientGoes
      <3>1. UNCHANGED <<requests, commands>>
        BY <2>5 DEF ClientGoes
      <3>2. Counts'
        BY <2>1, <2>2, <3>1 DEF Counts, Owing
      <3> QED
        BY <2>1, <2>5, <3>2 DEF ClientInv, Next, ClientStep
    <2> QED
      BY <2>1, <2>3, <2>4, <2>5 DEF Contact, Next, ClientStep
  <1>3. CASE UNCHANGED all_vars
    <2>1. UNCHANGED vars /\ UNCHANGED <<main_pc, client_pc, transfer_phase>>
      BY <1>3 DEF all_vars, client_vars, main_vars, client_worker_vars, context_vars
    <2>2. UNCHANGED <<requests, commands, connected>>
      BY <2>1 DEF vars, streams
    <2> QED
      BY <2>1, <2>2 DEF ClientInv, Turns, Counts, Owing, HashOwed, AbortOwed
  <1> QED
    BY <1>1, <1>2, <1>3 DEF ClientNext

(* The client with its server is a behaviour of Session, for any number of   *)
(* commands: all that SessionProofs shows of the server holds here.          *)
THEOREM ClientImplements ==
  ASSUME MaxCommands > MaxUserCommands, MaxPipelined > MaxUserCommands
  PROVE  ClientSpec => ClientIsSession
  <1>1. ClientInit => Init
    BY DEF ClientInit
  <1>2. ClientInv /\ [ClientNext]_all_vars => ClientInv' /\ [Next]_vars
    BY NextClient
  <1>3. QED
    BY <1>1, <1>2, InitClient, PTL DEF ClientSpec, ClientIsSession, Spec

(* The two client threads never read the control connection at the same time. *)
THEOREM OneReader ==
  ASSUME MaxCommands > MaxUserCommands, MaxPipelined > MaxUserCommands
  PROVE  ClientSpec => []SingleReader
  <1>1. ClientInv /\ [ClientNext]_all_vars => ClientInv'
    BY NextClient
  <1>2. ClientInv => SingleReader
    BY DEF ClientInv, Turns, SingleReader, MainReading, WorkerReading
  <1>3. QED
    BY <1>1, <1>2, InitClient, PTL DEF ClientSpec

(* With this client every transfer gets one outcome, before the next is      *)
(* announced, no abort is lost, and nothing follows the 221.                 *)
THEOREM ServerKeepsItsWord ==
  ASSUME MaxCommands > MaxUserCommands, MaxPipelined > MaxUserCommands
  PROVE  ClientSpec => /\ []OneVerdict /\ []VerdictBeforeNext
                       /\ []AbortNotLost /\ []NothingAfterGoodbye
  BY ClientImplements, VerdictIsUnique, OutcomeBeforeNext, AbortsStay, GoodbyeIsLast, PTL
     DEF ClientIsSession

-----------------------------------------------------------------------------
(* The conversation of client and server                                     *)

(* The server's worker is still to send its verdict.                         *)
Due == Working /\ ~suppress_current_transfer_reply

(* What is left to read: nothing, or one or two replies.                     *)
NothingUnread == Len(replies) = read
OneUnread(A) == Len(replies) = read + 1 /\ replies[read + 1].code \in A
TwoUnread(A, B) ==
  /\ Len(replies) = read + 2
  /\ replies[read + 1].code \in A /\ replies[read + 2].code \in B

Verdict == {"226", "426"}
Refusal == {"425", "503"}

(* Nothing was asked, and nothing is to come.                                *)
Idle == ~Due /\ requests = <<>> /\ control_pc = "recv" /\ NothingUnread

(* Command c is being handled by the branch of the server that ABOR or QUIT  *)
(* has to itself.                                                            *)
Handling(c) ==
  \/ c = "ABOR" /\ control_pc \in {"abort", "abort close"}
  \/ c = "QUIT" /\ control_pc \in {"quit", "quit abort", "quit close"}

(* Where the server is once it has answered c: after 221 it cleans up.       *)
Answered(c) ==
  IF c = "QUIT" THEN control_pc \in CleaningUp \cup {"cleanup"} ELSE control_pc = "recv"

(* Command c was sent, or handled, or answered with a reply of A.            *)
Asked(c, A) ==
  /\ ~Due
  /\ \/ requests = <<c>> /\ control_pc = "recv" /\ NothingUnread
     \/ requests = <<>> /\ Handling(c) /\ NothingUnread
     \/ requests = <<>> /\ control_pc = "reply" /\ pending.code \in A /\ NothingUnread
     \/ requests = <<>> /\ Answered(c) /\ OneUnread(A)

(* An abort that the server no longer carries out.                           *)
TooLate == ~Working /\ control_pc # "abort close"

(* A transfer was asked for, and was refused, or announced and perhaps       *)
(* concluded already.                                                        *)
Announcing ==
  \/ /\ ~Due
     /\ \/ (\E c \in Transfers : requests = <<c>>) /\ control_pc = "recv" /\ NothingUnread
        \/ requests = <<>> /\ control_pc = "preliminary" /\ NothingUnread
        \/ requests = <<>> /\ control_pc = "reply" /\ pending.code \in Refusal /\ NothingUnread
        \/ requests = <<>> /\ control_pc = "recv" /\ OneUnread(Refusal)
  \/ /\ requests = <<>>
     /\ \/ control_pc \in Starting /\ OneUnread({"150"})
        \/ control_pc = "recv" /\ OneUnread({"150"}) /\ Due
        \/ control_pc = "recv" /\ TwoUnread({"150"}, Verdict) /\ ~Working

(* The transfer is started, or runs, or is concluded: R are the commands     *)
(* that the server has not read.                                             *)
Running(R) ==
  /\ requests = R
  /\ \/ control_pc \in Starting /\ NothingUnread
     \/ control_pc = "recv" /\ NothingUnread /\ Due
     \/ control_pc = "recv" /\ OneUnread(Verdict) /\ ~Working

(* An ABOR follows the transfer: it is confirmed in place of the verdict, or *)
(* it finds the verdict given.                                               *)
Aborting ==
  \/ Running(<<"ABOR">>)
  \/ /\ requests = <<>> /\ NothingUnread
     /\ \/ control_pc = "abort" /\ Due
        \/ control_pc = "abort close" /\ ~Due
        \/ control_pc = "reply" /\ pending.code = "aborted" /\ ~Due
  \/ requests = <<>> /\ control_pc = "recv" /\ OneUnread({"aborted"}) /\ ~Due
  \/ /\ requests = <<>> /\ ~Working
     /\ \/ control_pc = "abort" /\ OneUnread(Verdict)
        \/ control_pc = "reply" /\ pending.code = "no transfer" /\ OneUnread(Verdict)
        \/ control_pc = "recv" /\ TwoUnread(Verdict, {"no transfer"})

(* The commands that the main thread waits for with main_pc = "reply".       *)
Simple == Queries \cup Setup \cup {"NOOP", "QUIT", "ABOR"}

(* What the connection holds, for each place of the client's two threads.    *)
Conversation ==
  /\ main_pc = "prompt" /\ client_pc = "none" => Idle
  /\ main_pc = "reply" => main_command \in Simple /\ Asked(main_command, ExpectedByMain)
  /\ main_pc = "preliminary" => main_command \in Transfers /\ Announcing
  /\ main_pc = "send abort" => client_pc \in {"data", "final", "late"} /\ abort_requested
  /\ client_pc \in {"data", "final"} =>
       IF abort_requested /\ main_pc = "prompt" THEN Aborting ELSE Running(<<>>)
  /\ client_pc = "late" =>
       /\ TooLate
       /\ IF main_pc = "prompt" THEN Asked("ABOR", {"no transfer"}) ELSE Idle
  /\ client_pc \in {"final", "late"} => drain = abort_requested
  /\ client_pc = "late" => drain
  /\ transfer_phase = "DATA" => client_pc = "data"
  /\ client_pc \in {"hash", "reset", "end"} => Idle
  /\ client_pc = "hash reply" => Asked("HASH", {"200", "503"})

(* The conversation lasts until the client leaves or the server times out.   *)
ConversationInv == main_pc # "gone" /\ ~TimedOut => Conversation

-----------------------------------------------------------------------------
(* The unread replies *)

(* A reply that is sent is the last to be read.                              *)
LEMMA Grows ==
  ASSUME Shape, connected, read \in Nat, read' = read, NEW r \in Answers, Send(r)
  PROVE  /\ \A A : NothingUnread /\ r.code \in A => OneUnread(A)'
         /\ \A A, B : OneUnread(A) /\ r.code \in B => TwoUnread(A, B)'
  <1>1. /\ Len(replies') = Len(replies) + 1 /\ replies'[Len(replies) + 1] = r
        /\ \A i \in 1..Len(replies) : replies'[i] = replies[i]
        /\ Len(replies) \in Nat
    BY AppendProperties, LenProperties DEF Shape, Send
  <1>2. ASSUME NEW A, NothingUnread, r.code \in A PROVE OneUnread(A)'
    BY <1>1, <1>2 DEF NothingUnread, OneUnread
  <1>3. ASSUME NEW A, NEW B, OneUnread(A), r.code \in B PROVE TwoUnread(A, B)'
    <2>1. read + 1 \in 1..Len(replies) /\ Len(replies) + 1 = read + 2
      BY <1>1, <1>3 DEF OneUnread
    <2>2. replies'[read + 1] = replies[read + 1] /\ replies'[read + 2] = r
      BY <1>1, <2>1
    <2> QED
      BY <1>1, <1>3, <2>1, <2>2 DEF OneUnread, TwoUnread
  <1> QED
    BY <1>2, <1>3

(* The first of them is the one that is read next.                           *)
LEMMA Reads ==
  ASSUME read \in Nat, read' = read + 1, replies' = replies
  PROVE  /\ \A A : OneUnread(A) => NextReply.code \in A /\ NothingUnread'
         /\ \A A, B : TwoUnread(A, B) => NextReply.code \in A /\ OneUnread(B)'
  <1>1. ASSUME NEW A, OneUnread(A) PROVE NextReply.code \in A /\ NothingUnread'
    BY <1>1 DEF OneUnread, NothingUnread, NextReply
  <1>2. ASSUME NEW A, NEW B, TwoUnread(A, B) PROVE NextReply.code \in A /\ OneUnread(B)'
    <2>1. read' + 1 = read + 2
      OBVIOUS
    <2> QED
      BY <1>2, <2>1 DEF OneUnread, TwoUnread, NextReply
  <1> QED
    BY <1>1, <1>2

(* Nothing becomes of them while nothing is sent or read.                    *)
LEMMA Stays ==
  ASSUME UNCHANGED <<replies, read>>
  PROVE  /\ NothingUnread' <=> NothingUnread
         /\ \A A : OneUnread(A)' <=> OneUnread(A)
         /\ \A A, B : TwoUnread(A, B)' <=> TwoUnread(A, B)
  BY DEF NothingUnread, OneUnread, TwoUnread

-----------------------------------------------------------------------------
(* What a step of the server does to the conversation *)

(* The verdict of the worker is as far away as before.                       *)
Steady == (Working' <=> Working) /\ (Due' <=> Due)

(* A step that the client cannot notice.                                     *)
Silent ==
  /\ UNCHANGED <<requests, replies, control_pc, pending>>
  /\ Due' <=> Due
  /\ ~Working => ~Working'

(* The worker sends 226 or 426.                                              *)
GivesVerdict ==
  /\ UNCHANGED <<requests, control_pc, pending>>
  /\ Due /\ ~Working' /\ ~Due'
  /\ Send(Reply(verdict, transfer_thread))

(* How a command is answered, or what is done before it is.                  *)
Dispatched(c) ==
  \/ control_pc' = "reply" /\ pending'.code = "503" /\ c \notin COMMANDS_ALLOWED_DURING_TRANSFER
  \/ control_pc' = "reply" /\ pending'.code \in {"227", "425"} /\ c \in Setup
  \/ control_pc' = "reply" /\ pending'.code = "200" /\ c \in Queries \cup {"NOOP"}
  \/ control_pc' = "reply" /\ pending'.code = "425" /\ c \in Transfers
  \/ control_pc' = "preliminary" /\ c \in Transfers
  \/ control_pc' = "abort" /\ c = "ABOR"
  \/ control_pc' = "quit" /\ c = "QUIT"

(* The next command is read.                                                 *)
Receives ==
  /\ control_pc = "recv" /\ requests # <<>> /\ requests' = Tail(requests)
  /\ Dispatched(Head(requests))
  /\ replies' = replies /\ Steady

(* The reply that was prepared is sent.                                      *)
Answering ==
  /\ control_pc = "reply" /\ Send(pending)
  /\ control_pc' = IF pending.code = "221" THEN "cleanup" ELSE "recv"
  /\ requests' = requests /\ Steady

(* 150 is sent, and the transfer is started without another reply.           *)
Announces ==
  /\ control_pc = "preliminary" /\ control_pc' = "start"
  /\ Send(Reply("150", transfers + 1))
  /\ requests' = requests /\ Steady

Starts ==
  /\ control_pc \in {"start", "start fields", "start flags"} /\ control_pc' \in Starting
  /\ UNCHANGED <<requests, replies>>

Runs ==
  /\ control_pc = "run" /\ control_pc' = "recv" /\ Due'
  /\ UNCHANGED <<requests, replies>>

(* ABOR silences the worker, or finds none that could still answer.          *)
TakesAbort ==
  /\ control_pc = "abort" /\ UNCHANGED <<requests, replies>> /\ ~Due'
  /\ \/ Working /\ control_pc' = "abort close"
     \/ ~Working /\ ~Working' /\ control_pc' = "reply" /\ pending'.code = "no transfer"

ConfirmsAbort ==
  /\ control_pc = "abort close" /\ control_pc' = "reply" /\ pending'.code = "aborted"
  /\ UNCHANGED <<requests, replies>> /\ Steady

(* QUIT and cleanup() silence the worker, and nothing follows the 221.       *)
Departs ==
  /\ UNCHANGED <<requests, replies>> /\ (Due' => Due) /\ (Working' <=> Working)
  /\ \/ control_pc \in {"quit", "quit abort"} /\ control_pc' \in {"quit abort", "quit close"}
     \/ control_pc = "quit close" /\ control_pc' = "reply" /\ pending'.code = "221"
     \/ control_pc \in CleaningUp \cup {"cleanup"} /\ control_pc' \in CleaningUp

(* What a step of the server is for the conversation.                        *)
Effect ==
  \/ Silent \/ GivesVerdict \/ Receives \/ Answering \/ Announces \/ Starts \/ Runs
  \/ TakesAbort \/ ConfirmsAbort \/ Departs

(* The server's invariants, as far as the conversation needs them.           *)
ServerInv == Shape /\ ThreadsInv /\ TransferInv /\ StatusInv

(* Every step of the server is one of these, as long as the client is there  *)
(* and the server does not time out.                                         *)
LEMMA ServerEffect ==
  ASSUME ServerInv, ServerStep, connected, ~TimedOut', Due => control_pc \in Serving
  PROVE  Effect
  <1> USE DEF streams, control_vars, worker_vars, transfer_vars, socket_vars
  <1>1. CASE ReceiveCommand
    <2>1. Receives
      <3>1. /\ Reply("503", 0).code = "503" /\ Reply("227", 0).code = "227"
            /\ Reply("425", 0).code = "425" /\ Reply("200", 0).code = "200"
        BY DEF Reply
      <3>2. Dispatched(Head(requests))
        BY <1>1, <3>1 DEF ReceiveCommand, Refused, Dispatch, Respond, Continue, Dispatched
      <3>3. Steady
        BY <1>1 DEF ReceiveCommand, Steady, Working, Due
      <3> QED
        BY <1>1, <3>2, <3>3 DEF ReceiveCommand, Receives
    <2> QED
      BY <2>1 DEF Effect
  <1>2. CASE SendReply
    <2>1. Steady
      BY <1>2 DEF SendReply, Steady, Working, Due
    <2>2. Answering
      BY <1>2, <2>1 DEF SendReply, AfterSend, Answering
    <2> QED
      BY <2>2 DEF Effect
  <1>3. CASE ControlTimeout
    <2>1. Send(Reply("421", 0)) /\ Reply("421", 0) \in Answers /\ Reply("421", 0).code = "421"
      BY <1>3, ReplyType DEF ControlTimeout, Codes
    <2>2. Len(replies) + 1 \in DOMAIN replies' /\ replies'[Len(replies) + 1] = Reply("421", 0)
      BY <2>1, AppendProperties DEF Send, Shape, ServerInv
    <2>3. TimedOut'
      BY <2>1, <2>2 DEF TimedOut
    <2> QED
      BY <2>3
  <1>4. CASE ConnectionLost
    BY <1>4 DEF ConnectionLost
  <1>5. CASE SendPreliminary
    <2>1. Steady
      BY <1>5 DEF SendPreliminary, Goto, Steady, Working, Due
    <2>2. Announces
      BY <1>5, <2>1 DEF SendPreliminary, Goto, AfterSend, Announces
    <2> QED
      BY <2>2 DEF Effect
  <1>6. CASE StartMarks
    <2>1. Starts
      BY <1>6 DEF StartMarks, Goto, Starts, Starting
    <2> QED
      BY <2>1 DEF Effect
  <1>7. CASE StartFields
    <2>1. Starts
      BY <1>7 DEF StartFields, Goto, Starts, Starting
    <2> QED
      BY <2>1 DEF Effect
  <1>8. CASE StartFlags
    <2>1. Starts
      BY <1>8 DEF StartFlags, Goto, Starts, Starting
    <2> QED
      BY <2>1 DEF Effect
  <1>9. CASE RunTransfer
    <2>1. Due'
      BY <1>9 DEF RunTransfer, Due, Working, ServerInv, StatusInv
    <2>2. Runs
      BY <1>9, <2>1 DEF RunTransfer, Runs
    <2> QED
      BY <2>2 DEF Effect
  <1>10. CASE Abort
    <2>1. /\ control_pc = "abort" /\ transfer_lock = "free"
          /\ UNCHANGED <<requests, replies, worker_pc>>
      BY <1>10 DEF Abort
    <2>2. transfer_in_progress => Working
      BY <2>1 DEF ServerInv, ThreadsInv, LockOwner, WorkerFinishing, TransferInv, Active, Working
    <2>3. Working => transfer_in_progress
      BY DEF ServerInv, ThreadsInv, MarkCoversTransfer, Working
    <2>4. CASE transfer_in_progress
      <3>1. control_pc' = "abort close" /\ suppress_current_transfer_reply'
        BY <1>10, <2>4 DEF Abort, Continue, Cancel
      <3>2. TakesAbort
        BY <2>1, <2>2, <2>4, <3>1 DEF TakesAbort, Due
      <3> QED
        BY <3>2 DEF Effect
    <2>5. CASE ~transfer_in_progress
      <3>1. control_pc' = "reply" /\ pending'.code = "no transfer"
        <4>1. Reply("no transfer", 0).code = "no transfer"
          BY DEF Reply
        <4> QED
          BY <1>10, <2>5, <4>1 DEF Abort, Respond
      <3>2. ~Working'
        BY <2>1, <2>3, <2>5 DEF Working
      <3>3. TakesAbort
        BY <2>1, <2>3, <2>5, <3>1, <3>2 DEF TakesAbort, Due
      <3> QED
        BY <3>3 DEF Effect
    <2> QED
      BY <2>4, <2>5
  <1>11. CASE AbortCloses
    <2>1. Steady
      BY <1>11 DEF AbortCloses, Steady, Working, Due
    <2>2. Reply("aborted", transfers).code = "aborted"
      BY DEF Reply
    <2>3. ConfirmsAbort
      BY <1>11, <2>1, <2>2 DEF AbortCloses, Respond, ConfirmsAbort
    <2> QED
      BY <2>3 DEF Effect
  <1>12. CASE SuppressReplies("quit", "quit abort")
    <2>1. (Due' => Due) /\ (Working' <=> Working)
      BY <1>12 DEF SuppressReplies, Goto, Working, Due
    <2>2. Departs
      BY <1>12, <2>1 DEF SuppressReplies, Goto, Departs, CleaningUp
    <2> QED
      BY <2>2 DEF Effect
  <1>13. CASE CloseAborts("quit abort", "quit close")
    <2>1. (Due' => Due) /\ (Working' <=> Working)
      BY <1>13 DEF CloseAborts, Goto, Cancel, Working, Due
    <2>2. Departs
      BY <1>13, <2>1 DEF CloseAborts, Goto, Cancel, Departs, CleaningUp
    <2> QED
      BY <2>2 DEF Effect
  <1>14. CASE QuitReplies
    <2>1. Reply("221", 0).code = "221"
      BY DEF Reply
    <2>2. UNCHANGED <<worker_pc, suppress_current_transfer_reply>>
      BY <1>14 DEF QuitReplies
    <2>3. (Due' => Due) /\ (Working' <=> Working)
      BY <2>2 DEF Working, Due
    <2>4. Departs
      BY <1>14, <2>1, <2>3 DEF QuitReplies, Respond, Departs
    <2> QED
      BY <2>4 DEF Effect
  <1>15. CASE CleanupBegins
    <2>1. (Due' => Due) /\ (Working' <=> Working)
      BY <1>15 DEF CleanupBegins, Working, Due
    <2>2. Departs
      BY <1>15, <2>1 DEF CleanupBegins, Departs, CleaningUp
    <2> QED
      BY <2>2 DEF Effect
  <1>16. CASE SuppressReplies("cleanup suppress", "cleanup abort")
    <2>1. (Due' => Due) /\ (Working' <=> Working)
      BY <1>16 DEF SuppressReplies, Goto, Working, Due
    <2>2. Departs
      BY <1>16, <2>1 DEF SuppressReplies, Goto, Departs, CleaningUp
    <2> QED
      BY <2>2 DEF Effect
  <1>17. CASE CloseAborts("cleanup abort", "cleanup close")
    <2>1. (Due' => Due) /\ (Working' <=> Working)
      BY <1>17 DEF CloseAborts, Goto, Cancel, Working, Due
    <2>2. Departs
      BY <1>17, <2>1 DEF CloseAborts, Goto, Cancel, Departs, CleaningUp
    <2> QED
      BY <2>2 DEF Effect
  <1>18. CASE CleanupClosesSocket
    <2>1. (Due' => Due) /\ (Working' <=> Working)
      BY <1>18 DEF CleanupClosesSocket, Goto, CloseSocket, Working, Due
    <2>2. Departs
      BY <1>18, <2>1 DEF CleanupClosesSocket, Goto, CloseSocket, Departs, CleaningUp
    <2> QED
      BY <2>2 DEF Effect
  <1>19. CASE CleanupJoins
    <2>1. (Due' => Due) /\ (Working' <=> Working)
      BY <1>19 DEF CleanupJoins, Goto, Working, Due
    <2>2. Departs
      BY <1>19, <2>1 DEF CleanupJoins, Goto, Departs, CleaningUp
    <2> QED
      BY <2>2 DEF Effect
  <1>20. CASE CleanupDrops
    <2>1. (Due' => Due) /\ (Working' <=> Working)
      BY <1>20 DEF CleanupDrops, Goto, Working, Due
    <2>2. Departs
      BY <1>20, <2>1 DEF CleanupDrops, Goto, Departs, CleaningUp
    <2> QED
      BY <2>2 DEF Effect
  <1>21. CASE CleanupEnds
    <2>1. /\ UNCHANGED <<requests, replies, worker_pc>>
          /\ control_pc = "finish" /\ control_pc' = "closed"
      BY <1>21 DEF CleanupEnds, Goto
    <2>2. (Due' => Due) /\ (Working' <=> Working)
      BY <1>21, <2>1 DEF CleanupEnds, Goto, WorkerAlive, Working, Due,
         ServerInv, ThreadsInv, CleanupKnowsWorker, CleaningUp, WorkerRuns
    <2>3. Departs
      BY <2>1, <2>2 DEF Departs, CleaningUp
    <2> QED
      BY <2>3 DEF Effect
  <1>22. CASE WorkerOpens
    <2>1. (Due' <=> Due) /\ (~Working => ~Working')
      BY <1>22 DEF WorkerOpens, WorkerGoto, Working, Due
    <2>2. Silent
      BY <1>22, <2>1 DEF WorkerOpens, WorkerGoto, Silent
    <2> QED
      BY <2>2 DEF Effect
  <1>23. CASE WorkerCannotOpen
    <2>1. (Due' <=> Due) /\ (~Working => ~Working')
      BY <1>23 DEF WorkerCannotOpen, WorkerGoto, Working, Due
    <2>2. Silent
      BY <1>23, <2>1 DEF WorkerCannotOpen, WorkerGoto, Silent
    <2> QED
      BY <2>2 DEF Effect
  <1>24. CASE WorkerCompletes
    <2>1. (Due' <=> Due) /\ (~Working => ~Working')
      BY <1>24 DEF WorkerCompletes, WorkerGoto, Working, Due
    <2>2. Silent
      BY <1>24, <2>1 DEF WorkerCompletes, WorkerGoto, Silent
    <2> QED
      BY <2>2 DEF Effect
  <1>25. CASE WorkerFails
    <2>1. (Due' <=> Due) /\ (~Working => ~Working')
      BY <1>25 DEF WorkerFails, WorkerGoto, Working, Due
    <2>2. Silent
      BY <1>25, <2>1 DEF WorkerFails, WorkerGoto, Silent
    <2> QED
      BY <2>2 DEF Effect
  <1>26. CASE WorkerUnregisters
    <2>1. (Due' <=> Due) /\ (~Working => ~Working')
      BY <1>26 DEF WorkerUnregisters, WorkerGoto, Working, Due
    <2>2. Silent
      BY <1>26, <2>1 DEF WorkerUnregisters, WorkerGoto, Silent
    <2> QED
      BY <2>2 DEF Effect
  <1>27. CASE WorkerStores
    <2>1. (Due' <=> Due) /\ (~Working => ~Working')
      BY <1>27 DEF WorkerStores, WorkerGoto, Working, Due
    <2>2. Silent
      BY <1>27, <2>1 DEF WorkerStores, WorkerGoto, Silent
    <2> QED
      BY <2>2 DEF Effect
  <1>28. CASE WorkerLocks
    <2>1. (Due' <=> Due) /\ (~Working => ~Working')
      BY <1>28 DEF WorkerLocks, WorkerGoto, Working, Due
    <2>2. Silent
      BY <1>28, <2>1 DEF WorkerLocks, WorkerGoto, Silent
    <2> QED
      BY <2>2 DEF Effect
  <1>29. CASE WorkerReplies
    <2>1. /\ UNCHANGED <<requests, control_pc, pending>>
          /\ worker_pc = "verdict" /\ worker_pc' = "finish"
      BY <1>29 DEF WorkerReplies, WorkerGoto
    <2>2. ~Working' /\ ~Due'
      BY <2>1 DEF Working, Due
    <2>3. CASE Due
      <3>1. ~suppress_current_transfer_reply /\ ~suppress_transfer_reply /\ control_conn
        BY <2>3 DEF Due, ServerInv, TransferInv
      <3>2. Send(Reply(verdict, transfer_thread))
        BY <1>29, <3>1 DEF WorkerReplies
      <3>3. GivesVerdict
        BY <2>1, <2>2, <2>3, <3>2 DEF GivesVerdict
      <3> QED
        BY <3>3 DEF Effect
    <2>4. CASE ~Due
      <3>1. suppress_current_transfer_reply
        BY <2>1, <2>4 DEF Due, Working
      <3>2. replies' = replies
        BY <1>29, <3>1 DEF WorkerReplies
      <3>3. Silent
        BY <2>1, <2>2, <2>4, <3>2 DEF Silent
      <3> QED
        BY <3>3 DEF Effect
    <2> QED
      BY <2>3, <2>4
  <1>30. CASE FinishUnmarks
    <2>1. (Due' <=> Due) /\ (~Working => ~Working')
      BY <1>30 DEF FinishUnmarks, WorkerGoto, Working, Due
    <2>2. Silent
      BY <1>30, <2>1 DEF FinishUnmarks, WorkerGoto, Silent
    <2> QED
      BY <2>2 DEF Effect
  <1>31. CASE FinishFields
    <2>1. (Due' <=> Due) /\ (~Working => ~Working')
      BY <1>31 DEF FinishFields, WorkerGoto, Working, Due
    <2>2. Silent
      BY <1>31, <2>1 DEF FinishFields, WorkerGoto, Silent
    <2> QED
      BY <2>2 DEF Effect
  <1>32. CASE FinishFlags
    <2>1. (Due' <=> Due) /\ (~Working => ~Working')
      BY <1>32 DEF FinishFlags, WorkerGoto, Working, Due
    <2>2. Silent
      BY <1>32, <2>1 DEF FinishFlags, WorkerGoto, Silent
    <2> QED
      BY <2>2 DEF Effect
  <1> QED
    BY <1>1, <1>2, <1>3, <1>4, <1>5, <1>6, <1>7, <1>8, <1>9, <1>10, <1>11,
       <1>12, <1>13, <1>14, <1>15, <1>16, <1>17, <1>18, <1>19, <1>20, <1>21,
       <1>22, <1>23, <1>24, <1>25, <1>26, <1>27, <1>28, <1>29, <1>30, <1>31,
       <1>32
       DEF ServerStep, ControlStep, ControlRuns, WorkerStep, Quit, Cleanup

-----------------------------------------------------------------------------
(* The conversation stays what it is in the steps of the server *)

(* What is still due comes from a worker, and none runs while another        *)
(* transfer is started.                                                      *)
LEMMA DueWorks ==
  ASSUME ThreadsInv
  PROVE  /\ ~Working => ~Due
         /\ control_pc \in Starting \cup {"preliminary"} => ~Working
  BY DEF ThreadsInv, StartAfterUnmark, Working, Due

(* A stream of one command.                                                  *)
LEMMA OneCommand ==
  ASSUME NEW c
  PROVE  <<c>> # <<>> /\ Head(<<c>>) = c /\ Tail(<<c>>) = <<>>
  OBVIOUS

(* The server of an idle client stays idle.                                  *)
LEMMA IdleStays ==
  ASSUME Effect, read' = read, Idle
  PROVE  Idle' /\ (TooLate => TooLate')
  <1>1. ~Due /\ requests = <<>> /\ control_pc = "recv" /\ NothingUnread
    BY DEF Idle
  <1>2. Silent
    BY <1>1 DEF Effect, GivesVerdict, Receives, Answering, Announces, Starts, Runs,
       TakesAbort, ConfirmsAbort, Departs, Starting, CleaningUp
  <1>3. NothingUnread'
    BY <1>1, <1>2, Stays DEF Silent
  <1> QED
    BY <1>1, <1>2, <1>3 DEF Idle, Silent, TooLate

(* The codes of A answer command c.                                          *)
Suits(c, A) ==
  /\ c \in Simple
  /\ c \in Setup => {"227", "425", "503"} \subseteq A
  /\ c \in Queries => {"200", "503"} \subseteq A
  /\ c = "NOOP" => "200" \in A
  /\ c = "ABOR" => "no transfer" \in A /\ ("aborted" \in A \/ TooLate)
  /\ c = "QUIT" => A = {"221"}
  /\ c # "QUIT" => "221" \notin A

(* A command that was sent is handled and answered.                          *)
LEMMA AskedStays ==
  ASSUME ServerInv, Effect, connected, read \in Nat, read' = read,
         NEW c, NEW A, Suits(c, A), Asked(c, A)
  PROVE  Asked(c, A)' /\ (TooLate => TooLate')
  <1>1. ~Due
    BY DEF Asked
  <1>2. CASE Silent
    <2>1. Due' <=> Due
      BY <1>2 DEF Silent
    <2>2. /\ NothingUnread' <=> NothingUnread
          /\ OneUnread(A)' <=> OneUnread(A)
      BY <1>2, Stays DEF Silent
    <2>3. UNCHANGED <<requests, control_pc, pending>> /\ (~Working => ~Working')
      BY <1>2 DEF Silent
    <2> QED
      BY <1>1, <2>1, <2>2, <2>3 DEF Asked, Handling, Answered, TooLate
  <1>3. CASE GivesVerdict
    BY <1>1, <1>3 DEF GivesVerdict
  <1>4. CASE Receives
    <2>1. requests = <<c>> /\ NothingUnread
      BY <1>4 DEF Receives, Asked, Handling
    <2>2. requests' = <<>> /\ Dispatched(c) /\ replies' = replies /\ Steady
      BY <1>4, <2>1, OneCommand DEF Receives
    <2>3. NothingUnread'
      BY <2>1, <2>2, Stays
    <2>4. \/ control_pc' = "reply" /\ pending'.code \in A
          \/ control_pc' = "abort" /\ c = "ABOR"
          \/ control_pc' = "quit" /\ c = "QUIT"
      BY <2>2 DEF Dispatched, Suits, Simple, Setup, Queries, Transfers,
         COMMANDS_ALLOWED_DURING_TRANSFER
    <2> QED
      BY <1>1, <2>2, <2>3, <2>4 DEF Asked, Handling, Steady, TooLate
  <1>5. CASE Answering
    <2>1. requests = <<>> /\ pending.code \in A /\ NothingUnread
      BY <1>5 DEF Answering, Asked, Handling, Answered, CleaningUp
    <2>2. pending \in Answers /\ Send(pending)
      BY <1>5 DEF Answering, ServerInv, Shape
    <2>3. OneUnread(A)'
      BY <2>1, <2>2, Grows DEF ServerInv
    <2>4. Answered(c)'
      BY <1>5, <2>1 DEF Answering, Suits, Answered
    <2> QED
      BY <1>1, <1>5, <2>1, <2>3, <2>4 DEF Answering, Asked, Steady, TooLate
  <1>6. CASE Announces \/ Starts \/ Runs
    BY <1>6 DEF Announces, Starts, Runs, Asked, Handling, Answered, CleaningUp
  <1>7. CASE TakesAbort
    <2>1. requests = <<>> /\ c = "ABOR" /\ NothingUnread
      BY <1>7 DEF TakesAbort, Asked, Handling, Answered, CleaningUp
    <2>2. NothingUnread'
      BY <1>7, <2>1, Stays DEF TakesAbort
    <2> QED
      BY <1>7, <2>1, <2>2 DEF TakesAbort, Asked, Handling, Suits, TooLate
  <1>8. CASE ConfirmsAbort
    <2>1. requests = <<>> /\ c = "ABOR" /\ NothingUnread
      BY <1>8 DEF ConfirmsAbort, Asked, Handling, Answered, CleaningUp
    <2>2. NothingUnread'
      BY <1>8, <2>1, Stays DEF ConfirmsAbort
    <2>3. ~TooLate
      BY <1>8 DEF ConfirmsAbort, TooLate
    <2> QED
      BY <1>1, <1>8, <2>1, <2>2, <2>3 DEF ConfirmsAbort, Asked, Suits, Steady
  <1>9. CASE Departs
    <2>1. requests = <<>> /\ c = "QUIT"
      BY <1>9 DEF Departs, Asked, Handling, Answered, CleaningUp
    <2>2. /\ NothingUnread' <=> NothingUnread
          /\ OneUnread(A)' <=> OneUnread(A)
      BY <1>9, Stays DEF Departs
    <2>3. ~Due' /\ requests' = <<>> /\ (TooLate => TooLate')
      BY <1>1, <1>9, <2>1 DEF Departs, TooLate, CleaningUp
    <2>4. CASE control_pc \in CleaningUp \cup {"cleanup"}
      <3>1. OneUnread(A) /\ control_pc' \in CleaningUp
        BY <1>9, <2>1, <2>4 DEF Departs, Asked, Handling, CleaningUp
      <3> QED
        BY <2>1, <2>2, <2>3, <3>1 DEF Asked, Answered
    <2>5. CASE control_pc \in {"quit", "quit abort", "quit close"}
      <3>1. NothingUnread
        BY <2>1, <2>5 DEF Asked, Answered, CleaningUp
      <3>2. \/ control_pc' \in {"quit abort", "quit close"}
            \/ control_pc' = "reply" /\ pending'.code = "221"
        BY <1>9, <2>5 DEF Departs, CleaningUp
      <3> QED
        BY <2>1, <2>2, <2>3, <3>1, <3>2 DEF Asked, Handling, Suits
    <2> QED
      BY <1>9, <2>4, <2>5 DEF Departs
  <1> QED
    BY <1>2, <1>3, <1>4, <1>5, <1>6, <1>7, <1>8, <1>9 DEF Effect

(* A transfer that was asked for is refused, or announced.                   *)
LEMMA AnnouncingStays ==
  ASSUME ServerInv, Effect, connected, read \in Nat, read' = read, Announcing
  PROVE  Announcing'
  <1>1. /\ ~Working => ~Due
        /\ control_pc \in Starting \cup {"preliminary"} => ~Working
    BY DueWorks DEF ServerInv
  <1>2. CASE Silent
    <2>1. /\ Due' <=> Due
          /\ ~Working => ~Working'
          /\ UNCHANGED <<requests, control_pc, pending>>
      BY <1>2 DEF Silent
    <2>2. /\ NothingUnread' <=> NothingUnread
          /\ OneUnread({"150"})' <=> OneUnread({"150"})
          /\ OneUnread(Refusal)' <=> OneUnread(Refusal)
          /\ TwoUnread({"150"}, Verdict)' <=> TwoUnread({"150"}, Verdict)
      BY <1>2, Stays DEF Silent
    <2> QED
      BY <2>1, <2>2 DEF Announcing
  <1>3. CASE GivesVerdict
    <2>1. requests = <<>> /\ control_pc = "recv" /\ OneUnread({"150"})
      BY <1>1, <1>3 DEF GivesVerdict, Announcing
    <2>2. TwoUnread({"150"}, Verdict)'
      BY <1>3, <2>1, Grows, VerdictReply DEF GivesVerdict, ServerInv, Verdict
    <2> QED
      BY <1>3, <2>1, <2>2 DEF GivesVerdict, Announcing
  <1>4. CASE Receives
    <2>1. PICK c \in Transfers : requests = <<c>> /\ NothingUnread /\ ~Due
      BY <1>4 DEF Receives, Announcing, Starting
    <2>2. requests' = <<>> /\ Dispatched(c) /\ replies' = replies /\ Steady
      BY <1>4, <2>1, OneCommand DEF Receives
    <2>3. NothingUnread'
      BY <2>1, <2>2, Stays
    <2>4. \/ control_pc' = "reply" /\ pending'.code \in Refusal
          \/ control_pc' = "preliminary"
      BY <2>1, <2>2 DEF Dispatched, Setup, Queries, Transfers, Refusal
    <2> QED
      BY <2>1, <2>2, <2>3, <2>4 DEF Announcing, Steady
  <1>5. CASE Answering
    <2>1. requests = <<>> /\ pending.code \in Refusal /\ NothingUnread /\ ~Due
      BY <1>5 DEF Answering, Announcing, Starting
    <2>2. pending \in Answers /\ Send(pending)
      BY <1>5 DEF Answering, ServerInv, Shape
    <2>3. OneUnread(Refusal)'
      BY <2>1, <2>2, Grows DEF ServerInv
    <2>4. control_pc' = "recv"
      BY <1>5, <2>1 DEF Answering, Refusal
    <2> QED
      BY <1>5, <2>1, <2>3, <2>4 DEF Answering, Announcing, Steady
  <1>6. CASE Announces
    <2>1. requests = <<>> /\ NothingUnread
      BY <1>6 DEF Announces, Announcing, Starting
    <2>2. OneUnread({"150"})'
      BY <1>6, <2>1, Grows, PreliminaryReply DEF Announces, ServerInv
    <2> QED
      BY <1>6, <2>1, <2>2 DEF Announces, Announcing, Starting
  <1>7. CASE Starts
    <2>1. requests = <<>> /\ OneUnread({"150"})
      BY <1>7 DEF Starts, Announcing
    <2>2. OneUnread({"150"})'
      BY <1>7, <2>1, Stays DEF Starts
    <2> QED
      BY <1>7, <2>1, <2>2 DEF Starts, Announcing
  <1>8. CASE Runs
    <2>1. requests = <<>> /\ OneUnread({"150"})
      BY <1>8 DEF Runs, Announcing
    <2>2. OneUnread({"150"})'
      BY <1>8, <2>1, Stays DEF Runs
    <2> QED
      BY <1>8, <2>1, <2>2 DEF Runs, Announcing
  <1>9. CASE TakesAbort \/ ConfirmsAbort \/ Departs
    BY <1>9 DEF TakesAbort, ConfirmsAbort, Departs, Announcing, Starting, CleaningUp
  <1> QED
    BY <1>2, <1>3, <1>4, <1>5, <1>6, <1>7, <1>8, <1>9 DEF Effect

(* A transfer that was announced runs and is concluded.                      *)
LEMMA RunningStays ==
  ASSUME ServerInv, Effect, connected, read \in Nat, read' = read, NEW R, Running(R)
  PROVE  Running(R)' \/ Receives
  <1>1. /\ ~Working => ~Due
        /\ control_pc \in Starting \cup {"preliminary"} => ~Working
    BY DueWorks DEF ServerInv
  <1>2. CASE Silent
    <2>1. /\ Due' <=> Due
          /\ ~Working => ~Working'
          /\ UNCHANGED <<requests, control_pc, pending>>
      BY <1>2 DEF Silent
    <2>2. /\ NothingUnread' <=> NothingUnread
          /\ OneUnread(Verdict)' <=> OneUnread(Verdict)
      BY <1>2, Stays DEF Silent
    <2> QED
      BY <2>1, <2>2 DEF Running
  <1>3. CASE GivesVerdict
    <2>1. requests = R /\ control_pc = "recv" /\ NothingUnread
      BY <1>1, <1>3 DEF GivesVerdict, Running
    <2>2. OneUnread(Verdict)'
      BY <1>3, <2>1, Grows, VerdictReply DEF GivesVerdict, ServerInv, Verdict
    <2> QED
      BY <1>3, <2>1, <2>2 DEF GivesVerdict, Running
  <1>4. CASE Starts
    <2>1. NothingUnread
      BY <1>4 DEF Starts, Running
    <2>2. NothingUnread'
      BY <1>4, <2>1, Stays DEF Starts
    <2> QED
      BY <1>4, <2>2 DEF Starts, Running
  <1>5. CASE Runs
    <2>1. NothingUnread
      BY <1>5 DEF Runs, Running
    <2>2. NothingUnread'
      BY <1>5, <2>1, Stays DEF Runs
    <2> QED
      BY <1>5, <2>2 DEF Runs, Running
  <1>6. CASE Answering \/ Announces \/ TakesAbort \/ ConfirmsAbort \/ Departs
    BY <1>6 DEF Answering, Announces, TakesAbort, ConfirmsAbort, Departs, Running, Starting,
       CleaningUp
  <1> QED
    BY <1>2, <1>3, <1>4, <1>5, <1>6 DEF Effect

(* The ABOR that follows a transfer is confirmed in place of its verdict, or *)
(* answered after it.                                                        *)
LEMMA AbortingStays ==
  ASSUME ServerInv, Effect, connected, read \in Nat, read' = read, Aborting
  PROVE  Aborting'
  <1>1. ~Working => ~Due
    BY DueWorks DEF ServerInv
  <1>2. CASE Running(<<"ABOR">>)
    <2>1. CASE Running(<<"ABOR">>)'
      BY <2>1 DEF Aborting
    <2>2. CASE Receives
      <3>1. requests = <<"ABOR">> /\ control_pc = "recv"
        BY <1>2, <2>2 DEF Running, Receives
      <3>2. requests' = <<>> /\ Dispatched("ABOR") /\ replies' = replies /\ Steady
        BY <2>2, <3>1, OneCommand DEF Receives
      <3>3. control_pc' = "abort"
        BY <3>2 DEF Dispatched, Setup, Queries, Transfers, COMMANDS_ALLOWED_DURING_TRANSFER
      <3>4. /\ NothingUnread' <=> NothingUnread
            /\ OneUnread(Verdict)' <=> OneUnread(Verdict)
        BY <3>2, Stays
      <3>5. (NothingUnread /\ Due) \/ (OneUnread(Verdict) /\ ~Working)
        BY <1>2, <3>1 DEF Running, Starting
      <3> QED
        BY <3>2, <3>3, <3>4, <3>5 DEF Aborting, Steady
    <2> QED
      BY <1>2, <2>1, <2>2, RunningStays
  <1>3. CASE ~Running(<<"ABOR">>)
    <2>1. requests = <<>> /\ control_pc \in {"abort", "abort close", "reply", "recv"}
      BY <1>3 DEF Aborting
    <2>2. CASE Silent
      <3>1. /\ Due' <=> Due
            /\ ~Working => ~Working'
            /\ UNCHANGED <<requests, control_pc, pending>>
        BY <2>2 DEF Silent
      <3>2. /\ NothingUnread' <=> NothingUnread
            /\ OneUnread(Verdict)' <=> OneUnread(Verdict)
            /\ OneUnread({"aborted"})' <=> OneUnread({"aborted"})
            /\ TwoUnread(Verdict, {"no transfer"})' <=> TwoUnread(Verdict, {"no transfer"})
        BY <2>2, Stays DEF Silent
      <3> QED
        BY <1>3, <3>1, <3>2 DEF Aborting
    <2>3. CASE GivesVerdict
      <3>1. control_pc = "abort" /\ NothingUnread
        BY <1>1, <1>3, <2>3 DEF GivesVerdict, Aborting
      <3>2. OneUnread(Verdict)'
        BY <2>3, <3>1, Grows, VerdictReply DEF GivesVerdict, ServerInv, Verdict
      <3> QED
        BY <2>1, <2>3, <3>1, <3>2 DEF GivesVerdict, Aborting
    <2>4. CASE Answering
      <3>1. pending \in Answers /\ Send(pending) /\ control_pc = "reply"
        BY <2>4 DEF Answering, ServerInv, Shape
      <3>2. CASE pending.code = "aborted" /\ NothingUnread /\ ~Due
        <4>1. OneUnread({"aborted"})'
          BY <3>1, <3>2, Grows DEF ServerInv
        <4> QED
          BY <2>1, <2>4, <3>2, <4>1 DEF Answering, Aborting, Steady
      <3>3. CASE pending.code = "no transfer" /\ OneUnread(Verdict) /\ ~Working
        <4>1. TwoUnread(Verdict, {"no transfer"})'
          BY <3>1, <3>3, Grows DEF ServerInv
        <4> QED
          BY <2>1, <2>4, <3>3, <4>1 DEF Answering, Aborting, Steady
      <3> QED
        BY <1>3, <3>1, <3>2, <3>3 DEF Aborting
    <2>5. CASE TakesAbort
      <3>1. /\ NothingUnread' <=> NothingUnread
            /\ OneUnread(Verdict)' <=> OneUnread(Verdict)
        BY <2>5, Stays DEF TakesAbort
      <3>2. (Due /\ NothingUnread) \/ (~Working /\ OneUnread(Verdict))
        BY <1>3, <2>5 DEF TakesAbort, Aborting
      <3> QED
        BY <1>1, <2>1, <2>5, <3>1, <3>2 DEF TakesAbort, Aborting
    <2>6. CASE ConfirmsAbort
      <3>1. NothingUnread /\ ~Due
        BY <1>3, <2>6 DEF ConfirmsAbort, Aborting
      <3>2. NothingUnread'
        BY <2>6, <3>1, Stays DEF ConfirmsAbort
      <3> QED
        BY <2>1, <2>6, <3>1, <3>2 DEF ConfirmsAbort, Aborting, Steady
    <2>7. CASE Receives \/ Announces \/ Starts \/ Runs \/ Departs
      BY <2>1, <2>7 DEF Receives, Announces, Starts, Runs, Departs, CleaningUp
    <2> QED
      BY <2>2, <2>3, <2>4, <2>5, <2>6, <2>7 DEF Effect
  <1> QED
    BY <1>2, <1>3

-----------------------------------------------------------------------------
(* The state of the client *)

(* The client's variables; it has read no more than was sent.                *)
ClientFields ==
  /\ main_command \in Commands
  /\ client_pc \in {"none", "data", "final", "late", "hash", "hash reply", "reset", "end"}
  /\ read \in Nat /\ read <= Len(replies)
  /\ client_mode \in {"NONE", "SET"}
  /\ transfer_phase \in {"none", "DATA", "FINALIZING"}
  /\ abort_requested \in BOOLEAN /\ drain \in BOOLEAN /\ data_ok \in BOOLEAN

(* The client starts with nothing read.                                      *)
LEMMA InitFields == ClientInit => ClientFields
  <1> SUFFICES ASSUME ClientInit PROVE ClientFields
    OBVIOUS
  <1>1. replies = <<>> /\ read = 0 /\ Len(<<>>) = 0
    BY DEF ClientInit, Init
  <1>2. read \in Nat /\ read <= Len(replies)
    BY <1>1
  <1>3. main_command \in Commands
    BY DEF ClientInit, Commands, COMMANDS_ALLOWED_DURING_TRANSFER
  <1> QED
    BY <1>2, <1>3 DEF ClientInit, ClientFields

(* What was sent stays to be read.                                           *)
LEMMA RepliesGrow ==
  ASSUME Shape, ThreadsInv, [Next]_vars
  PROVE  /\ Len(replies) \in Nat /\ Len(replies') \in Nat /\ Len(replies) <= Len(replies')
         /\ TimedOut => TimedOut'
  <1>1. \A i \in DOMAIN replies : i \in DOMAIN replies' /\ replies'[i] = replies[i]
    BY SentStays
  <1>2. replies \in Seq(Answers) /\ replies' \in Seq(Answers)
    BY NextShape DEF Shape
  <1>3. /\ Len(replies) \in Nat /\ DOMAIN replies = 1..Len(replies)
        /\ Len(replies') \in Nat /\ DOMAIN replies' = 1..Len(replies')
    BY <1>2, LenProperties
  <1>4. Len(replies) <= Len(replies')
    <2>1. CASE Len(replies) = 0
      BY <1>3, <2>1
    <2>2. CASE Len(replies) # 0
      <3>1. Len(replies) \in 1..Len(replies)
        BY <1>3, <2>2
      <3>2. Len(replies) \in 1..Len(replies')
        BY <1>1, <1>3, <3>1
      <3> QED
        BY <1>3, <3>2
    <2> QED
      BY <2>1, <2>2
  <1> QED
    BY <1>1, <1>3, <1>4 DEF TimedOut

(* Every step keeps the client's variables what they are.                    *)
LEMMA NextFieldsOfClient ==
  ASSUME ClientFields, Shape, ThreadsInv, [Next]_vars, [ClientNext]_all_vars
  PROVE  ClientFields'
  <1>sent. Len(replies) \in Nat /\ Len(replies') \in Nat /\ Len(replies) <= Len(replies')
    BY RepliesGrow
  <1>read. read \in Nat /\ read <= Len(replies)
    BY DEF ClientFields
  <1>1. ASSUME read' = read
        PROVE  read' \in Nat /\ read' <= Len(replies')
    BY <1>sent, <1>read, <1>1
  <1>2. ASSUME ReadReply
        PROVE  read' \in Nat /\ read' <= Len(replies')
    BY <1>sent, <1>read, <1>2 DEF ReadReply, ReplyReady
  <1> USE DEF ClientFields, streams, main_vars, context_vars, client_worker_vars
  <1>3. CASE ServerStep /\ UNCHANGED client_vars
    BY <1>1, <1>3 DEF client_vars
  <1>4. ASSUME NEW c \in Commands, TypeSimple(c) PROVE ClientFields'
    <2>1. read' = read
      BY <1>4 DEF TypeSimple, Typed, SendCommand
    <2> QED
      BY <1>1, <1>4, <2>1 DEF TypeSimple, Typed
  <1>5. ASSUME NEW c \in Commands, TypeTransfer(c) PROVE ClientFields'
    <2>1. read' = read
      BY <1>5 DEF TypeTransfer, Typed, SendCommand
    <2> QED
      BY <1>1, <1>5, <2>1 DEF TypeTransfer, Typed
  <1>6. CASE RequestAbort
    BY <1>1, <1>6 DEF RequestAbort
  <1>7. CASE SendAbort
    BY <1>1, <1>7 DEF SendAbort, SendCommand
  <1>8. CASE MainReadsReply
    BY <1>2, <1>8 DEF MainReadsReply
  <1>9. CASE MainReadsPreliminary
    BY <1>2, <1>9 DEF MainReadsPreliminary
  <1>10. CASE MainReadsGoodbye
    <2>1. read' \in Nat /\ read' <= Len(replies')
      <3> HIDE DEF ClientFields
      <3> QED
        BY <1>sent, <1>read, <1>10 DEF MainReadsGoodbye, ReplyReady, Leave
    <2> QED
      BY <1>10, <2>1 DEF MainReadsGoodbye, Leave
  <1>11. CASE MainLosesConnection
    BY <1>1, <1>11 DEF MainLosesConnection, Leave
  <1>12. CASE ClientLeaves
    BY <1>1, <1>12 DEF ClientLeaves, Leave
  <1>13. CASE DataPhaseEnds
    BY <1>1, <1>13 DEF DataPhaseEnds
  <1>14. CASE DataSocketRaises
    BY <1>1, <1>14 DEF DataSocketRaises
  <1>15. CASE ReadFinalReply
    BY <1>2, <1>15 DEF ReadFinalReply, AfterFinal
  <1>16. CASE ReadLateAbortReply
    BY <1>2, <1>16 DEF ReadLateAbortReply, AfterFinal
  <1>17. CASE SendHash
    BY <1>1, <1>17 DEF SendHash, SendCommand
  <1>18. CASE ReadHashReply
    BY <1>2, <1>18 DEF ReadHashReply
  <1>19. CASE WorkerLosesConnection
    BY <1>1, <1>19 DEF WorkerLosesConnection
  <1>20. CASE WorkerResets
    BY <1>1, <1>20 DEF WorkerResets
  <1>21. CASE WorkerEnds
    BY <1>1, <1>21 DEF WorkerEnds
  <1>22. CASE UNCHANGED all_vars
    BY <1>1, <1>22 DEF all_vars, client_vars
  <1> QED
    BY <1>3, <1>4, <1>5, <1>6, <1>7, <1>8, <1>9, <1>10, <1>11, <1>12, <1>13, <1>14, <1>15,
       <1>16, <1>17, <1>18, <1>19, <1>20, <1>21, <1>22
       DEF ClientNext, UserStep, MainStep, ClientWorkerStep

-----------------------------------------------------------------------------
(* The conversation in the steps of the server *)

(* The answers that the main thread expects are those of its command.        *)
LEMMA MainExpects ==
  ASSUME main_pc = "reply", main_command \in Simple
  PROVE  Suits(main_command, ExpectedByMain)
  <1>1. CASE main_command \in Setup
    BY <1>1 DEF Suits, ExpectedByMain, Simple, Setup, Queries
  <1>2. CASE main_command \in Queries
    BY <1>2 DEF Suits, ExpectedByMain, Simple, Setup, Queries
  <1>3. CASE main_command = "NOOP"
    BY <1>3 DEF Suits, ExpectedByMain, Simple, Setup, Queries
  <1>4. CASE main_command = "ABOR"
    BY <1>4 DEF Suits, ExpectedByMain, Simple, Setup, Queries
  <1>5. CASE main_command = "QUIT"
    BY <1>5 DEF Suits, ExpectedByMain, Simple, Setup, Queries
  <1> QED
    BY <1>1, <1>2, <1>3, <1>4, <1>5 DEF Simple

(* The worker expects the answer of its HASH, and of an ABOR that is late.   *)
LEMMA WorkerExpects ==
  /\ Suits("HASH", {"200", "503"})
  /\ TooLate => Suits("ABOR", {"no transfer"})
  BY DEF Suits, Simple, Setup, Queries

(* A command of the main thread, from a fixed one.                           *)
LEMMA MainAsked ==
  ASSUME NEW c, NEW A, Asked(c, A)', main_command' = c, ExpectedByMain' = A
  PROVE  Asked(main_command, ExpectedByMain)'
  BY DEF Asked, Handling, Answered, OneUnread

(* While the verdict is due the server still reads commands.                 *)
LEMMA DueServes ==
  ASSUME Conversation, Turns, ClientFields, main_pc # "gone", Due
  PROVE  control_pc \in Serving
  <1>1. ~Idle /\ \A c, A : ~Asked(c, A)
    BY DEF Idle, Asked
  <1>2. Announcing => control_pc \in Serving
    BY DEF Announcing, Serving
  <1>3. \A R : Running(R) => control_pc \in Serving
    BY DEF Running, Serving
  <1>4. Aborting => control_pc \in Serving
    <2>1. Working
      BY DEF Due
    <2> QED
      BY <1>3, <2>1 DEF Aborting, Serving
  <1>5. main_pc \in {"prompt", "reply", "preliminary", "send abort"}
    BY DEF Turns
  <1>6. client_pc \in {"none", "data", "final", "late", "hash", "hash reply", "reset", "end"}
    BY DEF ClientFields
  <1> QED
    BY <1>1, <1>2, <1>3, <1>4, <1>5, <1>6 DEF Conversation

(* The server keeps its part of the conversation.                            *)
LEMMA ServerConverses ==
  ASSUME Conversation, Turns, ClientFields, ServerInv, main_pc # "gone",
         ServerStep, UNCHANGED client_vars, ~TimedOut'
  PROVE  Conversation'
  <1>1. connected
    BY DEF Turns
  <1>2. Effect
    BY <1>1, ServerEffect, DueServes
  <1>3. UNCHANGED <<main_pc, main_command, client_pc, read, transfer_phase, abort_requested, drain>>
    BY DEF client_vars, main_vars, client_worker_vars, context_vars
  <1>4. read \in Nat
    BY DEF ClientFields
  <1>5. Idle => Idle' /\ (TooLate => TooLate')
    BY <1>2, <1>3, IdleStays
  <1>6. Announcing => Announcing'
    BY <1>1, <1>2, <1>3, <1>4, AnnouncingStays
  <1>7. Running(<<>>) => Running(<<>>)'
    <2>1. Running(<<>>) => ~Receives
      BY DEF Running, Receives
    <2> QED
      BY <1>1, <1>2, <1>3, <1>4, <2>1, RunningStays
  <1>8. Aborting => Aborting'
    BY <1>1, <1>2, <1>3, <1>4, AbortingStays
  <1>9. \A c, A : Suits(c, A) /\ Asked(c, A) => Asked(c, A)' /\ (TooLate => TooLate')
    BY <1>1, <1>2, <1>3, <1>4, AskedStays
  <1>10. ASSUME main_pc = "reply"
         PROVE  main_command' \in Simple /\ Asked(main_command, ExpectedByMain)'
    <2>1. PICK c, A : c = main_command /\ A = ExpectedByMain
      OBVIOUS
    <2>2. c \in Simple /\ Suits(c, A) /\ Asked(c, A)
      BY <1>10, <2>1, MainExpects DEF Conversation
    <2>3. main_command' = c /\ ExpectedByMain' = A
      BY <1>3, <2>1 DEF ExpectedByMain
    <2> QED
      BY <1>9, <2>2, <2>3, MainAsked
  <1>11. Asked("HASH", {"200", "503"}) => Asked("HASH", {"200", "503"})'
    BY <1>9, WorkerExpects
  <1>12. TooLate /\ Asked("ABOR", {"no transfer"}) => TooLate' /\ Asked("ABOR", {"no transfer"})'
    BY <1>9, WorkerExpects
  <1> QED
    BY <1>3, <1>5, <1>6, <1>7, <1>8, <1>10, <1>11, <1>12 DEF Conversation

-----------------------------------------------------------------------------
(* The conversation in the steps of the client *)

(* The server's side of the conversation stands still.                       *)
LEMMA Unmoved ==
  ASSUME UNCHANGED <<worker_pc, suppress_current_transfer_reply, control_pc, pending>>
  PROVE  Steady /\ (TooLate <=> TooLate')
  BY DEF Steady, TooLate, Working, Due

(* Nothing is said at all.                                                   *)
LEMMA NothingSaid ==
  ASSUME UNCHANGED vars, read' = read
  PROVE  /\ Idle => Idle'
         /\ Running(<<>>) => Running(<<>>)'
         /\ Announcing => Announcing'
         /\ Aborting => Aborting'
         /\ TooLate => TooLate'
         /\ \A c, A : Asked(c, A) => Asked(c, A)'
  <1>1. UNCHANGED <<worker_pc, suppress_current_transfer_reply, control_pc, pending, requests, replies>>
    BY DEF vars, streams, control_vars, worker_vars, transfer_vars
  <1>2. Steady /\ (TooLate <=> TooLate')
    BY <1>1, Unmoved
  <1>3. /\ NothingUnread' <=> NothingUnread
        /\ \A A : OneUnread(A)' <=> OneUnread(A)
        /\ \A A, B : TwoUnread(A, B)' <=> TwoUnread(A, B)
    BY <1>1, Stays
  <1>4. Idle => Idle'
    BY <1>1, <1>2, <1>3 DEF Idle, Steady
  <1>5. \A R : Running(R) => Running(R)'
    BY <1>1, <1>2, <1>3 DEF Running, Steady
  <1>6. Aborting => Aborting'
    BY <1>1, <1>2, <1>3, <1>5 DEF Aborting, Steady
  <1>7. \A c, A : Asked(c, A) => Asked(c, A)'
    BY <1>1, <1>2, <1>3 DEF Asked, Steady, Handling, Answered
  <1>8. Announcing => Announcing'
    BY <1>1, <1>2, <1>3 DEF Announcing, Steady
  <1> QED
    BY <1>2, <1>4, <1>5, <1>6, <1>7, <1>8

(* A command to an idle server is asked; an ABOR may also follow a transfer. *)
LEMMA CommandSent ==
  ASSUME NEW c, SendCommand(c), UNCHANGED server_vars
  PROVE  /\ Idle => \A A : Asked(c, A)'
         /\ Idle /\ c \in Transfers => Announcing'
         /\ Running(<<>>) /\ c = "ABOR" => Aborting'
         /\ TooLate => TooLate'
  <1>1. /\ requests' = Append(requests, c) /\ UNCHANGED <<replies, read>>
        /\ UNCHANGED <<worker_pc, suppress_current_transfer_reply, control_pc, pending>>
    BY DEF SendCommand, server_vars, control_vars, worker_vars, transfer_vars
  <1>2. Steady /\ (TooLate <=> TooLate')
    BY <1>1, Unmoved
  <1>3. /\ NothingUnread' <=> NothingUnread
        /\ \A A : OneUnread(A)' <=> OneUnread(A)
    BY <1>1, Stays
  <1>4. requests = <<>> => requests' = <<c>>
    BY <1>1
  <1>5. Idle => \A A : Asked(c, A)'
    BY <1>1, <1>2, <1>3, <1>4 DEF Idle, Asked, Steady
  <1>6. Idle /\ c \in Transfers => Announcing'
    BY <1>1, <1>2, <1>3, <1>4 DEF Idle, Announcing, Steady
  <1>7. Running(<<>>) /\ c = "ABOR" => Running(<<"ABOR">>)'
    BY <1>1, <1>2, <1>3, <1>4 DEF Running, Steady
  <1> QED
    BY <1>2, <1>5, <1>6, <1>7 DEF Aborting

(* What a reply is that is read at each place of the conversation, and what  *)
(* remains of it.                                                            *)
LEMMA ReplyRead ==
  ASSUME ClientFields, ReadReply, UNCHANGED server_vars, ThreadsInv
  PROVE  /\ ~Idle
         /\ \A c, A : c # "QUIT" /\ Asked(c, A) => NextReply.code \in A /\ Idle'
         /\ Announcing => \/ NextReply.code \in Refusal /\ Idle'
                          \/ NextReply.code = "150" /\ Running(<<>>)'
         /\ Running(<<>>) => NextReply.code \in Verdict /\ Idle' /\ TooLate'
         /\ Aborting =>
              \/ NextReply.code = "aborted" /\ Idle'
              \/ NextReply.code \in Verdict /\ TooLate' /\ Asked("ABOR", {"no transfer"})'
  <1>1. /\ read' = read + 1 /\ UNCHANGED <<requests, replies>> /\ read < Len(replies)
        /\ UNCHANGED <<worker_pc, suppress_current_transfer_reply, control_pc, pending>>
    BY DEF ReadReply, ReplyReady, streams, server_vars, control_vars, worker_vars, transfer_vars
  <1>2. Steady /\ (TooLate <=> TooLate')
    BY <1>1, Unmoved
  <1>3. read \in Nat
    BY DEF ClientFields
  <1>4. ~NothingUnread
    BY <1>1, <1>3 DEF NothingUnread
  <1>5. /\ \A A : OneUnread(A) => NextReply.code \in A /\ NothingUnread'
        /\ \A A, B : TwoUnread(A, B) => NextReply.code \in A /\ OneUnread(B)'
    BY <1>1, <1>3, Reads
  <1>6. ~Working => ~Due
    BY DueWorks
  <1>7. ~Idle
    BY <1>4 DEF Idle
  <1>8. ASSUME NEW c, NEW A, c # "QUIT", Asked(c, A) PROVE NextReply.code \in A /\ Idle'
    BY <1>1, <1>2, <1>4, <1>5, <1>8 DEF Asked, Answered, Idle, Steady
  <1>9. ASSUME Announcing
        PROVE  \/ NextReply.code \in Refusal /\ Idle'
               \/ NextReply.code = "150" /\ Running(<<>>)'
    <2>1. CASE ~Due /\ requests = <<>> /\ control_pc = "recv" /\ OneUnread(Refusal)
      BY <1>1, <1>2, <1>5, <2>1 DEF Idle, Steady
    <2>2. CASE requests = <<>> /\ control_pc \in Starting /\ OneUnread({"150"})
      BY <1>1, <1>5, <2>2 DEF Running
    <2>3. CASE requests = <<>> /\ control_pc = "recv" /\ OneUnread({"150"}) /\ Due
      BY <1>1, <1>2, <1>5, <2>3 DEF Running, Steady
    <2>4. CASE requests = <<>> /\ control_pc = "recv" /\ TwoUnread({"150"}, Verdict) /\ ~Working
      BY <1>1, <1>2, <1>5, <2>4 DEF Running, Steady
    <2> QED
      BY <1>4, <1>9, <2>1, <2>2, <2>3, <2>4 DEF Announcing
  <1>10. ASSUME Running(<<>>) PROVE NextReply.code \in Verdict /\ Idle' /\ TooLate'
    <2>1. requests = <<>> /\ control_pc = "recv" /\ OneUnread(Verdict) /\ ~Working
      BY <1>4, <1>10 DEF Running
    <2> QED
      BY <1>1, <1>2, <1>5, <1>6, <2>1 DEF Idle, TooLate, Steady
  <1>11. ASSUME Aborting
         PROVE  \/ NextReply.code = "aborted" /\ Idle'
                \/ NextReply.code \in Verdict /\ TooLate' /\ Asked("ABOR", {"no transfer"})'
    <2>1. CASE requests = <<"ABOR">> /\ control_pc = "recv" /\ OneUnread(Verdict) /\ ~Working
      BY <1>1, <1>2, <1>5, <1>6, <2>1 DEF TooLate, Asked, Steady
    <2>2. CASE requests = <<>> /\ control_pc = "recv" /\ OneUnread({"aborted"}) /\ ~Due
      <3>1. NextReply.code \in {"aborted"} /\ NothingUnread'
        BY <1>5, <2>2
      <3> QED
        BY <1>1, <1>2, <2>2, <3>1 DEF Idle, Steady
    <2>3. CASE requests = <<>> /\ ~Working /\ control_pc = "abort" /\ OneUnread(Verdict)
      BY <1>1, <1>2, <1>5, <1>6, <2>3 DEF TooLate, Asked, Handling, Steady
    <2>4. CASE /\ requests = <<>> /\ ~Working /\ control_pc = "reply"
               /\ pending.code = "no transfer" /\ OneUnread(Verdict)
      BY <1>1, <1>2, <1>5, <1>6, <2>4 DEF TooLate, Asked, Steady
    <2>5. CASE /\ requests = <<>> /\ ~Working /\ control_pc = "recv"
               /\ TwoUnread(Verdict, {"no transfer"})
      BY <1>1, <1>2, <1>5, <1>6, <2>5 DEF TooLate, Asked, Answered, Steady
    <2> QED
      BY <1>4, <1>11, <2>1, <2>2, <2>3, <2>4, <2>5 DEF Aborting, Running
  <1> QED
    BY <1>7, <1>8, <1>9, <1>10, <1>11

(* The server does not close the connection under the client's worker.       *)
LEMMA WorkerKeepsConnection ==
  ASSUME Conversation, WorkerReading
  PROVE  control_pc # "closed"
  <1>1. /\ \A R : Running(R) => control_pc # "closed"
        /\ Idle => control_pc # "closed"
    BY DEF Running, Idle, Starting
  <1>2. /\ Aborting => control_pc # "closed"
        /\ Asked("ABOR", {"no transfer"}) => control_pc # "closed"
        /\ Asked("HASH", {"200", "503"}) => control_pc # "closed"
    BY <1>1 DEF Aborting, Asked, Handling, Answered
  <1> QED
    BY <1>1, <1>2 DEF Conversation, WorkerReading

(* The client keeps its part of the conversation, unless its data socket     *)
(* raises an error of the system.                                            *)
LEMMA ClientConverses ==
  ASSUME Conversation, Turns, ClientFields, ThreadsInv, main_pc # "gone", main_pc' # "gone",
         ~DataSocketFails, UserStep \/ MainStep \/ ClientWorkerStep \/ ClientLeaves
  PROVE  Conversation'
  <1>1. main_pc \in {"prompt", "reply", "preliminary", "send abort"}
    BY DEF Turns
  <1>2. client_pc \in {"none", "data", "final", "late", "hash", "hash reply", "reset", "end"}
    BY DEF ClientFields
  <1>3. transfer_phase = "none" <=> client_pc = "none"
    BY DEF Turns
  <1>4. client_pc # "none" => main_pc \in {"prompt", "send abort"}
    BY <1>1 DEF Turns
  <1>5. client_pc \in {"hash", "reset", "end"} => main_pc = "prompt" /\ Idle
    BY <1>4 DEF Conversation
  <1> USE DEF main_vars, context_vars, client_worker_vars
  <1>10. ASSUME NEW c \in Commands, TypeSimple(c) PROVE Conversation'
    <2>1. /\ main_pc = "prompt" /\ transfer_phase = "none" /\ c \in Simple
          /\ SendCommand(c) /\ UNCHANGED server_vars
          /\ main_pc' = "reply" /\ main_command' = c
          /\ UNCHANGED <<client_pc, drain, transfer_phase, abort_requested>>
      BY <1>10 DEF TypeSimple, Typed, Simple
    <2>2. client_pc = "none" /\ Idle
      BY <1>3, <2>1 DEF Conversation
    <2>3. PICK A : A = ExpectedByMain'
      OBVIOUS
    <2>4. Asked(c, A)'
      BY <2>1, <2>2, CommandSent
    <2>5. Asked(main_command, ExpectedByMain)'
      BY <2>1, <2>3, <2>4, MainAsked
    <2> QED
      BY <2>1, <2>2, <2>5 DEF Conversation
  <1>11. ASSUME NEW c \in Commands, TypeTransfer(c) PROVE Conversation'
    <2>1. /\ main_pc = "prompt" /\ transfer_phase = "none" /\ c \in Transfers
          /\ SendCommand(c) /\ UNCHANGED server_vars
          /\ main_pc' = "preliminary" /\ main_command' = c
          /\ UNCHANGED <<client_pc, drain, transfer_phase, abort_requested>>
      BY <1>11 DEF TypeTransfer, Typed
    <2>2. client_pc = "none" /\ Idle
      BY <1>3, <2>1 DEF Conversation
    <2>3. Announcing'
      BY <2>1, <2>2, CommandSent
    <2> QED
      BY <2>1, <2>2, <2>3 DEF Conversation
  <1>12. CASE RequestAbort
    <2>1. /\ main_pc = "prompt" /\ transfer_phase = "DATA" /\ ~abort_requested
          /\ abort_requested' /\ main_pc' = "send abort"
          /\ UNCHANGED <<client_pc, drain, transfer_phase, read, streams, server_vars>>
      BY <1>12 DEF RequestAbort
    <2>2. client_pc = "data" /\ Running(<<>>)
      BY <2>1 DEF Conversation
    <2>3. Running(<<>>)'
      BY <2>1, <2>2, NothingSaid DEF vars, server_vars
    <2> QED
      BY <2>1, <2>2, <2>3 DEF Conversation
  <1>13. CASE SendAbort
    <2>1. /\ main_pc = "send abort" /\ main_pc' = "prompt"
          /\ SendCommand("ABOR") /\ UNCHANGED server_vars
          /\ UNCHANGED <<client_pc, drain, transfer_phase, abort_requested>>
      BY <1>13 DEF SendAbort
    <2>2. client_pc \in {"data", "final", "late"} /\ abort_requested
      BY <2>1 DEF Conversation
    <2>3. CASE client_pc \in {"data", "final"}
      <3>1. Running(<<>>)
        BY <2>1, <2>3 DEF Conversation
      <3>2. Aborting'
        BY <2>1, <3>1, CommandSent
      <3> QED
        BY <2>1, <2>2, <2>3, <3>2 DEF Conversation
    <2>4. CASE client_pc = "late"
      <3>1. Idle /\ TooLate
        BY <2>1, <2>4 DEF Conversation
      <3>2. TooLate' /\ Asked("ABOR", {"no transfer"})'
        BY <2>1, <3>1, CommandSent
      <3> QED
        BY <2>1, <2>2, <2>4, <3>2 DEF Conversation
    <2> QED
      BY <2>2, <2>3, <2>4
  <1>14. CASE MainReadsReply
    <2>1. /\ main_pc = "reply" /\ main_pc' = "prompt" /\ main_command # "QUIT"
          /\ ReadReply /\ UNCHANGED server_vars
          /\ UNCHANGED <<client_pc, drain, transfer_phase, abort_requested>>
      BY <1>14 DEF MainReadsReply
    <2>2. client_pc = "none" /\ Asked(main_command, ExpectedByMain)
      BY <1>4, <2>1 DEF Conversation
    <2>3. Idle'
      <3>1. PICK c, A : c = main_command /\ A = ExpectedByMain
        OBVIOUS
      <3> QED
        BY <2>1, <2>2, <3>1, ReplyRead
    <2> QED
      BY <2>1, <2>2, <2>3 DEF Conversation
  <1>15. CASE MainReadsPreliminary
    <2>1. /\ main_pc = "preliminary" /\ main_pc' = "prompt"
          /\ ReadReply /\ UNCHANGED server_vars /\ drain' = drain
      BY <1>15 DEF MainReadsPreliminary
    <2>2. client_pc = "none" /\ Announcing
      BY <1>4, <2>1 DEF Conversation
    <2>3. \/ NextReply.code \in Refusal /\ Idle'
          \/ NextReply.code = "150" /\ Running(<<>>)'
      BY <2>1, <2>2, ReplyRead
    <2>4. CASE NextReply.code = "150"
      <3>1. client_pc' = "data" /\ transfer_phase' = "DATA" /\ ~abort_requested'
        BY <1>15, <2>4 DEF MainReadsPreliminary
      <3> QED
        BY <2>1, <2>3, <2>4, <3>1 DEF Conversation, Refusal
    <2>5. CASE NextReply.code # "150"
      <3>1. UNCHANGED <<client_pc, transfer_phase, abort_requested>>
        BY <1>15, <2>5 DEF MainReadsPreliminary
      <3> QED
        BY <1>3, <2>1, <2>2, <2>3, <2>5, <3>1 DEF Conversation
    <2> QED
      BY <2>4, <2>5
  <1>16. CASE MainReadsGoodbye \/ MainLosesConnection \/ ClientLeaves
    BY <1>16 DEF MainReadsGoodbye, MainLosesConnection, ClientLeaves, Leave
  <1>17. CASE DataPhaseEnds
    <2>1. /\ client_pc = "data" /\ client_pc' = "final"
          /\ transfer_phase' = "FINALIZING" /\ drain' = abort_requested
          /\ UNCHANGED <<main_pc, main_command, abort_requested, read, streams, server_vars>>
      BY <1>17 DEF DataPhaseEnds
    <2>2. /\ Running(<<>>) => Running(<<>>)'
          /\ Aborting => Aborting'
      BY <2>1, NothingSaid DEF vars, server_vars
    <2> QED
      BY <1>4, <2>1, <2>2 DEF Conversation
  <1>18. CASE DataSocketRaises
    BY <1>18 DEF DataSocketRaises
  <1>19. CASE ReadFinalReply
    <2>1. /\ client_pc = "final" /\ ReadReply
          /\ UNCHANGED <<main_pc, main_command, drain, transfer_phase, abort_requested, server_vars>>
      BY <1>19 DEF ReadFinalReply
    <2>2. drain = abort_requested /\ transfer_phase # "DATA"
      BY <2>1 DEF Conversation
    <2>3. CASE abort_requested /\ main_pc = "prompt" /\ NextReply.code = "aborted"
      <3>1. Aborting
        BY <2>1, <2>3 DEF Conversation
      <3>2. Idle'
        BY <2>1, <2>3, <3>1, ReplyRead DEF Verdict
      <3>3. client_pc' = "reset"
        BY <1>19, <2>3 DEF ReadFinalReply, AfterFinal
      <3> QED
        BY <2>1, <2>2, <2>3, <3>2, <3>3 DEF Conversation
    <2>4. CASE abort_requested /\ main_pc = "prompt" /\ NextReply.code # "aborted"
      <3>1. Aborting
        BY <2>1, <2>4 DEF Conversation
      <3>2. TooLate' /\ Asked("ABOR", {"no transfer"})'
        BY <2>1, <2>4, <3>1, ReplyRead
      <3>3. client_pc' = "late"
        BY <1>19, <2>2, <2>4 DEF ReadFinalReply
      <3> QED
        BY <2>1, <2>2, <2>4, <3>2, <3>3 DEF Conversation
    <2>5. CASE abort_requested /\ main_pc # "prompt"
      <3>1. Running(<<>>) /\ main_pc = "send abort"
        BY <1>4, <2>1, <2>5 DEF Conversation
      <3>2. NextReply.code # "aborted" /\ Idle' /\ TooLate'
        BY <2>1, <3>1, ReplyRead DEF Verdict
      <3>3. client_pc' = "late"
        BY <1>19, <2>2, <2>5, <3>2 DEF ReadFinalReply
      <3> QED
        BY <2>1, <2>2, <2>5, <3>1, <3>2, <3>3 DEF Conversation
    <2>6. CASE ~abort_requested
      <3>1. Running(<<>>) /\ main_pc = "prompt"
        BY <1>4, <2>1, <2>6 DEF Conversation
      <3>2. Idle'
        BY <2>1, <3>1, ReplyRead
      <3>3. client_pc' \in {"hash", "reset"}
        BY <1>19, <2>2, <2>6 DEF ReadFinalReply, AfterFinal
      <3> QED
        BY <2>1, <2>2, <2>6, <3>1, <3>2, <3>3 DEF Conversation
    <2> QED
      BY <2>3, <2>4, <2>5, <2>6
  <1>20. CASE ReadLateAbortReply
    <2>1. /\ client_pc = "late" /\ ReadReply /\ client_pc' \in {"hash", "reset"}
          /\ UNCHANGED <<main_pc, main_command, drain, transfer_phase, abort_requested, server_vars>>
      BY <1>20 DEF ReadLateAbortReply, AfterFinal
    <2>2. main_pc = "prompt" /\ Asked("ABOR", {"no transfer"}) /\ transfer_phase # "DATA"
      BY <2>1, ReplyRead DEF Conversation
    <2>3. Idle'
      BY <2>1, <2>2, ReplyRead
    <2> QED
      BY <2>1, <2>2, <2>3 DEF Conversation
  <1>21. CASE SendHash
    <2>1. /\ client_pc = "hash" /\ SendCommand("HASH") /\ client_pc' = "hash reply"
          /\ UNCHANGED <<main_pc, main_command, drain, transfer_phase, abort_requested, server_vars>>
      BY <1>21 DEF SendHash
    <2>2. main_pc = "prompt" /\ Idle /\ transfer_phase # "DATA"
      BY <1>5, <2>1 DEF Conversation
    <2>3. Asked("HASH", {"200", "503"})'
      BY <2>1, <2>2, CommandSent
    <2> QED
      BY <2>1, <2>2, <2>3 DEF Conversation
  <1>22. CASE ReadHashReply
    <2>1. /\ client_pc = "hash reply" /\ ReadReply /\ client_pc' = "reset"
          /\ UNCHANGED <<main_pc, main_command, drain, transfer_phase, abort_requested, server_vars>>
      BY <1>22 DEF ReadHashReply
    <2>2. main_pc = "prompt" /\ Asked("HASH", {"200", "503"}) /\ transfer_phase # "DATA"
      BY <1>4, <2>1 DEF Conversation
    <2>3. Idle'
      BY <2>1, <2>2, ReplyRead
    <2> QED
      BY <2>1, <2>2, <2>3 DEF Conversation
  <1>23. CASE WorkerLosesConnection
    BY <1>23, WorkerKeepsConnection DEF WorkerLosesConnection, StreamEnded, WorkerReading
  <1>24. CASE WorkerResets
    <2>1. /\ client_pc = "reset" /\ client_pc' = "end"
          /\ UNCHANGED <<main_pc, main_command, drain, transfer_phase, abort_requested>>
          /\ UNCHANGED <<read, streams, server_vars>>
      BY <1>24 DEF WorkerResets
    <2>2. main_pc = "prompt" /\ Idle /\ transfer_phase # "DATA"
      BY <1>5, <2>1 DEF Conversation
    <2>3. Idle'
      BY <2>1, <2>2, NothingSaid DEF vars, server_vars
    <2> QED
      BY <2>1, <2>2, <2>3 DEF Conversation
  <1>25. CASE WorkerEnds
    <2>1. /\ client_pc = "end" /\ client_pc' = "none" /\ transfer_phase' = "none"
          /\ UNCHANGED <<main_pc, main_command, read, streams, server_vars>>
      BY <1>25 DEF WorkerEnds
    <2>2. main_pc = "prompt" /\ Idle
      BY <1>5, <2>1 DEF Conversation
    <2>3. Idle'
      BY <2>1, <2>2, NothingSaid DEF vars, server_vars
    <2> QED
      BY <2>1, <2>2, <2>3 DEF Conversation
  <1> QED
    BY <1>10, <1>11, <1>12, <1>13, <1>14, <1>15, <1>16, <1>17, <1>18, <1>19, <1>20,
       <1>21, <1>22, <1>23, <1>24, <1>25 DEF UserStep, MainStep, ClientWorkerStep

-----------------------------------------------------------------------------
(* The theorems *)

(* At the start nothing was said.                                            *)
LEMMA InitConversation == ClientInit => ConversationInv
  <1> SUFFICES ASSUME ClientInit PROVE Conversation
    BY DEF ConversationInv
  <1>1. main_pc = "prompt" /\ client_pc = "none" /\ transfer_phase = "none"
    BY DEF ClientInit
  <1>2. /\ requests = <<>> /\ replies = <<>> /\ read = 0
        /\ control_pc = "recv" /\ worker_pc = "none"
    BY DEF ClientInit, Init
  <1>3. Idle
    BY <1>2 DEF Idle, NothingUnread, Due, Working
  <1> QED
    BY <1>1, <1>3 DEF Conversation

(* Every step of either side keeps up the conversation.                      *)
LEMMA NextConversation ==
  ASSUME ConversationInv, ClientFields, ClientInv, ClientInv', ServerInv, ~DataSocketFails,
         [Next]_vars, [ClientNext]_all_vars
  PROVE  ConversationInv'
  <1> SUFFICES ASSUME main_pc' # "gone", ~TimedOut' PROVE Conversation'
    BY DEF ConversationInv
  <1>1. ThreadsInv /\ Shape /\ Turns
    BY DEF ServerInv, ClientInv
  <1>2. ~TimedOut
    BY <1>1, RepliesGrow
  <1>3. main_pc # "gone"
    <2> SUFFICES ASSUME main_pc = "gone" PROVE FALSE
      OBVIOUS
    <2>1. ~connected
      BY <1>1 DEF Turns
    <2>2. ServerStep => ~connected'
      BY <2>1, ServerTakes
    <2>3. ~ClientStep
      BY <2>1 DEF ClientStep, ClientSends, ClientGoes
    <2>4. UNCHANGED vars => ~connected'
      BY <2>1 DEF vars, streams
    <2>5. ~connected'
      BY <2>2, <2>3, <2>4 DEF Next
    <2>6. Turns'
      BY DEF ClientInv
    <2> QED
      BY <2>5, <2>6 DEF Turns
  <1>4. Conversation
    BY <1>2, <1>3 DEF ConversationInv
  <1>5. CASE ServerStep /\ UNCHANGED client_vars
    BY <1>1, <1>3, <1>4, <1>5, ServerConverses
  <1>6. CASE UserStep \/ MainStep \/ ClientWorkerStep \/ ClientLeaves
    BY <1>1, <1>3, <1>4, <1>6, ClientConverses
  <1>7. CASE UNCHANGED all_vars
    <2>1. UNCHANGED vars /\ UNCHANGED client_vars
      BY <1>7 DEF all_vars
    <2>2. UNCHANGED <<main_pc, main_command, client_pc, read, transfer_phase, abort_requested, drain>>
      BY <2>1 DEF client_vars, main_vars, client_worker_vars, context_vars
    <2>3. PICK c, A : c = main_command /\ A = ExpectedByMain
      OBVIOUS
    <2>4. main_command' = c /\ ExpectedByMain' = A
      BY <2>2, <2>3 DEF ExpectedByMain
    <2>5. Asked(main_command, ExpectedByMain) => Asked(main_command, ExpectedByMain)'
      BY <2>1, <2>2, <2>3, <2>4, NothingSaid, MainAsked
    <2> QED
      BY <1>4, <2>1, <2>2, <2>5, NothingSaid DEF Conversation
  <1> QED
    BY <1>5, <1>6, <1>7 DEF ClientNext

(* The client's phase is set exactly while its worker runs, and it never     *)
(* reads more than was sent.                                                 *)
THEOREM ClientIsTyped ==
  ASSUME MaxCommands > MaxUserCommands, MaxPipelined > MaxUserCommands
  PROVE  ClientSpec => []ClientTypeOK
  <1>1. ClientInv /\ [ClientNext]_all_vars => ClientInv' /\ [Next]_vars
    BY NextClient
  <1>2. ClientFields /\ Shape /\ ThreadsInv /\ [Next]_vars /\ [ClientNext]_all_vars => ClientFields'
    BY NextFieldsOfClient
  <1>3. ClientFields /\ ClientInv /\ Shape => ClientTypeOK
    <2> SUFFICES ASSUME ClientFields, ClientInv, Shape PROVE ClientTypeOK
      OBVIOUS
    <2>1. read \in Nat /\ read <= Len(replies)
      BY DEF ClientFields
    <2>2. Len(replies) \in Nat
      BY LenProperties DEF Shape
    <2>3. read \in 0..Len(replies)
      BY <2>1, <2>2
    <2> QED
      BY <2>3 DEF ClientFields, ClientInv, Turns, ClientTypeOK
  <1>4. ClientSpec => []Shape /\ []ThreadsInv
    BY ClientImplements, Shapes, Threads, PTL DEF ClientIsSession
  <1>5. QED
    BY <1>1, <1>2, <1>3, <1>4, InitClient, InitFields, PTL DEF ClientSpec

(* While no data socket raises an error of the system, client and server     *)
(* agree at every moment on what was asked and what is still to be read.     *)
THEOREM ConversationHolds ==
  ASSUME MaxCommands > MaxUserCommands, MaxPipelined > MaxUserCommands, ~DataSocketFails
  PROVE  ClientSpec => [](ConversationInv /\ ClientFields /\ ClientInv /\ ServerInv)
  <1>1. ClientInv /\ [ClientNext]_all_vars => ClientInv' /\ [Next]_vars
    BY NextClient
  <1>2. ClientFields /\ Shape /\ ThreadsInv /\ [Next]_vars /\ [ClientNext]_all_vars => ClientFields'
    BY NextFieldsOfClient
  <1>3. /\ ConversationInv /\ ClientFields /\ ClientInv /\ ClientInv' /\ ServerInv
        /\ [Next]_vars /\ [ClientNext]_all_vars
        => ConversationInv'
    BY NextConversation
  <1>4. ServerInv <=> Shape /\ ThreadsInv /\ TransferInv /\ StatusInv
    BY DEF ServerInv
  <1>5. ClientSpec => []Shape /\ []ThreadsInv /\ []TransferInv /\ []StatusInv
    BY ClientImplements, Shapes, Threads, Transferring, Statuses, PTL DEF ClientIsSession
  <1>6. QED
    BY <1>1, <1>2, <1>3, <1>4, <1>5, InitClient, InitFields, InitConversation, PTL DEF ClientSpec

(* Every reply is read by the thread, and for the command, that it answers:  *)
(* never the verdict of a transfer as the answer of another command.         *)
THEOREM RepliesStayAligned ==
  ASSUME MaxCommands > MaxUserCommands, MaxPipelined > MaxUserCommands, ~DataSocketFails
  PROVE  ClientSpec => []RepliesAligned
  <1>1. ConversationInv /\ ClientFields /\ ClientInv /\ ServerInv => RepliesAligned
    <2> SUFFICES ASSUME ConversationInv, ClientFields, ClientInv, ServerInv,
                        ReplyReady, ~TimedOut
                 PROVE  /\ MainReading => NextReply.code \in ExpectedByMain
                        /\ WorkerReading => NextReply.code \in ExpectedByWorker
      BY DEF RepliesAligned
    <2>1. ~NothingUnread
      <3>1. read \in Nat
        BY DEF ClientFields
      <3> QED
        BY <3>1 DEF ReplyReady, NothingUnread
    <2>2. /\ \A A : OneUnread(A) => NextReply.code \in A
          /\ \A A, B : TwoUnread(A, B) => NextReply.code \in A
      BY DEF OneUnread, TwoUnread, NextReply
    <2>3. \A c, A : Asked(c, A) => NextReply.code \in A
      BY <2>1, <2>2 DEF Asked
    <2>4. MainReading \/ WorkerReading => Conversation
      BY DEF ConversationInv, ClientInv, Turns, MainReading, WorkerReading
    <2>5. CASE main_pc = "reply"
      <3>1. NextReply.code \in ExpectedByMain
        BY <2>3, <2>4, <2>5 DEF Conversation, MainReading
      <3>2. ~WorkerReading
        BY <2>5 DEF ClientInv, Turns, WorkerReading
      <3> QED
        BY <3>1, <3>2
    <2>6. CASE main_pc = "preliminary"
      <3>1. Announcing /\ main_command \in Transfers
        BY <2>4, <2>6 DEF Conversation, MainReading
      <3>2. NextReply.code \in {"150", "425", "503"}
        BY <2>1, <2>2, <3>1 DEF Announcing, Refusal
      <3>3. ~WorkerReading
        BY <2>6 DEF ClientInv, Turns, WorkerReading
      <3>4. ExpectedByMain = {"150", "425", "503"}
        BY <2>6, <3>1 DEF ExpectedByMain, Transfers, Setup, Queries
      <3> QED
        BY <3>2, <3>3, <3>4
    <2>7. CASE client_pc = "final"
      <3>1. \A R : Running(R) => NextReply.code \in Verdict
        BY <2>1, <2>2 DEF Running
      <3>2. Aborting => NextReply.code \in Verdict \cup {"aborted"}
        BY <2>1, <2>2, <3>1 DEF Aborting
      <3>3. NextReply.code \in {"226", "426", "aborted"}
        BY <2>4, <2>7, <3>1, <3>2 DEF Conversation, WorkerReading, Verdict
      <3>4. ~MainReading
        BY <2>7 DEF ClientInv, Turns, MainReading
      <3> QED
        BY <2>7, <3>3, <3>4 DEF ExpectedByWorker
    <2>8. CASE client_pc = "late"
      <3>1. NextReply.code \in {"no transfer"}
        BY <2>1, <2>3, <2>4, <2>8 DEF Conversation, WorkerReading, Idle
      <3>2. ~MainReading
        BY <2>8 DEF ClientInv, Turns, MainReading
      <3> QED
        BY <2>8, <3>1, <3>2 DEF ExpectedByWorker
    <2>9. CASE client_pc = "hash reply"
      <3>1. NextReply.code \in {"200", "503"}
        BY <2>3, <2>4, <2>9 DEF Conversation, WorkerReading
      <3>2. ~MainReading
        BY <2>9 DEF ClientInv, Turns, MainReading
      <3> QED
        BY <2>9, <3>1, <3>2 DEF ExpectedByWorker
    <2> QED
      BY <2>5, <2>6, <2>7, <2>8, <2>9 DEF MainReading, WorkerReading
  <1>2. QED
    BY <1>1, ConversationHolds, PTL

(* When the client is idle nothing is unread, and nothing is still to come:  *)
(* a worker of the server that still runs was silenced by an ABOR.           *)
THEOREM NothingIsLeftUnread ==
  ASSUME MaxCommands > MaxUserCommands, MaxPipelined > MaxUserCommands, ~DataSocketFails
  PROVE  ClientSpec => []NothingLeftUnread
  <1>1. ConversationInv => NothingLeftUnread
    BY DEF ConversationInv, Conversation, NothingLeftUnread, Idle, NothingUnread, ReplyReady,
           Due, Working
  <1>2. QED
    BY <1>1, ConversationHolds, PTL
=============================================================================

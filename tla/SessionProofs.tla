---------------------------- MODULE SessionProofs ---------------------------
(***************************************************************************)
(* Proofs about Session: how the control thread, which mostly works without *)
(* transfer_lock, and the transfer worker stay out of each other's way.    *)
(***************************************************************************)
EXTENDS Session, SequenceTheorems, TLAPS

(* Where the control thread stands between 150 and run_transfer.             *)
Starting == {"start", "start fields", "start flags", "run"}

(* cleanup() after its first step.                                           *)
CleaningUp == {"cleanup suppress", "cleanup abort", "cleanup close", "join", "drop",
               "finish", "closed"}

(* The lock and transfer_thread belong to the worker while it delivers its   *)
(* verdict, and while it runs.                                               *)
LockOwner ==
  /\ worker_pc \in {"none", "open", "data", "unregister", "store", "ended"}
                     \cup {"verdict", "finish", "finish fields", "finish flags"}
  /\ transfer_lock = IF WorkerFinishing THEN "worker" ELSE "free"
  /\ transfer_thread # 0 <=> WorkerRuns
  /\ transfers \in Nat
  /\ control_pc \in Starting => transfers > 0

(* A transfer is announced only once the worker before it has unmarked the   *)
(* session, that is, from the middle of its finish_transfer on.              *)
StartAfterUnmark ==
  control_pc \in Starting \cup {"preliminary"}
    => worker_pc \in {"none", "finish fields", "finish flags"}

(* transfer_in_progress is set from start_transfer until the worker's end.   *)
MarkCoversTransfer ==
  control_pc \in {"start fields", "start flags", "run"}
    \/ worker_pc \in {"open", "data", "unregister", "store", "ended", "verdict", "finish"}
  => transfer_in_progress

(* cleanup() refuses new sockets from its first step on, and has taken the   *)
(* running worker, if any, to join.                                          *)
CleanupKnowsWorker ==
  control_pc \in CleaningUp =>
    /\ cleanup_started
    /\ joined = 0 => ~WorkerRuns

(* The inductive invariant of the two threads.                               *)
ThreadsInv ==
  /\ LockOwner
  /\ StartAfterUnmark
  /\ MarkCoversTransfer
  /\ CleanupKnowsWorker
  /\ NoSocketAfterCleanup

(* A new session has no worker, and its control thread waits for a command.  *)
LEMMA InitThreads == Init => ThreadsInv
  BY DEF Init, ThreadsInv, LockOwner, StartAfterUnmark, MarkCoversTransfer,
         CleanupKnowsWorker, NoSocketAfterCleanup, Starting, CleaningUp,
         WorkerRuns, WorkerFinishing, CleanupClosedSocket

(* Every step of either thread keeps the two in agreement.                   *)
LEMMA NextThreads == ThreadsInv /\ [Next]_vars => ThreadsInv'
  <1> SUFFICES ASSUME ThreadsInv, [Next]_vars PROVE ThreadsInv'
    OBVIOUS
  <1> USE DEF ThreadsInv, LockOwner, StartAfterUnmark, MarkCoversTransfer,
              CleanupKnowsWorker, NoSocketAfterCleanup, Starting, CleaningUp,
              WorkerRuns, WorkerFinishing, CleanupClosedSocket, streams,
              control_vars, worker_vars, transfer_vars, socket_vars
  <1>1. CASE ReceiveCommand
    <2> DEFINE c == Head(requests)
    <2>1. /\ control_pc = "recv"
          /\ UNCHANGED <<cleanup_started, joined, transfers, worker_pc, transfer_lock,
                         transfer_in_progress, transfer_thread, current_data_socket>>
      BY <1>1 DEF ReceiveCommand
    <2>2. CASE Refused(c)
      <3>1. control_pc' = "reply"
        BY <1>1, <2>2 DEF ReceiveCommand, Respond
      <3>2. QED
        BY <2>1, <3>1
    <2>3. CASE ~Refused(c)
      <3>1. Dispatch(c)
        BY <1>1, <2>3 DEF ReceiveCommand
      <3>2. \/ control_pc' \in {"reply", "abort", "quit"}
            \/ control_pc' = "preliminary" /\ c \in Transfers
        BY <3>1 DEF Dispatch, Respond, Continue
      <3>3. CASE control_pc' \in {"reply", "abort", "quit"}
        BY <2>1, <3>3
      <3>4. CASE control_pc' = "preliminary" /\ c \in Transfers
        <4>1. ~transfer_in_progress
          BY <2>3, <3>4 DEF Refused, Transfers, COMMANDS_ALLOWED_DURING_TRANSFER
        <4>2. QED
          BY <2>1, <3>4, <4>1
      <3>5. QED
        BY <3>2, <3>3, <3>4
    <2>4. QED
      BY <2>2, <2>3
  <1>2. CASE SendReply
    BY <1>2 DEF SendReply, AfterSend
  <1>3. CASE ControlTimeout
    BY <1>3 DEF ControlTimeout
  <1>4. CASE ConnectionLost
    BY <1>4 DEF ConnectionLost, Goto
  <1>5. CASE SendPreliminary
    <2>1. /\ control_pc = "preliminary" /\ control_pc' \in {"start", "cleanup"}
          /\ transfers' = transfers + 1
          /\ UNCHANGED <<cleanup_started, joined, worker_pc, transfer_lock,
                         transfer_in_progress, transfer_thread, current_data_socket,
                         data_connection_mode>>
      BY <1>5 DEF SendPreliminary, Goto, AfterSend
    <2>2. transfers \in Nat
      OBVIOUS
    <2>3. transfers' \in Nat /\ transfers' > 0
      <3>1. transfers' = transfers + 1
        BY <2>1
      <3> HIDE DEF ThreadsInv, LockOwner
      <3>2. QED
        BY <2>2, <3>1
    <2>4. QED
      BY <2>1, <2>3
  <1>6. CASE StartMarks
    BY <1>6 DEF StartMarks, Goto
  <1>7. CASE StartFields
    BY <1>7 DEF StartFields, Goto
  <1>8. CASE StartFlags
    BY <1>8 DEF StartFlags, Goto
  <1>9. CASE RunTransfer
    BY <1>9 DEF RunTransfer
  <1>10. CASE Abort
    BY <1>10 DEF Abort, Cancel, Continue, Respond
  <1>11. CASE AbortCloses
    BY <1>11 DEF AbortCloses, Respond
  <1>12. CASE SuppressReplies("quit", "quit abort")
    BY <1>12 DEF SuppressReplies, Goto
  <1>13. CASE CloseAborts("quit abort", "quit close")
    BY <1>13 DEF CloseAborts, Goto, Cancel
  <1>14. CASE QuitReplies
    BY <1>14 DEF QuitReplies, CloseSocket, Respond
  <1>15. CASE CleanupBegins
    BY <1>15 DEF CleanupBegins
  <1>16. CASE SuppressReplies("cleanup suppress", "cleanup abort")
    BY <1>16 DEF SuppressReplies, Goto
  <1>17. CASE CloseAborts("cleanup abort", "cleanup close")
    BY <1>17 DEF CloseAborts, Goto, Cancel
  <1>18. CASE CleanupClosesSocket
    BY <1>18 DEF CleanupClosesSocket, Goto, CloseSocket
  <1>19. CASE CleanupJoins
    BY <1>19 DEF CleanupJoins, Goto
  <1>20. CASE CleanupDrops
    BY <1>20 DEF CleanupDrops, Goto
  <1>21. CASE CleanupEnds
    BY <1>21 DEF CleanupEnds, Goto, WorkerAlive
  <1>22. CASE WorkerOpens
    BY <1>22 DEF WorkerOpens, WorkerGoto
  <1>23. CASE WorkerCannotOpen
    BY <1>23 DEF WorkerCannotOpen, WorkerGoto
  <1>24. CASE WorkerCompletes
    BY <1>24 DEF WorkerCompletes, WorkerGoto
  <1>25. CASE WorkerFails
    BY <1>25 DEF WorkerFails, WorkerGoto
  <1>26. CASE WorkerUnregisters
    BY <1>26 DEF WorkerUnregisters, WorkerGoto
  <1>27. CASE WorkerStores
    BY <1>27 DEF WorkerStores, WorkerGoto
  <1>28. CASE WorkerLocks
    BY <1>28 DEF WorkerLocks, WorkerGoto
  <1>29. CASE WorkerReplies
    BY <1>29 DEF WorkerReplies, WorkerGoto
  <1>30. CASE FinishUnmarks
    BY <1>30 DEF FinishUnmarks, WorkerGoto
  <1>31. CASE FinishFields
    BY <1>31 DEF FinishFields, WorkerGoto
  <1>32. CASE FinishFlags
    BY <1>32 DEF FinishFlags, WorkerGoto
  <1>33. CASE ClientGoes
    BY <1>33 DEF ClientGoes
  <1>34. ASSUME NEW c \in Commands, ClientSends(c) PROVE ThreadsInv'
    BY <1>34 DEF ClientSends
  <1>35. CASE UNCHANGED vars
    BY <1>35 DEF vars
  <1>36. QED
    BY <1>1, <1>2, <1>3, <1>4, <1>5, <1>6, <1>7, <1>8, <1>9, <1>10, <1>11, <1>12,
       <1>13, <1>14, <1>15, <1>16, <1>17, <1>18, <1>19, <1>20, <1>21, <1>22, <1>23,
       <1>24, <1>25, <1>26, <1>27, <1>28, <1>29, <1>30, <1>31, <1>32, <1>33, <1>34,
       <1>35
       DEF Next, ServerStep, ControlStep, ControlRuns, WorkerStep, ClientStep, Quit, Cleanup

(* The inductive invariant holds in every reachable state.                   *)
THEOREM Threads == Spec => []ThreadsInv
  <1>1. ThreadsInv /\ [Next]_vars => ThreadsInv'
    BY NextThreads
  <1>2. QED
    BY <1>1, InitThreads, PTL DEF Spec

(* run_transfer never refuses a transfer that was announced with 150: when   *)
(* it gets the lock, the worker before has taken itself out of the session.  *)
THEOREM TransferRuns == Spec => []AnnouncedTransferRuns
  <1>1. ThreadsInv => AnnouncedTransferRuns
    BY DEF ThreadsInv, AnnouncedTransferRuns, RunRefused, LockOwner, StartAfterUnmark,
           Starting, WorkerRuns, WorkerFinishing
  <1>2. QED
    BY <1>1, Threads, PTL

(* No data socket is registered once cleanup() has closed the current one.   *)
THEOREM NoSocketLeft == Spec => []NoSocketAfterCleanup
  <1>1. ThreadsInv => NoSocketAfterCleanup
    BY DEF ThreadsInv
  <1>2. QED
    BY <1>1, Threads, PTL

-----------------------------------------------------------------------------
(* What the client reads *)

Answers == [code : Codes, transfer : Nat]

(* What the dispatch of a command answers at once.                           *)
Direct == {Reply(code, 0) : code \in {"227", "425", "200", "503"}}

(* The values that replies are made of.                                      *)
Shape ==
  /\ replies \in Seq(Answers)
  /\ pending \in Answers
  /\ verdict \in {"226", "426"}
  /\ transfers \in Nat /\ transfer_thread \in 0..transfers

(* What Reply makes.                                                         *)
LEMMA ReplyType ==
  /\ \A code \in Codes, t \in Nat :
       Reply(code, t) \in Answers /\ Reply(code, t).code = code /\ Reply(code, t).transfer = t
  /\ Direct \subseteq Answers
  /\ \A r \in Direct : r.code \notin {"150", "221", "226", "426", "aborted"}
  <1>1. ASSUME NEW code \in Codes, NEW t \in Nat
        PROVE  /\ Reply(code, t) \in Answers
               /\ Reply(code, t).code = code /\ Reply(code, t).transfer = t
    BY DEF Reply, Answers
  <1>2. {"227", "425", "200", "503"} \subseteq Codes
    BY DEF Codes
  <1>3. ASSUME NEW r \in Direct
        PROVE  r \in Answers /\ r.code \notin {"150", "221", "226", "426", "aborted"}
    <2>1. PICK code \in {"227", "425", "200", "503"} : r = Reply(code, 0)
      BY DEF Direct
    <2>2. r \in Answers /\ r.code = code
      BY <1>1, <1>2, <2>1
    <2> QED
      BY <2>1, <2>2
  <1> QED
    BY <1>1, <1>3

(* Only these steps send, and each sends one reply or, to a client that has  *)
(* gone, none.                                                               *)
LEMMA SentReplies ==
  ASSUME Shape, NEW r \in Answers, Send(r)
  PROVE  /\ replies' \in Seq(Answers)
         /\ Len(replies') \in {Len(replies), Len(replies) + 1}
         /\ \A i \in DOMAIN replies' :
              \/ i \in DOMAIN replies /\ replies'[i] = replies[i]
              \/ i = Len(replies) + 1 /\ i = Len(replies') /\ replies'[i] = r
  <1>1. CASE connected
    <2>1. replies' = Append(replies, r)
      BY <1>1 DEF Send
    <2> QED
      BY <2>1, AppendProperties DEF Shape
  <1>2. CASE ~connected
    BY <1>2 DEF Send, Shape
  <1> QED
    BY <1>1, <1>2

(* The reply that announces a transfer.                                      *)
LEMMA PreliminaryReply ==
  ASSUME Shape
  PROVE  /\ Reply("150", transfers + 1) \in Answers
         /\ Reply("150", transfers + 1).code = "150"
         /\ Reply("150", transfers + 1).transfer = transfers + 1
  <1>1. "150" \in Codes
    BY DEF Codes
  <1>2. transfers \in Nat
    BY DEF Shape
  <1>3. transfers + 1 \in Nat
    BY <1>2
  <1> QED
    BY <1>1, <1>3, ReplyType

(* The worker's final reply.                                                 *)
LEMMA VerdictReply ==
  ASSUME Shape
  PROVE  /\ Reply(verdict, transfer_thread) \in Answers
         /\ Reply(verdict, transfer_thread).code \in {"226", "426"}
         /\ Reply(verdict, transfer_thread).transfer = transfer_thread
  <1>1. verdict \in Codes /\ verdict \in {"226", "426"}
    BY DEF Codes, Shape
  <1>2. transfer_thread \in Nat
    BY DEF Shape
  <1> QED
    BY <1>1, <1>2, ReplyType

(* Every step keeps the shape of replies.                                    *)
LEMMA NextShape == Shape /\ ThreadsInv /\ [Next]_vars => Shape'
  <1> SUFFICES ASSUME Shape, ThreadsInv, [Next]_vars PROVE Shape'
    OBVIOUS
  <1> USE DEF Shape, streams, control_vars, worker_vars, transfer_vars, socket_vars
  <1>1. CASE ReceiveCommand
    <2>1. /\ control_pc = "recv" /\ control_pc' \in {"reply", "abort", "quit", "preliminary"}
          /\ pending' = pending \/ pending' \in Direct
          /\ control_pc' = "reply" => pending' \in Direct
      BY <1>1 DEF ReceiveCommand, Dispatch, Respond, Continue, Direct
    <2>2. /\ UNCHANGED <<replies, connected, cleanup_started, joined, control_conn, transfers>>
          /\ UNCHANGED <<suppress_transfer_reply, verdict, worker_pc, transfer_lock>>
          /\ UNCHANGED <<transfer_thread, transfer_in_progress, suppress_current_transfer_reply,
                         cancel_event>>
      BY <1>1 DEF ReceiveCommand, worker_vars, transfer_vars
    <2> QED
      BY <2>1, <2>2, ReplyType
  <1>2. CASE SendReply
    <2>1. Send(pending) /\ UNCHANGED <<pending, verdict, transfers, transfer_thread>>
      BY <1>2 DEF SendReply
    <2>2. replies' \in Seq(Answers)
      BY <2>1, SentReplies
    <2> QED
      BY <2>1, <2>2
  <1>3. CASE ControlTimeout
    <2>1. Send(Reply("421", 0)) /\ UNCHANGED <<pending, verdict, transfers, transfer_thread>>
      BY <1>3 DEF ControlTimeout
    <2>2. Reply("421", 0) \in Answers
      BY ReplyType DEF Codes
    <2>3. replies' \in Seq(Answers)
      BY <2>1, <2>2, SentReplies
    <2> QED
      BY <2>1, <2>3
  <1>4. CASE ConnectionLost
    BY <1>4 DEF ConnectionLost, Goto
  <1>5. CASE SendPreliminary
    <2>1. /\ Send(Reply("150", transfers + 1)) /\ transfers' = transfers + 1
          /\ UNCHANGED <<pending, verdict, transfer_thread>>
      BY <1>5 DEF SendPreliminary, Goto
    <2>2. Reply("150", transfers + 1) \in Answers
      BY PreliminaryReply
    <2>3. replies' \in Seq(Answers)
      BY <2>1, <2>2, SentReplies
    <2> QED
      BY <2>1, <2>3
  <1>6. CASE StartMarks
    BY <1>6 DEF StartMarks, Goto
  <1>7. CASE StartFields
    BY <1>7 DEF StartFields, Goto
  <1>8. CASE StartFlags
    BY <1>8 DEF StartFlags, Goto
  <1>9. CASE RunTransfer
    BY <1>9 DEF RunTransfer
  <1>10. CASE Abort
    <2>1. /\ pending' = pending \/ pending' = Reply("no transfer", 0)
          /\ UNCHANGED <<replies, verdict, transfers, transfer_thread>>
      BY <1>10 DEF Abort, Continue, Respond
    <2>2. Reply("no transfer", 0) \in Answers
      BY ReplyType DEF Codes
    <2> QED
      BY <2>1, <2>2
  <1>11. CASE AbortCloses
    <2>1. /\ pending' = Reply("aborted", transfers)
          /\ UNCHANGED <<replies, verdict, transfers, transfer_thread>>
      BY <1>11 DEF AbortCloses, Respond
    <2>2. Reply("aborted", transfers) \in Answers
      BY ReplyType DEF Codes
    <2> QED
      BY <2>1, <2>2
  <1>12. CASE SuppressReplies("quit", "quit abort")
    BY <1>12 DEF SuppressReplies, Goto
  <1>13. CASE CloseAborts("quit abort", "quit close")
    BY <1>13 DEF CloseAborts, Goto, Cancel
  <1>14. CASE QuitReplies
    <2>1. /\ pending' = Reply("221", 0)
          /\ UNCHANGED <<replies, verdict, transfers, transfer_thread>>
      BY <1>14 DEF QuitReplies, CloseSocket, Respond
    <2>2. Reply("221", 0) \in Answers
      BY ReplyType DEF Codes
    <2> QED
      BY <2>1, <2>2
  <1>15. CASE CleanupBegins
    BY <1>15 DEF CleanupBegins
  <1>16. CASE SuppressReplies("cleanup suppress", "cleanup abort")
    BY <1>16 DEF SuppressReplies, Goto
  <1>17. CASE CloseAborts("cleanup abort", "cleanup close")
    BY <1>17 DEF CloseAborts, Goto, Cancel
  <1>18. CASE CleanupClosesSocket
    BY <1>18 DEF CleanupClosesSocket, Goto, CloseSocket
  <1>19. CASE CleanupJoins
    BY <1>19 DEF CleanupJoins, Goto
  <1>20. CASE CleanupDrops
    BY <1>20 DEF CleanupDrops, Goto
  <1>21. CASE CleanupEnds
    BY <1>21 DEF CleanupEnds, Goto, WorkerAlive
  <1>22. CASE WorkerOpens
    BY <1>22 DEF WorkerOpens, WorkerGoto
  <1>23. CASE WorkerCannotOpen
    BY <1>23 DEF WorkerCannotOpen, WorkerGoto
  <1>24. CASE WorkerCompletes
    BY <1>24 DEF WorkerCompletes, WorkerGoto
  <1>25. CASE WorkerFails
    BY <1>25 DEF WorkerFails, WorkerGoto
  <1>26. CASE WorkerUnregisters
    BY <1>26 DEF WorkerUnregisters, WorkerGoto
  <1>27. CASE WorkerStores
    BY <1>27 DEF WorkerStores, WorkerGoto
  <1>28. CASE WorkerLocks
    BY <1>28 DEF WorkerLocks, WorkerGoto
  <1>29. CASE WorkerReplies
    <2>1. /\ replies' = replies \/ Send(Reply(verdict, transfer_thread))
          /\ UNCHANGED <<pending, verdict, transfers, transfer_thread>>
      BY <1>29 DEF WorkerReplies, WorkerGoto
    <2>2. Reply(verdict, transfer_thread) \in Answers
      BY VerdictReply
    <2>3. replies' \in Seq(Answers)
      BY <2>1, <2>2, SentReplies
    <2> QED
      BY <2>1, <2>3
  <1>30. CASE FinishUnmarks
    BY <1>30 DEF FinishUnmarks, WorkerGoto
  <1>31. CASE FinishFields
    BY <1>31 DEF FinishFields, WorkerGoto
  <1>32. CASE FinishFlags
    <2>1. transfer_thread' = 0 /\ UNCHANGED <<replies, pending, verdict, transfers>>
      BY <1>32 DEF FinishFlags, WorkerGoto
    <2> QED
      BY <2>1
  <1>33. CASE ClientGoes
    BY <1>33 DEF ClientGoes
  <1>34. ASSUME NEW c \in Commands, ClientSends(c)
        PROVE  Shape'
    BY <1>34 DEF ClientSends
  <1>35. CASE UNCHANGED vars
    BY <1>35 DEF vars
  <1> QED
    BY <1>1, <1>2, <1>3, <1>4, <1>5, <1>6, <1>7, <1>8, <1>9, <1>10, <1>11,
       <1>12, <1>13, <1>14, <1>15, <1>16, <1>17, <1>18, <1>19, <1>20, <1>21,
       <1>22, <1>23, <1>24, <1>25, <1>26, <1>27, <1>28, <1>29, <1>30, <1>31,
       <1>32, <1>33, <1>34, <1>35
       DEF Next, ServerStep, ControlStep, ControlRuns, WorkerStep, ClientStep, Quit, Cleanup

(* A new session has said nothing.                                           *)
LEMMA InitShape == Init => Shape
  BY DEF Init, Shape, NoReply, Reply, Answers, Codes

(* Replies keep their shape in every reachable state.                        *)
THEOREM Shapes == Spec => []Shape
  <1>1. Shape /\ ThreadsInv /\ [Next]_vars => Shape'
    BY NextShape
  <1>2. QED
    BY <1>1, InitShape, Threads, PTL DEF Spec

-----------------------------------------------------------------------------
(* Nothing after the 221 *)

(* QUIT has been answered: the control thread only cleans up from here, and  *)
(* the worker may no longer reply.                                           *)
Departed == control_pc \in CleaningUp \cup {"cleanup"} /\ suppress_transfer_reply

(* The 221 is prepared after the replies are suppressed, and ends the        *)
(* conversation.                                                             *)
GoodbyeInv ==
  /\ NothingAfterGoodbye
  /\ \A i \in DOMAIN replies : replies[i].code = "221" => Departed
  /\ control_pc \in {"quit abort", "quit close"} => suppress_transfer_reply
  /\ control_pc = "reply" /\ pending.code = "221" => suppress_transfer_reply

(* A new session has said nothing.                                           *)
LEMMA InitGoodbye == Init => GoodbyeInv
  BY DEF Init, GoodbyeInv, NothingAfterGoodbye

(* A reply sent before the 221 is no 221, or is the last.                    *)
LEMMA SentBeforeGoodbye ==
  ASSUME Shape, GoodbyeInv, ~Departed, NEW r \in Answers, Send(r)
  PROVE  \A i \in DOMAIN replies' :
           replies'[i].code = "221" => i = Len(replies') /\ r.code = "221"
  BY SentReplies DEF GoodbyeInv

(* Every step keeps the 221 last.                                            *)
LEMMA NextGoodbye == GoodbyeInv /\ Shape /\ ThreadsInv /\ [Next]_vars => GoodbyeInv'
  <1> SUFFICES ASSUME GoodbyeInv, Shape, ThreadsInv, [Next]_vars PROVE GoodbyeInv'
    OBVIOUS
  <1> USE DEF GoodbyeInv, NothingAfterGoodbye, Departed, CleaningUp, streams, control_vars,
              worker_vars, transfer_vars, socket_vars
  <1>1. CASE ReceiveCommand
    <2>1. /\ control_pc = "recv" /\ control_pc' \in {"reply", "abort", "quit", "preliminary"}
          /\ pending' = pending \/ pending' \in Direct
          /\ control_pc' = "reply" => pending' \in Direct
      BY <1>1 DEF ReceiveCommand, Dispatch, Respond, Continue, Direct
    <2>2. /\ UNCHANGED <<replies, connected, cleanup_started, joined, control_conn, transfers>>
          /\ UNCHANGED <<suppress_transfer_reply, verdict, worker_pc, transfer_lock>>
          /\ UNCHANGED <<transfer_thread, transfer_in_progress, suppress_current_transfer_reply,
                         cancel_event>>
      BY <1>1 DEF ReceiveCommand, worker_vars, transfer_vars
    <2> QED
      BY <2>1, <2>2, ReplyType
  <1>2. CASE SendReply
    <2>1. /\ Send(pending) /\ control_pc = "reply"
          /\ control_pc' \in (IF pending.code = "221" THEN {"cleanup"} ELSE {"recv", "cleanup"})
          /\ UNCHANGED <<pending, suppress_transfer_reply>>
      BY <1>2 DEF SendReply, AfterSend
    <2>2. \A i \in DOMAIN replies' :
            replies'[i].code = "221" => i = Len(replies') /\ pending.code = "221"
      BY <2>1, SentBeforeGoodbye DEF Shape
    <2> QED
      BY <2>1, <2>2
  <1>3. CASE ControlTimeout
    <2>1. /\ Send(Reply("421", 0)) /\ control_pc = "recv" /\ control_pc' = "cleanup"
          /\ UNCHANGED <<pending, suppress_transfer_reply>>
      BY <1>3 DEF ControlTimeout
    <2>2. Reply("421", 0) \in Answers /\ Reply("421", 0).code = "421"
      BY ReplyType DEF Codes
    <2>3. \A i \in DOMAIN replies' :
            replies'[i].code = "221" => i = Len(replies') /\ Reply("421", 0).code = "221"
      BY <2>1, <2>2, SentBeforeGoodbye
    <2> QED
      BY <2>1, <2>2, <2>3
  <1>4. CASE ConnectionLost
    BY <1>4 DEF ConnectionLost, Goto
  <1>5. CASE SendPreliminary
    <2> DEFINE r == Reply("150", transfers + 1)
    <2>1. /\ Send(r) /\ control_pc = "preliminary" /\ control_pc' \in {"start", "cleanup"}
          /\ UNCHANGED <<pending, suppress_transfer_reply>>
      BY <1>5 DEF SendPreliminary, Goto, AfterSend
    <2>2. r \in Answers /\ r.code = "150"
      BY PreliminaryReply
    <2>3. \A i \in DOMAIN replies' :
            replies'[i].code = "221" => i = Len(replies') /\ r.code = "221"
      BY <2>1, <2>2, SentBeforeGoodbye
    <2> QED
      BY <2>1, <2>2, <2>3
  <1>6. CASE StartMarks
    BY <1>6 DEF StartMarks, Goto
  <1>7. CASE StartFields
    BY <1>7 DEF StartFields, Goto
  <1>8. CASE StartFlags
    BY <1>8 DEF StartFlags, Goto
  <1>9. CASE RunTransfer
    BY <1>9 DEF RunTransfer
  <1>10. CASE Abort
    <2>1. /\ control_pc' = "abort close" \/ pending' = Reply("no transfer", 0)
          /\ control_pc = "abort" /\ control_pc' \in {"abort close", "reply"}
          /\ UNCHANGED <<replies, suppress_transfer_reply>>
      BY <1>10 DEF Abort, Continue, Respond
    <2>2. Reply("no transfer", 0).code # "221"
      BY DEF Reply
    <2> QED
      BY <2>1, <2>2
  <1>11. CASE AbortCloses
    <2>1. /\ control_pc = "abort close" /\ control_pc' = "reply"
          /\ pending' = Reply("aborted", transfers)
          /\ UNCHANGED <<replies, suppress_transfer_reply>>
      BY <1>11 DEF AbortCloses, Respond
    <2>2. Reply("aborted", transfers).code # "221"
      BY DEF Reply
    <2> QED
      BY <2>1, <2>2
  <1>12. CASE SuppressReplies("quit", "quit abort")
    BY <1>12 DEF SuppressReplies, Goto
  <1>13. CASE CloseAborts("quit abort", "quit close")
    BY <1>13 DEF CloseAborts, Goto, Cancel
  <1>14. CASE QuitReplies
    BY <1>14 DEF QuitReplies, CloseSocket, Respond, Reply
  <1>15. CASE CleanupBegins
    BY <1>15 DEF CleanupBegins
  <1>16. CASE SuppressReplies("cleanup suppress", "cleanup abort")
    BY <1>16 DEF SuppressReplies, Goto
  <1>17. CASE CloseAborts("cleanup abort", "cleanup close")
    BY <1>17 DEF CloseAborts, Goto, Cancel
  <1>18. CASE CleanupClosesSocket
    BY <1>18 DEF CleanupClosesSocket, Goto, CloseSocket
  <1>19. CASE CleanupJoins
    BY <1>19 DEF CleanupJoins, Goto
  <1>20. CASE CleanupDrops
    BY <1>20 DEF CleanupDrops, Goto
  <1>21. CASE CleanupEnds
    BY <1>21 DEF CleanupEnds, Goto, WorkerAlive
  <1>22. CASE WorkerOpens
    BY <1>22 DEF WorkerOpens, WorkerGoto
  <1>23. CASE WorkerCannotOpen
    BY <1>23 DEF WorkerCannotOpen, WorkerGoto
  <1>24. CASE WorkerCompletes
    BY <1>24 DEF WorkerCompletes, WorkerGoto
  <1>25. CASE WorkerFails
    BY <1>25 DEF WorkerFails, WorkerGoto
  <1>26. CASE WorkerUnregisters
    BY <1>26 DEF WorkerUnregisters, WorkerGoto
  <1>27. CASE WorkerStores
    BY <1>27 DEF WorkerStores, WorkerGoto
  <1>28. CASE WorkerLocks
    BY <1>28 DEF WorkerLocks, WorkerGoto
  <1>29. CASE WorkerReplies
    <2> DEFINE r == Reply(verdict, transfer_thread)
    <2>1. UNCHANGED <<control_pc, pending, suppress_transfer_reply>>
      BY <1>29 DEF WorkerReplies, WorkerGoto
    <2>2. CASE suppress_transfer_reply
      BY <1>29, <2>1, <2>2 DEF WorkerReplies
    <2>3. CASE ~suppress_transfer_reply
      <3>1. replies' = replies \/ Send(r)
        BY <1>29 DEF WorkerReplies
      <3>2. r \in Answers /\ r.code # "221"
        BY VerdictReply
      <3>3. replies' = replies \/ \A i \in DOMAIN replies' : replies'[i].code # "221"
        BY <2>3, <3>1, <3>2, SentBeforeGoodbye
      <3> QED
        BY <2>1, <2>3, <3>3
    <2> QED
      BY <2>2, <2>3
  <1>30. CASE FinishUnmarks
    BY <1>30 DEF FinishUnmarks, WorkerGoto
  <1>31. CASE FinishFields
    BY <1>31 DEF FinishFields, WorkerGoto
  <1>32. CASE FinishFlags
    BY <1>32 DEF FinishFlags, WorkerGoto
  <1>33. CASE ClientGoes
    BY <1>33 DEF ClientGoes
  <1>34. ASSUME NEW c \in Commands, ClientSends(c)
        PROVE  GoodbyeInv'
    BY <1>34 DEF ClientSends
  <1>35. CASE UNCHANGED vars
    BY <1>35 DEF vars
  <1> QED
    BY <1>1, <1>2, <1>3, <1>4, <1>5, <1>6, <1>7, <1>8, <1>9, <1>10, <1>11,
       <1>12, <1>13, <1>14, <1>15, <1>16, <1>17, <1>18, <1>19, <1>20, <1>21,
       <1>22, <1>23, <1>24, <1>25, <1>26, <1>27, <1>28, <1>29, <1>30, <1>31,
       <1>32, <1>33, <1>34, <1>35
       DEF Next, ServerStep, ControlStep, ControlRuns, WorkerStep, ClientStep, Quit, Cleanup

(* After the 221 that answers QUIT the server is silent.                     *)
THEOREM GoodbyeIsLast == Spec => []NothingAfterGoodbye
  <1>1. GoodbyeInv /\ Shape /\ ThreadsInv /\ [Next]_vars => GoodbyeInv'
    BY NextGoodbye
  <1>2. GoodbyeInv => NothingAfterGoodbye
    BY DEF GoodbyeInv
  <1>3. QED
    BY <1>1, <1>2, InitGoodbye, Shapes, Threads, PTL DEF Spec

-----------------------------------------------------------------------------
(* Which transfer the session is in *)

(* The worker, until it has unmarked the session.                            *)
Active == worker_pc \in {"open", "data", "unregister", "store", "ended", "verdict", "finish"}

(* Before QUIT and cleanup().                                                *)
Serving == {"recv", "preliminary", "abort", "abort close", "quit"} \cup Starting

(* The active worker runs the transfer that was announced last, the session  *)
(* is marked only for it, and nothing silences it while commands are read.   *)
TransferInv ==
  /\ Active => transfer_thread = transfers
  /\ transfer_in_progress => Active \/ control_pc \in {"start fields", "start flags", "run"}
  /\ control_pc \in Serving \cup {"reply", "quit abort", "quit close"} => control_conn
  /\ control_pc \in Serving => ~suppress_transfer_reply
  /\ control_pc = "reply" /\ suppress_transfer_reply => pending.code = "221"

(* A new session has no transfer.                                            *)
LEMMA InitTransfer == Init => TransferInv
  BY DEF Init, TransferInv, Active, Serving, Starting

(* Every step keeps worker, mark and announcement together.                  *)
LEMMA NextTransfer == TransferInv /\ Shape /\ ThreadsInv /\ [Next]_vars => TransferInv'
  <1> SUFFICES ASSUME TransferInv, Shape, ThreadsInv, [Next]_vars PROVE TransferInv'
    OBVIOUS
  <1> USE DEF TransferInv, Active, Serving, Starting, ThreadsInv, LockOwner, StartAfterUnmark,
              MarkCoversTransfer, CleanupKnowsWorker, CleaningUp, WorkerRuns, WorkerFinishing,
              streams, control_vars, worker_vars, transfer_vars, socket_vars
  <1>1. CASE ReceiveCommand
    <2>1. /\ control_pc = "recv" /\ control_pc' \in {"reply", "abort", "quit", "preliminary"}
          /\ pending' = pending \/ pending' \in Direct
          /\ control_pc' = "reply" => pending' \in Direct
      BY <1>1 DEF ReceiveCommand, Dispatch, Respond, Continue, Direct
    <2>2. /\ UNCHANGED <<replies, connected, cleanup_started, joined, control_conn, transfers>>
          /\ UNCHANGED <<suppress_transfer_reply, verdict, worker_pc, transfer_lock>>
          /\ UNCHANGED <<transfer_thread, transfer_in_progress, suppress_current_transfer_reply,
                         cancel_event>>
      BY <1>1 DEF ReceiveCommand, worker_vars, transfer_vars
    <2> HIDE DEF LockOwner
    <2> QED
      BY <2>1, <2>2
  <1>2. CASE SendReply
    <2>1. /\ control_pc = "reply"
          /\ control_pc' \in (IF pending.code = "221" THEN {"cleanup"} ELSE {"recv", "cleanup"})
          /\ UNCHANGED <<worker_pc, transfer_thread, transfers, transfer_in_progress,
                         control_conn, suppress_transfer_reply>>
      BY <1>2 DEF SendReply, AfterSend
    <2> HIDE DEF LockOwner
    <2> QED
      BY <2>1
  <1>3. CASE ControlTimeout
    BY <1>3 DEF ControlTimeout
  <1>4. CASE ConnectionLost
    BY <1>4 DEF ConnectionLost, Goto
  <1>5. CASE SendPreliminary
    <2>1. /\ control_pc = "preliminary" /\ control_pc' \in {"start", "cleanup"}
          /\ UNCHANGED <<worker_pc, transfer_thread, transfer_in_progress, control_conn,
                         suppress_transfer_reply>>
      BY <1>5 DEF SendPreliminary, Goto, AfterSend
    <2> HIDE DEF LockOwner
    <2> QED
      BY <2>1
  <1>6. CASE StartMarks
    BY <1>6 DEF StartMarks, Goto
  <1>7. CASE StartFields
    BY <1>7 DEF StartFields, Goto
  <1>8. CASE StartFlags
    BY <1>8 DEF StartFlags, Goto
  <1>9. CASE RunTransfer
    BY <1>9 DEF RunTransfer
  <1>10. CASE Abort
    BY <1>10 DEF Abort, Cancel, Continue, Respond, Reply
  <1>11. CASE AbortCloses
    BY <1>11 DEF AbortCloses, Respond, Reply
  <1>12. CASE SuppressReplies("quit", "quit abort")
    BY <1>12 DEF SuppressReplies, Goto
  <1>13. CASE CloseAborts("quit abort", "quit close")
    BY <1>13 DEF CloseAborts, Goto, Cancel
  <1>14. CASE QuitReplies
    <2>1. /\ control_pc = "quit close" /\ control_pc' = "reply" /\ pending'.code = "221"
          /\ UNCHANGED <<worker_pc, transfer_thread, transfers, transfer_in_progress, control_conn>>
      BY <1>14 DEF QuitReplies, CloseSocket, Respond, Reply
    <2>2. control_conn
      BY <2>1
    <2> HIDE DEF LockOwner
    <2> QED
      BY <2>1, <2>2
  <1>15. CASE CleanupBegins
    BY <1>15 DEF CleanupBegins
  <1>16. CASE SuppressReplies("cleanup suppress", "cleanup abort")
    BY <1>16 DEF SuppressReplies, Goto
  <1>17. CASE CloseAborts("cleanup abort", "cleanup close")
    BY <1>17 DEF CloseAborts, Goto, Cancel
  <1>18. CASE CleanupClosesSocket
    BY <1>18 DEF CleanupClosesSocket, Goto, CloseSocket
  <1>19. CASE CleanupJoins
    BY <1>19 DEF CleanupJoins, Goto
  <1>20. CASE CleanupDrops
    BY <1>20 DEF CleanupDrops, Goto
  <1>21. CASE CleanupEnds
    <2>1. /\ control_pc' = "closed"
          /\ UNCHANGED <<worker_pc, transfers, control_conn, suppress_transfer_reply>>
      BY <1>21 DEF CleanupEnds, Goto
    <2>2. control_pc = "finish"
      BY <1>21 DEF CleanupEnds, Goto
    <2>3. CASE ~WorkerAlive
      <3>1. worker_pc = "none"
        BY <2>2, <2>3 DEF WorkerAlive
      <3>2. ~transfer_in_progress
        BY <2>2, <3>1
      <3>3. ~transfer_in_progress'
        BY <1>21, <3>2 DEF CleanupEnds, Goto
      <3> QED
        BY <2>1, <3>1, <3>3
    <2>4. CASE WorkerAlive
      <3>1. UNCHANGED <<transfer_thread, transfer_in_progress>>
        BY <1>21, <2>4 DEF CleanupEnds, transfer_vars
      <3> QED
        BY <2>1, <2>2, <3>1
    <2> QED
      BY <2>3, <2>4
  <1>22. CASE WorkerOpens
    BY <1>22 DEF WorkerOpens, WorkerGoto
  <1>23. CASE WorkerCannotOpen
    BY <1>23 DEF WorkerCannotOpen, WorkerGoto
  <1>24. CASE WorkerCompletes
    BY <1>24 DEF WorkerCompletes, WorkerGoto
  <1>25. CASE WorkerFails
    BY <1>25 DEF WorkerFails, WorkerGoto
  <1>26. CASE WorkerUnregisters
    BY <1>26 DEF WorkerUnregisters, WorkerGoto
  <1>27. CASE WorkerStores
    BY <1>27 DEF WorkerStores, WorkerGoto
  <1>28. CASE WorkerLocks
    BY <1>28 DEF WorkerLocks, WorkerGoto
  <1>29. CASE WorkerReplies
    BY <1>29 DEF WorkerReplies, WorkerGoto
  <1>30. CASE FinishUnmarks
    BY <1>30 DEF FinishUnmarks, WorkerGoto
  <1>31. CASE FinishFields
    BY <1>31 DEF FinishFields, WorkerGoto
  <1>32. CASE FinishFlags
    BY <1>32 DEF FinishFlags, WorkerGoto
  <1>33. CASE ClientGoes
    BY <1>33 DEF ClientGoes
  <1>34. ASSUME NEW c \in Commands, ClientSends(c)
        PROVE  TransferInv'
    BY <1>34 DEF ClientSends
  <1>35. CASE UNCHANGED vars
    BY <1>35 DEF vars
  <1> QED
    BY <1>1, <1>2, <1>3, <1>4, <1>5, <1>6, <1>7, <1>8, <1>9, <1>10, <1>11,
       <1>12, <1>13, <1>14, <1>15, <1>16, <1>17, <1>18, <1>19, <1>20, <1>21,
       <1>22, <1>23, <1>24, <1>25, <1>26, <1>27, <1>28, <1>29, <1>30, <1>31,
       <1>32, <1>33, <1>34, <1>35
       DEF Next, ServerStep, ControlStep, ControlRuns, WorkerStep, ClientStep, Quit, Cleanup

(* Worker, mark and announcement agree in every reachable state.             *)
THEOREM Transferring == Spec => []TransferInv
  <1>1. TransferInv /\ Shape /\ ThreadsInv /\ [Next]_vars => TransferInv'
    BY NextTransfer
  <1>2. QED
    BY <1>1, InitTransfer, Shapes, Threads, PTL DEF Spec

-----------------------------------------------------------------------------
(* Who speaks *)

(* The replies a step may send.                                              *)
Speech ==
  \/ replies' = replies
  \/ Send(Reply("421", 0))
  \/ control_pc = "reply" /\ Send(pending)
  \/ /\ control_pc = "preliminary" /\ transfers' = transfers + 1
     /\ Send(Reply("150", transfers + 1))
  \/ /\ worker_pc = "verdict" /\ worker_pc' = "finish"
     /\ ~suppress_current_transfer_reply
     /\ UNCHANGED <<control_pc, pending, transfers, transfer_thread>>
     /\ Send(Reply(verdict, transfer_thread))

(* How the confirmation of an abort comes about.                             *)
Confirms ==
  /\ control_pc' = "reply" =>
       \/ pending'.code # "aborted"
       \/ control_pc = "reply" /\ UNCHANGED <<pending, transfers>>
       \/ control_pc = "abort close" /\ pending' = Reply("aborted", transfers)
  /\ control_pc' = "abort close" =>
       \/ control_pc = "abort close" /\ UNCHANGED transfers
       \/ /\ control_pc = "abort" /\ transfer_in_progress /\ transfer_lock = "free"
          /\ cancel_event' /\ suppress_current_transfer_reply'
          /\ UNCHANGED <<transfers, transfer_thread, worker_pc, replies>>

(* Every step speaks and confirms like that.                                 *)
LEMMA StepSpeaks == Shape /\ ThreadsInv /\ [Next]_vars => Speech /\ Confirms
  <1> SUFFICES ASSUME Shape, ThreadsInv, [Next]_vars PROVE Speech /\ Confirms
    OBVIOUS
  <1> USE DEF Speech, Confirms, streams, control_vars, worker_vars, transfer_vars, socket_vars
  <1>1. CASE ReceiveCommand
    <2>1. /\ control_pc = "recv" /\ control_pc' \in {"reply", "abort", "quit", "preliminary"}
          /\ pending' = pending \/ pending' \in Direct
          /\ control_pc' = "reply" => pending' \in Direct
      BY <1>1 DEF ReceiveCommand, Dispatch, Respond, Continue, Direct
    <2>2. /\ UNCHANGED <<replies, connected, cleanup_started, joined, control_conn, transfers>>
          /\ UNCHANGED <<suppress_transfer_reply, verdict, worker_pc, transfer_lock>>
          /\ UNCHANGED <<transfer_thread, transfer_in_progress, suppress_current_transfer_reply,
                         cancel_event>>
      BY <1>1 DEF ReceiveCommand, worker_vars, transfer_vars
    <2> QED
      BY <2>1, <2>2, ReplyType
  <1>2. CASE SendReply
    BY <1>2 DEF SendReply, AfterSend
  <1>3. CASE ControlTimeout
    BY <1>3 DEF ControlTimeout
  <1>4. CASE ConnectionLost
    BY <1>4 DEF ConnectionLost, Goto
  <1>5. CASE SendPreliminary
    BY <1>5 DEF SendPreliminary, Goto, AfterSend
  <1>6. CASE StartMarks
    BY <1>6 DEF StartMarks, Goto
  <1>7. CASE StartFields
    BY <1>7 DEF StartFields, Goto
  <1>8. CASE StartFlags
    BY <1>8 DEF StartFlags, Goto
  <1>9. CASE RunTransfer
    BY <1>9 DEF RunTransfer
  <1>10. CASE Abort
    <2>1. Reply("no transfer", 0).code # "aborted"
      BY DEF Reply
    <2> QED
      BY <1>10, <2>1 DEF Abort, Cancel, Continue, Respond
  <1>11. CASE AbortCloses
    BY <1>11 DEF AbortCloses, Respond
  <1>12. CASE SuppressReplies("quit", "quit abort")
    BY <1>12 DEF SuppressReplies, Goto
  <1>13. CASE CloseAborts("quit abort", "quit close")
    BY <1>13 DEF CloseAborts, Goto, Cancel
  <1>14. CASE QuitReplies
    <2>1. Reply("221", 0).code # "aborted"
      BY DEF Reply
    <2> QED
      BY <1>14, <2>1 DEF QuitReplies, CloseSocket, Respond
  <1>15. CASE CleanupBegins
    BY <1>15 DEF CleanupBegins
  <1>16. CASE SuppressReplies("cleanup suppress", "cleanup abort")
    BY <1>16 DEF SuppressReplies, Goto
  <1>17. CASE CloseAborts("cleanup abort", "cleanup close")
    BY <1>17 DEF CloseAborts, Goto, Cancel
  <1>18. CASE CleanupClosesSocket
    BY <1>18 DEF CleanupClosesSocket, Goto, CloseSocket
  <1>19. CASE CleanupJoins
    BY <1>19 DEF CleanupJoins, Goto
  <1>20. CASE CleanupDrops
    BY <1>20 DEF CleanupDrops, Goto
  <1>21. CASE CleanupEnds
    BY <1>21 DEF CleanupEnds, Goto, WorkerAlive
  <1>22. CASE WorkerOpens
    BY <1>22 DEF WorkerOpens, WorkerGoto
  <1>23. CASE WorkerCannotOpen
    BY <1>23 DEF WorkerCannotOpen, WorkerGoto
  <1>24. CASE WorkerCompletes
    BY <1>24 DEF WorkerCompletes, WorkerGoto
  <1>25. CASE WorkerFails
    BY <1>25 DEF WorkerFails, WorkerGoto
  <1>26. CASE WorkerUnregisters
    BY <1>26 DEF WorkerUnregisters, WorkerGoto
  <1>27. CASE WorkerStores
    BY <1>27 DEF WorkerStores, WorkerGoto
  <1>28. CASE WorkerLocks
    BY <1>28 DEF WorkerLocks, WorkerGoto
  <1>29. CASE WorkerReplies
    BY <1>29 DEF WorkerReplies, WorkerGoto
  <1>30. CASE FinishUnmarks
    BY <1>30 DEF FinishUnmarks, WorkerGoto
  <1>31. CASE FinishFields
    BY <1>31 DEF FinishFields, WorkerGoto
  <1>32. CASE FinishFlags
    BY <1>32 DEF FinishFlags, WorkerGoto
  <1>33. CASE ClientGoes
    BY <1>33 DEF ClientGoes
  <1>34. ASSUME NEW c \in Commands, ClientSends(c)
        PROVE  Speech /\ Confirms
    BY <1>34 DEF ClientSends
  <1>35. CASE UNCHANGED vars
    BY <1>35 DEF vars
  <1> QED
    BY <1>1, <1>2, <1>3, <1>4, <1>5, <1>6, <1>7, <1>8, <1>9, <1>10, <1>11,
       <1>12, <1>13, <1>14, <1>15, <1>16, <1>17, <1>18, <1>19, <1>20, <1>21,
       <1>22, <1>23, <1>24, <1>25, <1>26, <1>27, <1>28, <1>29, <1>30, <1>31,
       <1>32, <1>33, <1>34, <1>35
       DEF Next, ServerStep, ControlStep, ControlRuns, WorkerStep, ClientStep, Quit, Cleanup

-----------------------------------------------------------------------------
(* Aborts are not lost, and no transfer has two outcomes *)

(* Transfer t was announced, and the session is not about to start it.       *)
Past(t) ==
  /\ t \in 1..transfers
  /\ control_pc \in Starting => t # transfers

(* The worker of transfer t, if it still runs, knows that t is aborted.      *)
Held(t) ==
  /\ Past(t)
  /\ t = transfer_thread /\ worker_pc \notin {"finish fields", "finish flags"}
       => cancel_event /\ suppress_current_transfer_reply

(* The worker of transfer t has delivered its verdict.                       *)
Told(t) ==
  /\ Past(t)
  /\ t = transfer_thread => worker_pc \in {"finish", "finish fields", "finish flags"}

(* What is held stays held, and what is told stays told.                     *)
LEMMA TransferStays ==
  ASSUME NEW t \in Nat, Shape, ThreadsInv, [Next]_vars
  PROVE  (Held(t) => Held(t)') /\ (Told(t) => Told(t)')
  <1>number. transfers \in Nat
    BY DEF Shape
  <1>some. t \in 1..transfers => t # 0
    BY <1>number
  <1>next. transfers' = transfers + 1 /\ t \in 1..transfers
             => t \in 1..transfers' /\ t # transfers'
    BY <1>number
  <1> USE DEF Held, Told, Past, Shape, Starting, ThreadsInv, LockOwner, StartAfterUnmark,
              MarkCoversTransfer, CleanupKnowsWorker, CleaningUp, WorkerRuns, WorkerFinishing,
              streams, control_vars, worker_vars, transfer_vars, socket_vars
  <1>1. CASE ReceiveCommand
    <2>1. /\ control_pc = "recv" /\ control_pc' \in {"reply", "abort", "quit", "preliminary"}
          /\ pending' = pending \/ pending' \in Direct
          /\ control_pc' = "reply" => pending' \in Direct
      BY <1>1 DEF ReceiveCommand, Dispatch, Respond, Continue, Direct
    <2>2. /\ UNCHANGED <<replies, connected, cleanup_started, joined, control_conn, transfers>>
          /\ UNCHANGED <<suppress_transfer_reply, verdict, worker_pc, transfer_lock>>
          /\ UNCHANGED <<transfer_thread, transfer_in_progress, suppress_current_transfer_reply,
                         cancel_event>>
      BY <1>1 DEF ReceiveCommand, worker_vars, transfer_vars
    <2> QED
      BY <2>1, <2>2
  <1>2. CASE SendReply
    BY <1>2 DEF SendReply, AfterSend
  <1>3. CASE ControlTimeout
    BY <1>3 DEF ControlTimeout
  <1>4. CASE ConnectionLost
    BY <1>4 DEF ConnectionLost, Goto
  <1>5. CASE SendPreliminary
    <2>1. /\ transfers' = transfers + 1
          /\ UNCHANGED <<transfer_thread, worker_pc, cancel_event,
                         suppress_current_transfer_reply>>
      BY <1>5 DEF SendPreliminary, Goto
    <2> HIDE DEF Shape, LockOwner
    <2> QED
      BY <2>1, <1>next
  <1>6. CASE StartMarks
    BY <1>6 DEF StartMarks, Goto
  <1>7. CASE StartFields
    BY <1>7 DEF StartFields, Goto
  <1>8. CASE StartFlags
    <2>1. /\ control_pc = "start flags" /\ control_pc' = "run"
          /\ UNCHANGED <<transfers, transfer_thread, worker_pc>>
      BY <1>8 DEF StartFlags, Goto
    <2>2. worker_pc \notin {"finish fields", "finish flags"} => transfer_thread = 0
      BY <2>1
    <2> HIDE DEF Shape, LockOwner
    <2> QED
      BY <2>1, <2>2, <1>some
  <1>9. CASE RunTransfer
    BY <1>9 DEF RunTransfer
  <1>10. CASE Abort
    BY <1>10 DEF Abort, Cancel, Continue, Respond, Reply
  <1>11. CASE AbortCloses
    BY <1>11 DEF AbortCloses, Respond, Reply
  <1>12. CASE SuppressReplies("quit", "quit abort")
    BY <1>12 DEF SuppressReplies, Goto
  <1>13. CASE CloseAborts("quit abort", "quit close")
    BY <1>13 DEF CloseAborts, Goto, Cancel
  <1>14. CASE QuitReplies
    BY <1>14 DEF QuitReplies, CloseSocket, Respond, Reply
  <1>15. CASE CleanupBegins
    BY <1>15 DEF CleanupBegins
  <1>16. CASE SuppressReplies("cleanup suppress", "cleanup abort")
    BY <1>16 DEF SuppressReplies, Goto
  <1>17. CASE CloseAborts("cleanup abort", "cleanup close")
    BY <1>17 DEF CloseAborts, Goto, Cancel
  <1>18. CASE CleanupClosesSocket
    BY <1>18 DEF CleanupClosesSocket, Goto, CloseSocket
  <1>19. CASE CleanupJoins
    BY <1>19 DEF CleanupJoins, Goto
  <1>20. CASE CleanupDrops
    BY <1>20 DEF CleanupDrops, Goto
  <1>21. CASE CleanupEnds
    <2>1. /\ control_pc = "finish" /\ control_pc' = "closed"
          /\ UNCHANGED <<transfers, worker_pc>>
      BY <1>21 DEF CleanupEnds, Goto
    <2>2. CASE WorkerAlive
      <3>1. UNCHANGED <<transfer_thread, transfer_vars>>
        BY <1>21, <2>2 DEF CleanupEnds
      <3> QED
        BY <2>1, <3>1
    <2>3. CASE ~WorkerAlive
      <3>1. worker_pc = "none"
        BY <2>1, <2>3 DEF WorkerAlive
      <3>2. transfer_thread' = 0
        BY <1>21, <2>3 DEF CleanupEnds
      <3> HIDE DEF Shape, LockOwner
      <3> QED
        BY <2>1, <3>1, <3>2, <1>some
    <2> QED
      BY <2>2, <2>3
  <1>22. CASE WorkerOpens
    BY <1>22 DEF WorkerOpens, WorkerGoto
  <1>23. CASE WorkerCannotOpen
    BY <1>23 DEF WorkerCannotOpen, WorkerGoto
  <1>24. CASE WorkerCompletes
    BY <1>24 DEF WorkerCompletes, WorkerGoto
  <1>25. CASE WorkerFails
    BY <1>25 DEF WorkerFails, WorkerGoto
  <1>26. CASE WorkerUnregisters
    BY <1>26 DEF WorkerUnregisters, WorkerGoto
  <1>27. CASE WorkerStores
    BY <1>27 DEF WorkerStores, WorkerGoto
  <1>28. CASE WorkerLocks
    BY <1>28 DEF WorkerLocks, WorkerGoto
  <1>29. CASE WorkerReplies
    BY <1>29 DEF WorkerReplies, WorkerGoto
  <1>30. CASE FinishUnmarks
    BY <1>30 DEF FinishUnmarks, WorkerGoto
  <1>31. CASE FinishFields
    BY <1>31 DEF FinishFields, WorkerGoto
  <1>32. CASE FinishFlags
    <2>1. transfer_thread' = 0 /\ UNCHANGED <<control_pc, transfers>>
      BY <1>32 DEF FinishFlags, WorkerGoto
    <2> HIDE DEF Shape, LockOwner
    <2> QED
      BY <2>1, <1>some
  <1>33. CASE ClientGoes
    BY <1>33 DEF ClientGoes
  <1>34. ASSUME NEW c \in Commands, ClientSends(c)
        PROVE  (Held(t) => Held(t)') /\ (Told(t) => Told(t)')
    BY <1>34 DEF ClientSends
  <1>35. CASE UNCHANGED vars
    BY <1>35 DEF vars
  <1> QED
    BY <1>1, <1>2, <1>3, <1>4, <1>5, <1>6, <1>7, <1>8, <1>9, <1>10, <1>11,
       <1>12, <1>13, <1>14, <1>15, <1>16, <1>17, <1>18, <1>19, <1>20, <1>21,
       <1>22, <1>23, <1>24, <1>25, <1>26, <1>27, <1>28, <1>29, <1>30, <1>31,
       <1>32, <1>33, <1>34, <1>35
       DEF Next, ServerStep, ControlStep, ControlRuns, WorkerStep, ClientStep, Quit, Cleanup

(* Every confirmed abort is held, already while it is being confirmed.       *)
AbortInv ==
  /\ \A i \in DOMAIN replies : replies[i].code = "aborted" => Held(replies[i].transfer)
  /\ control_pc = "reply" /\ pending.code = "aborted" => Held(pending.transfer)
  /\ control_pc = "abort close" => Held(transfers)

(* A new session has aborted nothing.                                        *)
LEMMA InitAbort == Init => AbortInv
  BY DEF Init, AbortInv

(* A marked session has a transfer, and the worker active in it runs it.     *)
LEMMA MarkedTransfer ==
  ASSUME Shape, ThreadsInv, TransferInv, control_pc = "abort", transfer_in_progress,
         transfer_lock = "free"
  PROVE  /\ transfers \in 1..transfers /\ transfer_thread = transfers
         /\ worker_pc \in {"open", "data", "unregister", "store", "ended"}
  <1>1. /\ worker_pc \in {"open", "data", "unregister", "store", "ended"}
        /\ transfer_thread = transfers /\ transfer_thread # 0
    BY DEF TransferInv, Active, ThreadsInv, LockOwner, WorkerRuns, WorkerFinishing
  <1>2. transfers \in Nat
    BY DEF Shape
  <1> QED
    BY <1>1, <1>2

(* Every step keeps the aborts.                                              *)
LEMMA NextAbort ==
  AbortInv /\ TransferInv /\ Shape /\ ThreadsInv /\ [Next]_vars => AbortInv'
  <1> SUFFICES ASSUME AbortInv, TransferInv, Shape, ThreadsInv, [Next]_vars PROVE AbortInv'
    OBVIOUS
  <1>1. Speech /\ Confirms
    BY StepSpeaks
  <1>2. \A t \in Nat : Held(t) => Held(t)'
    BY TransferStays
  <1>3. transfers \in Nat /\ pending \in Answers /\ pending.transfer \in Nat
    BY DEF Shape, Answers
  <1>4. ASSUME NEW t \in Nat, NEW i \in DOMAIN replies',
               replies'[i].code = "aborted", replies'[i].transfer = t
        PROVE  Held(t)'
    <2>1. CASE i \in DOMAIN replies /\ replies'[i] = replies[i]
      <3>1. Held(t)
        BY <1>4, <2>1 DEF AbortInv
      <3> QED
        BY <1>2, <3>1
    <2>2. CASE control_pc = "reply" /\ Send(pending) /\ replies'[i] = pending
      <3>1. Held(t)
        BY <1>4, <2>2 DEF AbortInv
      <3> QED
        BY <1>2, <3>1
    <2>3. replies' = replies => <2>1!1
      BY <1>4
    <2>4. control_pc = "reply" /\ Send(pending) => <2>1!1 \/ <2>2!1
      BY <1>3, <1>4, SentReplies
    <2>5. ASSUME NEW r \in Answers, Send(r), r.code # "aborted" PROVE <2>1!1
      BY <1>4, <2>5, SentReplies
    <2>6. Reply("421", 0) \in Answers /\ Reply("421", 0).code # "aborted"
      BY ReplyType DEF Codes
    <2> QED
      BY <1>1, <2>1, <2>2, <2>3, <2>4, <2>5, <2>6, PreliminaryReply, VerdictReply DEF Speech
  <1>5. ASSUME NEW t \in Nat, control_pc' = "reply", pending'.code = "aborted",
               pending'.transfer = t
        PROVE  Held(t)'
    <2>1. CASE control_pc = "reply" /\ UNCHANGED pending
      <3>1. Held(t)
        BY <1>5, <2>1 DEF AbortInv
      <3> QED
        BY <1>2, <3>1
    <2>2. CASE control_pc = "abort close" /\ pending' = Reply("aborted", transfers)
      <3>1. t = transfers
        BY <1>5, <2>2 DEF Reply
      <3>2. Held(t)
        BY <2>2, <3>1 DEF AbortInv
      <3> QED
        BY <1>2, <3>2
    <2> QED
      BY <1>1, <1>5, <2>1, <2>2 DEF Confirms
  <1>6. ASSUME NEW t \in Nat, control_pc' = "abort close", t = transfers' PROVE Held(t)'
    <2>1. CASE control_pc = "abort close" /\ UNCHANGED transfers
      <3>1. Held(t)
        BY <1>6, <2>1 DEF AbortInv
      <3> QED
        BY <1>2, <3>1
    <2>2. CASE /\ control_pc = "abort" /\ transfer_in_progress /\ transfer_lock = "free"
               /\ cancel_event' /\ suppress_current_transfer_reply'
               /\ UNCHANGED <<transfers, transfer_thread, worker_pc, replies>>
      <3>1. transfers \in 1..transfers
        BY <2>2, MarkedTransfer
      <3> QED
        BY <1>6, <2>2, <3>1 DEF Held, Past, Starting
    <2> QED
      BY <1>1, <1>6, <2>1, <2>2 DEF Confirms
  <1>7. Shape'
    BY NextShape
  <1>8. ASSUME NEW i \in DOMAIN replies', replies'[i].code = "aborted"
        PROVE  Held(replies[i].transfer)'
    <2>1. replies'[i] \in Answers
      BY <1>7, <1>8 DEF Shape
    <2>2. replies'[i].transfer \in Nat
      BY <2>1 DEF Answers
    <2> QED
      BY <1>4, <1>8, <2>2 DEF Held, Past
  <1>9. control_pc' = "reply" /\ pending'.code = "aborted" => Held(pending.transfer)'
    <2>1. pending'.transfer \in Nat
      BY <1>7 DEF Shape, Answers
    <2> QED
      BY <1>5, <2>1 DEF Held, Past
  <1>10. control_pc' = "abort close" => Held(transfers)'
    <2>1. transfers' \in Nat
      BY <1>7 DEF Shape
    <2> QED
      BY <1>6, <2>1 DEF Held, Past
  <1> QED
    BY <1>8, <1>9, <1>10 DEF AbortInv

(* Held aborts are an invariant.                                             *)
THEOREM Aborts == Spec => []AbortInv
  <1>1. AbortInv /\ TransferInv /\ Shape /\ ThreadsInv /\ [Next]_vars => AbortInv'
    BY NextAbort
  <1>2. QED
    BY <1>1, InitAbort, Transferring, Shapes, Threads, PTL DEF Spec

(* A confirmed abort stays in force until the worker it concerns has passed  *)
(* its final reply, whatever the control thread starts in the meantime.      *)
THEOREM AbortsStay == Spec => []AbortNotLost
  <1>1. AbortInv => AbortNotLost
    BY DEF AbortInv, AbortNotLost, Held
  <1>2. QED
    BY <1>1, Aborts, PTL

(* The final reply of the worker for transfer t has been sent.               *)
Final(t) ==
  \E i \in DOMAIN replies : replies[i].code \in {"226", "426"} /\ replies[i].transfer = t

(* A transfer whose final reply was sent is told, and is not being aborted.  *)
VerdictInv ==
  /\ OneVerdict
  /\ \A t \in Nat : Final(t) => Told(t)
  /\ control_pc = "reply" /\ pending.code = "aborted" => ~Final(pending.transfer)
  /\ control_pc = "abort close" => ~Final(transfers)

(* A new session has told nothing.                                           *)
LEMMA InitVerdict == Init => VerdictInv
  BY DEF Init, VerdictInv, OneVerdict, Final

(* Only the worker makes a transfer final, with its verdict.                 *)
LEMMA NewFinal ==
  ASSUME Shape, Speech, Confirms, NEW t \in Nat, Final(t)', ~Final(t)
  PROVE  \/ control_pc = "reply" /\ pending.code \in {"226", "426"}
         \/ /\ worker_pc = "verdict" /\ worker_pc' = "finish" /\ t = transfer_thread
            /\ ~suppress_current_transfer_reply
            /\ UNCHANGED <<control_pc, pending, transfers, transfer_thread>>
  <1>1. PICK i \in DOMAIN replies' :
          replies'[i].code \in {"226", "426"} /\ replies'[i].transfer = t
    BY DEF Final
  <1>2. ~(i \in DOMAIN replies /\ replies'[i] = replies[i])
    BY <1>1 DEF Final
  <1>3. ASSUME NEW r \in Answers, Send(r) PROVE replies'[i] = r
    BY <1>1, <1>2, <1>3, SentReplies
  <1>4. replies' # replies
    BY <1>1, <1>2
  <1>5. Reply("421", 0) \in Answers /\ Reply("421", 0).code = "421"
    BY ReplyType DEF Codes
  <1>6. pending \in Answers
    BY DEF Shape
  <1>7. ~Send(Reply("421", 0)) /\ ~Send(Reply("150", transfers + 1))
    BY <1>1, <1>3, <1>5, PreliminaryReply
  <1> QED
    BY <1>1, <1>3, <1>4, <1>6, <1>7, VerdictReply DEF Speech

(* The control thread does not prepare the replies of a running transfer.    *)
PendingInv == pending.code \notin {"150", "226", "426"}

(* A new session prepares nothing.                                           *)
LEMMA InitPending == Init => PendingInv
  BY DEF Init, PendingInv, NoReply, Reply

(* Every step keeps the two kinds of replies apart.                          *)
LEMMA NextPending == PendingInv /\ [Next]_vars => PendingInv'
  <1> SUFFICES ASSUME PendingInv, [Next]_vars PROVE PendingInv'
    OBVIOUS
  <1> USE DEF PendingInv, streams, control_vars, worker_vars, transfer_vars, socket_vars
  <1>1. CASE ReceiveCommand
    <2>1. /\ control_pc = "recv" /\ control_pc' \in {"reply", "abort", "quit", "preliminary"}
          /\ pending' = pending \/ pending' \in Direct
          /\ control_pc' = "reply" => pending' \in Direct
      BY <1>1 DEF ReceiveCommand, Dispatch, Respond, Continue, Direct
    <2>2. /\ UNCHANGED <<replies, connected, cleanup_started, joined, control_conn, transfers>>
          /\ UNCHANGED <<suppress_transfer_reply, verdict, worker_pc, transfer_lock>>
          /\ UNCHANGED <<transfer_thread, transfer_in_progress, suppress_current_transfer_reply,
                         cancel_event>>
      BY <1>1 DEF ReceiveCommand, worker_vars, transfer_vars
    <2> QED
      BY <2>1, <2>2, ReplyType
  <1>2. CASE SendReply
    BY <1>2 DEF SendReply
  <1>3. CASE ControlTimeout
    BY <1>3 DEF ControlTimeout
  <1>4. CASE ConnectionLost
    BY <1>4 DEF ConnectionLost, Goto
  <1>5. CASE SendPreliminary
    BY <1>5 DEF SendPreliminary, Goto
  <1>6. CASE StartMarks
    BY <1>6 DEF StartMarks, Goto
  <1>7. CASE StartFields
    BY <1>7 DEF StartFields, Goto
  <1>8. CASE StartFlags
    BY <1>8 DEF StartFlags, Goto
  <1>9. CASE RunTransfer
    BY <1>9 DEF RunTransfer
  <1>10. CASE Abort
    <2>1. Reply("no transfer", 0).code = "no transfer"
      BY DEF Reply
    <2> QED
      BY <1>10, <2>1 DEF Abort, Continue, Respond
  <1>11. CASE AbortCloses
    <2>1. Reply("aborted", transfers).code = "aborted"
      BY DEF Reply
    <2> QED
      BY <1>11, <2>1 DEF AbortCloses, Respond
  <1>12. CASE SuppressReplies("quit", "quit abort")
    BY <1>12 DEF SuppressReplies, Goto
  <1>13. CASE CloseAborts("quit abort", "quit close")
    BY <1>13 DEF CloseAborts, Goto, Cancel
  <1>14. CASE QuitReplies
    <2>1. Reply("221", 0).code = "221"
      BY DEF Reply
    <2> QED
      BY <1>14, <2>1 DEF QuitReplies, Respond
  <1>15. CASE CleanupBegins
    BY <1>15 DEF CleanupBegins
  <1>16. CASE SuppressReplies("cleanup suppress", "cleanup abort")
    BY <1>16 DEF SuppressReplies, Goto
  <1>17. CASE CloseAborts("cleanup abort", "cleanup close")
    BY <1>17 DEF CloseAborts, Goto, Cancel
  <1>18. CASE CleanupClosesSocket
    BY <1>18 DEF CleanupClosesSocket, Goto, CloseSocket
  <1>19. CASE CleanupJoins
    BY <1>19 DEF CleanupJoins, Goto
  <1>20. CASE CleanupDrops
    BY <1>20 DEF CleanupDrops, Goto
  <1>21. CASE CleanupEnds
    BY <1>21 DEF CleanupEnds, Goto, WorkerAlive
  <1>22. CASE WorkerOpens
    BY <1>22 DEF WorkerOpens, WorkerGoto
  <1>23. CASE WorkerCannotOpen
    BY <1>23 DEF WorkerCannotOpen, WorkerGoto
  <1>24. CASE WorkerCompletes
    BY <1>24 DEF WorkerCompletes, WorkerGoto
  <1>25. CASE WorkerFails
    BY <1>25 DEF WorkerFails, WorkerGoto
  <1>26. CASE WorkerUnregisters
    BY <1>26 DEF WorkerUnregisters, WorkerGoto
  <1>27. CASE WorkerStores
    BY <1>27 DEF WorkerStores, WorkerGoto
  <1>28. CASE WorkerLocks
    BY <1>28 DEF WorkerLocks, WorkerGoto
  <1>29. CASE WorkerReplies
    BY <1>29 DEF WorkerReplies, WorkerGoto
  <1>30. CASE FinishUnmarks
    BY <1>30 DEF FinishUnmarks, WorkerGoto
  <1>31. CASE FinishFields
    BY <1>31 DEF FinishFields, WorkerGoto
  <1>32. CASE FinishFlags
    BY <1>32 DEF FinishFlags, WorkerGoto
  <1>33. CASE ClientGoes
    BY <1>33 DEF ClientGoes
  <1>34. ASSUME NEW c \in Commands, ClientSends(c)
        PROVE  PendingInv'
    BY <1>34 DEF ClientSends
  <1>35. CASE UNCHANGED vars
    BY <1>35 DEF vars
  <1> QED
    BY <1>1, <1>2, <1>3, <1>4, <1>5, <1>6, <1>7, <1>8, <1>9, <1>10, <1>11,
       <1>12, <1>13, <1>14, <1>15, <1>16, <1>17, <1>18, <1>19, <1>20, <1>21,
       <1>22, <1>23, <1>24, <1>25, <1>26, <1>27, <1>28, <1>29, <1>30, <1>31,
       <1>32, <1>33, <1>34, <1>35
       DEF Next, ServerStep, ControlStep, ControlRuns, WorkerStep, ClientStep, Quit, Cleanup

(* Every step keeps one verdict per transfer.                                *)
LEMMA NextVerdict ==
  /\ VerdictInv /\ PendingInv /\ AbortInv /\ TransferInv /\ Shape /\ ThreadsInv
  /\ [Next]_vars
  => VerdictInv'
  <1> SUFFICES ASSUME VerdictInv, PendingInv, AbortInv, TransferInv, Shape, ThreadsInv,
                      [Next]_vars
               PROVE  VerdictInv'
    OBVIOUS
  <1>1. Speech /\ Confirms
    BY StepSpeaks
  <1>2. Shape' /\ pending \in Answers
    BY NextShape DEF Shape
  <1>3. \A t \in Nat : Told(t) => Told(t)'
    BY TransferStays
  <1>4. ASSUME NEW t \in Nat, Final(t)', ~Final(t)
        PROVE  /\ worker_pc = "verdict" /\ worker_pc' = "finish" /\ t = transfer_thread
               /\ ~suppress_current_transfer_reply
               /\ UNCHANGED <<control_pc, pending, transfers, transfer_thread>>
    BY <1>1, <1>4, NewFinal DEF PendingInv
  <1>5. \A t \in Nat : Final(t)' => Told(t)'
    <2> SUFFICES ASSUME NEW t \in Nat, Final(t)' PROVE Told(t)'
      OBVIOUS
    <2>1. CASE Final(t)
      BY <1>3, <2>1 DEF VerdictInv
    <2>2. CASE ~Final(t)
      <3>1. /\ worker_pc = "verdict" /\ worker_pc' = "finish" /\ t = transfer_thread
            /\ UNCHANGED <<control_pc, transfers, transfer_thread>>
        BY <1>4, <2>2
      <3>2. t = transfers /\ t # 0 /\ control_pc \notin Starting
        BY <3>1 DEF TransferInv, Active, ThreadsInv, LockOwner, StartAfterUnmark, WorkerRuns
      <3>3. t \in 1..transfers
        BY <3>2
      <3> QED
        BY <3>1, <3>2, <3>3 DEF Told, Past
    <2> QED
      BY <2>1, <2>2
  <1>6. ASSUME NEW t \in Nat, Held(t), ~Final(t) PROVE ~Final(t)'
    BY <1>4, <1>6 DEF Held
  <1>7. ASSUME NEW t \in Nat, control_pc' = "reply", pending'.code = "aborted",
               pending'.transfer = t
        PROVE  ~Final(t)'
    <2>1. CASE control_pc = "reply" /\ UNCHANGED pending
      <3>1. Held(t) /\ ~Final(t)
        BY <1>7, <2>1 DEF AbortInv, VerdictInv
      <3> QED
        BY <1>6, <3>1
    <2>2. CASE control_pc = "abort close" /\ pending' = Reply("aborted", transfers)
      <3>1. t = transfers
        BY <1>7, <2>2 DEF Reply
      <3>2. Held(t) /\ ~Final(t)
        BY <2>2, <3>1 DEF AbortInv, VerdictInv
      <3> QED
        BY <1>6, <3>2
    <2> QED
      BY <1>1, <1>7, <2>1, <2>2 DEF Confirms
  <1>8. ASSUME NEW t \in Nat, control_pc' = "abort close", t = transfers' PROVE ~Final(t)'
    <2>1. CASE control_pc = "abort close" /\ UNCHANGED transfers
      <3>1. Held(t) /\ ~Final(t)
        BY <1>8, <2>1 DEF AbortInv, VerdictInv
      <3> QED
        BY <1>6, <3>1
    <2>2. CASE /\ control_pc = "abort" /\ transfer_in_progress /\ transfer_lock = "free"
               /\ UNCHANGED <<transfers, transfer_thread, worker_pc, replies>>
      <3>1. /\ t = transfer_thread
            /\ worker_pc \in {"open", "data", "unregister", "store", "ended"}
        BY <1>8, <2>2, MarkedTransfer
      <3>2. ~Final(t)
        BY <3>1 DEF VerdictInv, Told
      <3> QED
        BY <2>2, <3>2 DEF Final
    <2> QED
      BY <1>1, <1>8, <2>1, <2>2 DEF Confirms
  <1>9. OneVerdict'
    <2> SUFFICES ASSUME NEW i \in DOMAIN replies', NEW j \in DOMAIN replies',
                        replies'[i].code \in {"226", "426"}, replies'[j].code \in Verdicts,
                        replies'[i].transfer = replies'[j].transfer
                 PROVE  i = j
      BY DEF OneVerdict
    <2> DEFINE Old(k) == k \in DOMAIN replies /\ replies'[k] = replies[k]
               New(k, r) == k = Len(replies) + 1 /\ replies'[k] = r
    <2>1. PICK t \in Nat : t = replies'[i].transfer
      <3>1. replies'[i] \in Answers
        BY <1>2 DEF Shape
      <3> QED
        BY <3>1 DEF Answers
    <2>2. CASE Old(i) /\ Old(j)
      BY <2>2 DEF VerdictInv, OneVerdict
    <2>3. ASSUME NEW r \in Answers, Send(r)
          PROVE  (Old(i) \/ New(i, r)) /\ (Old(j) \/ New(j, r))
      BY <2>3, SentReplies
    <2>4. CASE replies' = replies
      BY <2>2, <2>4
    <2>5. CASE control_pc = "reply" /\ Send(pending)
      <3>1. Old(i) /\ (Old(j) \/ New(j, pending))
        BY <1>2, <2>3, <2>5 DEF PendingInv
      <3>2. CASE New(j, pending)
        <4>1. pending.code = "aborted" /\ pending.transfer = t
          BY <2>1, <3>2 DEF PendingInv, Verdicts
        <4>2. Final(t)
          BY <2>1, <3>1 DEF Final
        <4> QED
          BY <2>5, <4>1, <4>2 DEF VerdictInv
      <3> QED
        BY <2>2, <3>1, <3>2
    <2>6. CASE /\ worker_pc = "verdict" /\ ~suppress_current_transfer_reply
               /\ Send(Reply(verdict, transfer_thread))
      <3> DEFINE r == Reply(verdict, transfer_thread)
      <3>1. (Old(i) \/ New(i, r)) /\ (Old(j) \/ New(j, r)) /\ r.transfer = transfer_thread
        BY <2>3, <2>6, VerdictReply
      <3>2. ASSUME t = transfer_thread PROVE ~Final(t) /\ ~Held(t)
        BY <2>6, <3>2 DEF VerdictInv, Told, Held
      <3>3. CASE Old(i) /\ New(j, r)
        <4>1. Final(t) /\ t = transfer_thread
          BY <2>1, <3>1, <3>3 DEF Final
        <4> QED
          BY <3>2, <4>1
      <3>4. CASE New(i, r) /\ Old(j)
        <4>1. t = transfer_thread /\ replies[j].transfer = t /\ replies[j].code \in Verdicts
          BY <2>1, <3>1, <3>4
        <4>2. Final(t) \/ Held(t)
          BY <3>4, <4>1 DEF Final, AbortInv, Verdicts
        <4> QED
          BY <3>2, <4>1, <4>2
      <3> QED
        BY <2>2, <3>1, <3>3, <3>4
    <2>7. ASSUME NEW r \in Answers, Send(r), r.code \notin Verdicts PROVE i = j
      BY <2>2, <2>3, <2>7 DEF Verdicts
    <2>8. Reply("421", 0) \in Answers /\ Reply("421", 0).code \notin Verdicts
      BY ReplyType DEF Codes, Verdicts
    <2>9. /\ Reply("150", transfers + 1) \in Answers
          /\ Reply("150", transfers + 1).code \notin Verdicts
      BY PreliminaryReply DEF Verdicts
    <2> QED
      BY <1>1, <2>4, <2>5, <2>6, <2>7, <2>8, <2>9 DEF Speech
  <1>10. control_pc' = "reply" /\ pending'.code = "aborted" => ~Final(pending.transfer)'
    <2>1. pending'.transfer \in Nat
      BY <1>2 DEF Shape, Answers
    <2> QED
      BY <1>7, <2>1 DEF Final
  <1>11. control_pc' = "abort close" => ~Final(transfers)'
    <2>1. transfers' \in Nat
      BY <1>2 DEF Shape
    <2> QED
      BY <1>8, <2>1 DEF Final
  <1> QED
    BY <1>5, <1>9, <1>10, <1>11 DEF VerdictInv

(* The client is told at most one outcome of a transfer.                     *)
THEOREM VerdictIsUnique == Spec => []OneVerdict
  <1>1. PendingInv /\ [Next]_vars => PendingInv'
    BY NextPending
  <1>2. VerdictInv /\ PendingInv /\ AbortInv /\ TransferInv /\ Shape /\ ThreadsInv /\ [Next]_vars
        => VerdictInv'
    BY NextVerdict
  <1>3. VerdictInv => OneVerdict
    BY DEF VerdictInv
  <1>4. QED
    BY <1>1, <1>2, <1>3, InitPending, InitVerdict, Aborts, Transferring, Shapes, Threads, PTL
       DEF Spec

-----------------------------------------------------------------------------
(* Outcomes come before the next announcement *)

(* The client is there, and commands are still read.                         *)
Conversing ==
  connected /\ (control_pc \in Serving \/ (control_pc = "reply" /\ pending.code # "221"))

(* The worker has its verdict still to give.                                 *)
Working == worker_pc \in {"open", "data", "unregister", "store", "ended", "verdict"}

(* The control thread is about to confirm that the last transfer is aborted. *)
Confirming ==
  \/ control_pc = "abort close"
  \/ control_pc = "reply" /\ pending = Reply("aborted", transfers)

(* The client was told the outcome of the last transfer.                     *)
Outcome == Concluded(transfers)

(* The last transfer was concluded or will be: a silenced worker leaves that *)
(* to the control thread.                                                    *)
StatusInv ==
  /\ Conversing /\ transfers # 0 => Outcome \/ Confirming \/ Working \/ control_pc \in Starting
  /\ Conversing /\ Working /\ suppress_current_transfer_reply => Outcome \/ Confirming
  /\ control_pc = "run" => ~suppress_current_transfer_reply

(* Conversations end, they do not begin again, and transfers are announced   *)
(* one by one.                                                               *)
GoesOn ==
  /\ Conversing' => Conversing
  /\ transfers' = transfers \/ (control_pc = "preliminary" /\ transfers' = transfers + 1)

(* A new session has concluded all of its transfers.                         *)
LEMMA InitStatus == Init => StatusInv
  BY DEF Init, StatusInv, Working

(* What was sent stays sent.                                                 *)
LEMMA SentStays ==
  ASSUME Shape, ThreadsInv, [Next]_vars
  PROVE  \A i \in DOMAIN replies : i \in DOMAIN replies' /\ replies'[i] = replies[i]
  <1>1. ASSUME NEW r, Send(r)
        PROVE  \A i \in DOMAIN replies : i \in DOMAIN replies' /\ replies'[i] = replies[i]
    <2>1. CASE r \in Answers
      <3>1. CASE connected
        BY <1>1, <2>1, <3>1, AppendProperties DEF Send, Shape
      <3>2. CASE ~connected
        BY <1>1, <3>2 DEF Send
      <3> QED
        BY <3>1, <3>2
    <2>2. CASE r \notin Answers /\ connected
      <3>1. replies \in Seq(Answers \cup {r})
        BY DEF Shape
      <3> QED
        BY <1>1, <2>2, <3>1, AppendProperties DEF Send
    <2>3. CASE ~connected
      BY <1>1, <2>3 DEF Send
    <2> QED
      BY <2>1, <2>2, <2>3
  <1> QED
    BY <1>1, StepSpeaks DEF Speech

(* A reply sent to a client that is there arrives.                           *)
LEMMA SentArrives ==
  ASSUME Shape, NEW r \in Answers, Send(r), connected
  PROVE  \E i \in DOMAIN replies' : replies'[i] = r
  BY AppendProperties DEF Send, Shape

(* Every step keeps the status of the last transfer.                         *)
LEMMA NextStatus ==
  StatusInv /\ TransferInv /\ Shape /\ ThreadsInv /\ [Next]_vars => StatusInv' /\ GoesOn
  <1> SUFFICES ASSUME StatusInv, TransferInv, Shape, ThreadsInv, [Next]_vars
               PROVE  StatusInv' /\ GoesOn
    OBVIOUS
  <1>stays. Outcome /\ UNCHANGED transfers => Outcome'
    BY SentStays DEF Outcome, Concluded
  <1> USE DEF StatusInv, GoesOn, Conversing, Working, Confirming, Serving, Starting, streams,
              control_vars, worker_vars, transfer_vars, socket_vars
  <1>1. CASE ReceiveCommand
    <2>1. /\ control_pc = "recv" /\ control_pc' \in {"reply", "abort", "quit", "preliminary"}
          /\ pending' = pending \/ pending' \in Direct
          /\ control_pc' = "reply" => pending' \in Direct
      BY <1>1 DEF ReceiveCommand, Dispatch, Respond, Continue, Direct
    <2>2. /\ UNCHANGED <<replies, connected, cleanup_started, joined, control_conn, transfers>>
          /\ UNCHANGED <<suppress_transfer_reply, verdict, worker_pc, transfer_lock>>
          /\ UNCHANGED <<transfer_thread, transfer_in_progress, suppress_current_transfer_reply,
                         cancel_event>>
      BY <1>1 DEF ReceiveCommand, worker_vars, transfer_vars
    <2>3. \A r \in Direct : r.code \notin {"221", "aborted"}
      BY ReplyType
    <2> QED
      BY <1>stays, <2>1, <2>2, <2>3
  <1>2. CASE SendReply
    <2>1. /\ control_pc = "reply" /\ Send(pending)
          /\ control_pc' \in (IF pending.code = "221" THEN {"cleanup"} ELSE {"recv", "cleanup"})
          /\ UNCHANGED <<connected, pending, transfers, worker_pc,
                         suppress_current_transfer_reply>>
      BY <1>2 DEF SendReply, AfterSend
    <2>2. connected /\ pending = Reply("aborted", transfers) => Outcome'
      <3> SUFFICES ASSUME connected, pending = Reply("aborted", transfers) PROVE Outcome'
        OBVIOUS
      <3>1. pending.code \in Verdicts /\ pending.transfer = transfers
        BY DEF Reply, Verdicts
      <3>2. pending \in Answers
        BY DEF Shape
      <3>3. \E i \in DOMAIN replies' : replies'[i] = pending
        BY <2>1, <3>2, SentArrives
      <3> QED
        BY <2>1, <3>1, <3>3 DEF Outcome, Concluded
    <2> QED
      BY <1>stays, <2>1, <2>2
  <1>3. CASE ControlTimeout
    BY <1>3 DEF ControlTimeout
  <1>4. CASE ConnectionLost
    BY <1>4, <1>stays DEF ConnectionLost, Goto
  <1>5. CASE SendPreliminary
    <2>1. /\ control_pc = "preliminary" /\ transfers' = transfers + 1
          /\ control_pc' = "start" \/ (~connected /\ control_pc' = "cleanup")
          /\ UNCHANGED <<connected, worker_pc, suppress_current_transfer_reply>>
      BY <1>5 DEF SendPreliminary, Goto, AfterSend
    <2>2. ~Working
      BY <2>1 DEF ThreadsInv, StartAfterUnmark
    <2> QED
      BY <2>1, <2>2
  <1>6. CASE StartMarks
    BY <1>6, <1>stays DEF StartMarks, Goto
  <1>7. CASE StartFields
    BY <1>7, <1>stays DEF StartFields, Goto
  <1>8. CASE StartFlags
    BY <1>8, <1>stays DEF StartFlags, Goto
  <1>9. CASE RunTransfer
    BY <1>9, <1>stays DEF RunTransfer
  <1>10. CASE Abort
    <2>1. /\ control_pc = "abort"
          /\ \/ control_pc' = "abort close"
             \/ /\ control_pc' = "reply" /\ pending' = Reply("no transfer", 0)
                /\ UNCHANGED suppress_current_transfer_reply
          /\ UNCHANGED <<connected, transfers, worker_pc>>
      BY <1>10 DEF Abort, Continue, Respond
    <2>2. Reply("no transfer", 0).code = "no transfer"
      BY DEF Reply
    <2>3. CASE control_pc' = "abort close"
      BY <2>1, <2>3
    <2>4. CASE control_pc' = "reply"
      <3>1. /\ control_pc = "abort" /\ pending' = Reply("no transfer", 0)
            /\ UNCHANGED <<connected, transfers, worker_pc, suppress_current_transfer_reply>>
        BY <2>1, <2>4
      <3>2. /\ connected /\ transfers # 0 => Outcome \/ Working
            /\ connected /\ Working /\ suppress_current_transfer_reply => Outcome
        BY <3>1
      <3>3. /\ connected' /\ transfers' # 0 => Outcome' \/ Working'
            /\ connected' /\ Working' /\ suppress_current_transfer_reply' => Outcome'
        BY <1>stays, <3>1, <3>2
      <3> QED
        BY <2>4, <3>1, <3>3
    <2> QED
      BY <2>1, <2>3, <2>4
  <1>11. CASE AbortCloses
    <2>1. Reply("aborted", transfers).code # "221"
      BY DEF Reply
    <2> QED
      BY <1>11, <1>stays, <2>1 DEF AbortCloses, Respond
  <1>12. CASE SuppressReplies("quit", "quit abort")
    BY <1>12, <1>stays DEF SuppressReplies, Goto
  <1>13. CASE CloseAborts("quit abort", "quit close")
    BY <1>13, <1>stays DEF CloseAborts, Goto, Cancel
  <1>14. CASE QuitReplies
    <2>1. Reply("221", 0).code = "221"
      BY DEF Reply
    <2> QED
      BY <1>14, <2>1 DEF QuitReplies, CloseSocket, Respond
  <1>15. CASE CleanupBegins
    BY <1>15, <1>stays DEF CleanupBegins
  <1>16. CASE SuppressReplies("cleanup suppress", "cleanup abort")
    BY <1>16, <1>stays DEF SuppressReplies, Goto
  <1>17. CASE CloseAborts("cleanup abort", "cleanup close")
    BY <1>17, <1>stays DEF CloseAborts, Goto, Cancel
  <1>18. CASE CleanupClosesSocket
    BY <1>18, <1>stays DEF CleanupClosesSocket, Goto, CloseSocket
  <1>19. CASE CleanupJoins
    BY <1>19, <1>stays DEF CleanupJoins, Goto
  <1>20. CASE CleanupDrops
    BY <1>20, <1>stays DEF CleanupDrops, Goto
  <1>21. CASE CleanupEnds
    BY <1>21, <1>stays DEF CleanupEnds, Goto, WorkerAlive
  <1>22. CASE WorkerOpens
    BY <1>22, <1>stays DEF WorkerOpens, WorkerGoto
  <1>23. CASE WorkerCannotOpen
    BY <1>23, <1>stays DEF WorkerCannotOpen, WorkerGoto
  <1>24. CASE WorkerCompletes
    BY <1>24, <1>stays DEF WorkerCompletes, WorkerGoto
  <1>25. CASE WorkerFails
    BY <1>25, <1>stays DEF WorkerFails, WorkerGoto
  <1>26. CASE WorkerUnregisters
    BY <1>26, <1>stays DEF WorkerUnregisters, WorkerGoto
  <1>27. CASE WorkerStores
    BY <1>27, <1>stays DEF WorkerStores, WorkerGoto
  <1>28. CASE WorkerLocks
    BY <1>28, <1>stays DEF WorkerLocks, WorkerGoto
  <1>29. CASE WorkerReplies
    <2>1. /\ worker_pc = "verdict" /\ worker_pc' = "finish"
          /\ UNCHANGED <<control_pc, connected, pending, transfers, transfer_thread,
                         suppress_current_transfer_reply>>
      BY <1>29 DEF WorkerReplies, WorkerGoto
    <2>2. CASE Send(Reply(verdict, transfer_thread))
      <3>1. transfer_thread = transfers
        BY <2>1 DEF TransferInv, Active
      <3>2. connected => \E i \in DOMAIN replies' : replies'[i] = Reply(verdict, transfer_thread)
        BY <2>2, VerdictReply, SentArrives
      <3>3. connected => Outcome'
        BY <2>1, <3>1, <3>2, VerdictReply DEF Outcome, Concluded, Verdicts
      <3> QED
        BY <2>1, <3>3
    <2>3. CASE suppress_current_transfer_reply
      BY <1>stays, <2>1, <2>3
    <2>4. CASE suppress_transfer_reply \/ ~control_conn
      <3>1. ~Conversing
        BY <2>4 DEF TransferInv
      <3> QED
        BY <2>1, <3>1
    <2> QED
      BY <1>29, <2>2, <2>3, <2>4 DEF WorkerReplies
  <1>30. CASE FinishUnmarks
    BY <1>30, <1>stays DEF FinishUnmarks, WorkerGoto
  <1>31. CASE FinishFields
    BY <1>31, <1>stays DEF FinishFields, WorkerGoto
  <1>32. CASE FinishFlags
    BY <1>32, <1>stays DEF FinishFlags, WorkerGoto
  <1>33. CASE ClientGoes
    BY <1>33, <1>stays DEF ClientGoes
  <1>34. ASSUME NEW c \in Commands, ClientSends(c)
        PROVE  StatusInv' /\ GoesOn
    BY <1>34, <1>stays DEF ClientSends
  <1>35. CASE UNCHANGED vars
    BY <1>35, <1>stays DEF vars
  <1> QED
    BY <1>1, <1>2, <1>3, <1>4, <1>5, <1>6, <1>7, <1>8, <1>9, <1>10, <1>11,
       <1>12, <1>13, <1>14, <1>15, <1>16, <1>17, <1>18, <1>19, <1>20, <1>21,
       <1>22, <1>23, <1>24, <1>25, <1>26, <1>27, <1>28, <1>29, <1>30, <1>31,
       <1>32, <1>33, <1>34, <1>35
       DEF Next, ServerStep, ControlStep, ControlRuns, WorkerStep, ClientStep, Quit, Cleanup

(* The last transfer is never left without an outcome to come.               *)
THEOREM Statuses == Spec => []StatusInv
  <1>1. StatusInv /\ TransferInv /\ Shape /\ ThreadsInv /\ [Next]_vars => StatusInv'
    BY NextStatus
  <1>2. QED
    BY <1>1, InitStatus, Transferring, Shapes, Threads, PTL DEF Spec

(* All transfers before the last one are concluded.                          *)
BeforeInv ==
  /\ VerdictBeforeNext
  /\ Conversing => \A t \in 1..transfers : t # transfers => Concluded(t)

(* A new session has announced nothing.                                      *)
LEMMA InitBefore == Init => BeforeInv
  BY DEF Init, BeforeInv, VerdictBeforeNext

(* When the next transfer is announced, all transfers are concluded.         *)
LEMMA AllConcluded ==
  ASSUME BeforeInv, StatusInv, Shape, ThreadsInv, connected, control_pc = "preliminary"
  PROVE  \A t \in 1..transfers : Concluded(t)
  <1>1. Conversing /\ ~Working /\ ~Confirming /\ control_pc \notin Starting
    BY DEF Conversing, Working, Confirming, Serving, Starting, ThreadsInv, StartAfterUnmark
  <1>2. transfers # 0 => Concluded(transfers)
    BY <1>1 DEF StatusInv, Outcome
  <1>3. \A t \in 1..transfers : t # transfers => Concluded(t)
    BY <1>1 DEF BeforeInv
  <1>4. transfers \in Nat
    BY DEF Shape
  <1> QED
    BY <1>2, <1>3, <1>4

(* Every step keeps outcomes before announcements.                           *)
LEMMA NextBefore ==
  /\ BeforeInv /\ StatusInv /\ PendingInv /\ TransferInv /\ Shape /\ ThreadsInv
  /\ [Next]_vars
  => BeforeInv'
  <1> SUFFICES ASSUME BeforeInv, StatusInv, PendingInv, TransferInv, Shape, ThreadsInv,
                      [Next]_vars
               PROVE  BeforeInv'
    OBVIOUS
  <1>1. Speech /\ GoesOn
    BY StepSpeaks, NextStatus
  <1>2. \A i \in DOMAIN replies : i \in DOMAIN replies' /\ replies'[i] = replies[i]
    BY SentStays
  <1>3. \A t \in Nat : Concluded(t) => Concluded(t)'
    BY <1>2 DEF Concluded
  <1>4. transfers \in Nat /\ transfers' \in Nat /\ pending \in Answers
    BY NextShape DEF Shape
  <1>5. ASSUME Conversing', NEW t \in 1..transfers', t # transfers' PROVE Concluded(t)'
    <2>1. CASE transfers' = transfers
      BY <1>1, <1>3, <1>4, <1>5, <2>1 DEF GoesOn, BeforeInv
    <2>2. CASE control_pc = "preliminary" /\ transfers' = transfers + 1
      <3>1. connected
        BY <1>1, <1>5 DEF GoesOn, Conversing
      <3>2. t \in 1..transfers
        BY <1>4, <1>5, <2>2
      <3>3. Concluded(t)
        BY <2>2, <3>1, <3>2, AllConcluded
      <3> QED
        BY <1>3, <1>4, <3>2, <3>3
    <2> QED
      BY <1>1, <2>1, <2>2 DEF GoesOn
  <1>6. VerdictBeforeNext'
    <2> SUFFICES ASSUME NEW i \in DOMAIN replies', replies'[i].code = "150",
                        NEW t \in 1..(replies'[i].transfer - 1)
                 PROVE  \E j \in 1..(i - 1) :
                          replies'[j].transfer = t /\ replies'[j].code \in Verdicts
      BY DEF VerdictBeforeNext
    <2>1. DOMAIN replies = 1..Len(replies) /\ Len(replies) \in Nat
      BY DEF Shape
    <2>2. CASE i \in DOMAIN replies /\ replies'[i] = replies[i]
      <3>1. PICK j \in 1..(i - 1) : replies[j].transfer = t /\ replies[j].code \in Verdicts
        BY <2>2 DEF BeforeInv, VerdictBeforeNext
      <3>2. j \in DOMAIN replies
        BY <2>1, <2>2
      <3> QED
        BY <1>2, <3>1, <3>2
    <2>3. CASE /\ control_pc = "preliminary" /\ Send(Reply("150", transfers + 1))
               /\ i = Len(replies) + 1 /\ replies'[i] = Reply("150", transfers + 1)
      <3>1. t \in 1..transfers
        <4>1. replies'[i].transfer = transfers + 1
          BY <2>3, PreliminaryReply
        <4> QED
          BY <1>4, <4>1
      <3>2. CASE connected
        <4>1. Concluded(t)
          BY <2>3, <3>1, <3>2, AllConcluded
        <4>2. PICK j \in DOMAIN replies : replies[j].transfer = t /\ replies[j].code \in Verdicts
          BY <4>1 DEF Concluded
        <4>3. j \in 1..(i - 1)
          BY <2>1, <2>3
        <4> QED
          BY <1>2, <4>2, <4>3
      <3>3. CASE ~connected
        <4>1. replies' = replies
          BY <2>3, <3>3 DEF Send
        <4> QED
          BY <2>1, <2>3, <4>1
      <3> QED
        BY <3>2, <3>3
    <2>4. CASE replies' = replies
      BY <2>2, <2>4
    <2>5. ASSUME NEW r \in Answers, Send(r), r.code # "150" PROVE <2>2!1
      BY <2>5, SentReplies
    <2>6. Reply("421", 0) \in Answers /\ Reply("421", 0).code # "150"
      BY ReplyType DEF Codes
    <2>7. ASSUME control_pc = "preliminary", Send(Reply("150", transfers + 1))
          PROVE  <2>2!1 \/ <2>3!1
      BY <2>7, PreliminaryReply, SentReplies
    <2> QED
      BY <1>1, <1>4, <2>2, <2>3, <2>4, <2>5, <2>6, <2>7, VerdictReply DEF Speech, PendingInv
  <1> QED
    BY <1>5, <1>6 DEF BeforeInv

(* A transfer is announced only when the outcome of every one before it has  *)
(* been sent, by the worker or by the confirmation of its abort.             *)
THEOREM OutcomeBeforeNext == Spec => []VerdictBeforeNext
  <1>1. PendingInv /\ [Next]_vars => PendingInv'
    BY NextPending
  <1>2. BeforeInv /\ StatusInv /\ PendingInv /\ TransferInv /\ Shape /\ ThreadsInv /\ [Next]_vars
        => BeforeInv'
    BY NextBefore
  <1>3. BeforeInv => VerdictBeforeNext
    BY DEF BeforeInv
  <1>4. QED
    BY <1>1, <1>2, <1>3, InitPending, InitBefore, Statuses, Transferring, Shapes, Threads,
       PTL DEF Spec
-----------------------------------------------------------------------------
(* The state of the two threads *)

(* Where the control thread may be.                                          *)
Places ==
  Serving \cup CleaningUp \cup {"reply", "quit abort", "quit close", "cleanup"}

(* The flags, and where the control thread is.                               *)
Fields ==
  /\ connected \in BOOLEAN /\ transfer_in_progress \in BOOLEAN
  /\ suppress_current_transfer_reply \in BOOLEAN /\ cancel_event \in BOOLEAN
  /\ suppress_transfer_reply \in BOOLEAN /\ cleanup_started \in BOOLEAN
  /\ control_conn \in BOOLEAN /\ current_data_socket \in BOOLEAN
  /\ data_connection_mode \in {"NONE", "SET"} /\ direction \in {"DOWNLOAD", "UPLOAD"}
  /\ control_pc \in Places

(* What a step does to the numbers of transfers and of commands: a command   *)
(* arrives, is taken from the stream, or becomes a transfer.                 *)
Numbering ==
  /\ current_transfer' \in {current_transfer, 0, transfers}
  /\ joined' \in {joined, transfer_thread}
  /\ pending'.transfer \in {pending.transfer, 0, transfers}
  /\ \/ /\ UNCHANGED <<requests, commands, transfers>>
        /\ control_pc' = "preliminary" => control_pc = "preliminary"
     \/ /\ control_pc = "recv" /\ requests # <<>> /\ requests' = Tail(requests)
        /\ UNCHANGED <<commands, transfers>>
     \/ /\ control_pc = "preliminary" /\ control_pc' # "preliminary"
        /\ transfers' = transfers + 1 /\ UNCHANGED <<requests, commands>>
     \/ /\ \E c \in Commands : requests' = Append(requests, c)
        /\ commands < MaxCommands /\ commands' = commands + 1
        /\ UNCHANGED <<control_pc, transfers>>

(* Every step keeps the flags and places what they are.                      *)
LEMMA NextFields == Fields /\ [Next]_vars => Fields'
  <1> SUFFICES ASSUME Fields, [Next]_vars PROVE Fields'
    OBVIOUS
  <1> USE DEF Fields, streams, control_vars, worker_vars, transfer_vars, socket_vars
  <1>1. CASE ReceiveCommand
    BY <1>1 DEF ReceiveCommand, Refused, Dispatch, Respond, Continue, Places, Serving, Starting,
              CleaningUp
  <1>2. CASE SendReply
    <2>1. control_pc' \in Places
      BY <1>2 DEF SendReply, AfterSend, Places, Serving, Starting, CleaningUp
    <2> QED
      BY <1>2, <2>1 DEF SendReply
  <1>3. CASE ControlTimeout
    BY <1>3 DEF ControlTimeout, Places, Serving, Starting, CleaningUp
  <1>4. CASE ConnectionLost
    BY <1>4 DEF ConnectionLost, Goto, Places, Serving, Starting, CleaningUp
  <1>5. CASE SendPreliminary
    <2>1. connected' \in BOOLEAN /\ control_pc' \in Places
      BY <1>5 DEF SendPreliminary, Goto, AfterSend, Places, Serving, Starting, CleaningUp
    <2> QED
      BY <1>5, <2>1 DEF SendPreliminary, Goto
  <1>6. CASE StartMarks
    BY <1>6 DEF StartMarks, Goto, Places, Serving, Starting, CleaningUp
  <1>7. CASE StartFields
    BY <1>7 DEF StartFields, Goto, Places, Serving, Starting, CleaningUp
  <1>8. CASE StartFlags
    BY <1>8 DEF StartFlags, Goto, Places, Serving, Starting, CleaningUp
  <1>9. CASE RunTransfer
    BY <1>9 DEF RunTransfer, Places, Serving, Starting, CleaningUp
  <1>10. CASE Abort
    BY <1>10 DEF Abort, Cancel, Continue, Respond, Places, Serving, Starting, CleaningUp
  <1>11. CASE AbortCloses
    BY <1>11 DEF AbortCloses, Respond, Places, Serving, Starting, CleaningUp
  <1>12. CASE SuppressReplies("quit", "quit abort")
    BY <1>12 DEF SuppressReplies, Goto, Places, Serving, Starting, CleaningUp
  <1>13. CASE CloseAborts("quit abort", "quit close")
    BY <1>13 DEF CloseAborts, Goto, Cancel, Places, Serving, Starting, CleaningUp
  <1>14. CASE QuitReplies
    BY <1>14 DEF QuitReplies, CloseSocket, Respond, Places, Serving, Starting, CleaningUp
  <1>15. CASE CleanupBegins
    BY <1>15 DEF CleanupBegins, Places, Serving, Starting, CleaningUp
  <1>16. CASE SuppressReplies("cleanup suppress", "cleanup abort")
    BY <1>16 DEF SuppressReplies, Goto, Places, Serving, Starting, CleaningUp
  <1>17. CASE CloseAborts("cleanup abort", "cleanup close")
    BY <1>17 DEF CloseAborts, Goto, Cancel, Places, Serving, Starting, CleaningUp
  <1>18. CASE CleanupClosesSocket
    BY <1>18 DEF CleanupClosesSocket, Goto, CloseSocket, Places, Serving, Starting, CleaningUp
  <1>19. CASE CleanupJoins
    BY <1>19 DEF CleanupJoins, Goto, Places, Serving, Starting, CleaningUp
  <1>20. CASE CleanupDrops
    BY <1>20 DEF CleanupDrops, Goto, Places, Serving, Starting, CleaningUp
  <1>21. CASE CleanupEnds
    <2>1. control_pc' \in Places
      BY <1>21 DEF CleanupEnds, Goto, Places, Serving, Starting, CleaningUp
    <2> QED
      BY <1>21, <2>1 DEF CleanupEnds, Goto
  <1>22. CASE WorkerOpens
    BY <1>22 DEF WorkerOpens, WorkerGoto
  <1>23. CASE WorkerCannotOpen
    BY <1>23 DEF WorkerCannotOpen, WorkerGoto
  <1>24. CASE WorkerCompletes
    BY <1>24 DEF WorkerCompletes, WorkerGoto
  <1>25. CASE WorkerFails
    BY <1>25 DEF WorkerFails, WorkerGoto
  <1>26. CASE WorkerUnregisters
    BY <1>26 DEF WorkerUnregisters, WorkerGoto
  <1>27. CASE WorkerStores
    BY <1>27 DEF WorkerStores, WorkerGoto
  <1>28. CASE WorkerLocks
    BY <1>28 DEF WorkerLocks, WorkerGoto
  <1>29. CASE WorkerReplies
    BY <1>29 DEF WorkerReplies, WorkerGoto
  <1>30. CASE FinishUnmarks
    BY <1>30 DEF FinishUnmarks, WorkerGoto
  <1>31. CASE FinishFields
    BY <1>31 DEF FinishFields, WorkerGoto
  <1>32. CASE FinishFlags
    BY <1>32 DEF FinishFlags, WorkerGoto
  <1>33. CASE ClientGoes
    BY <1>33 DEF ClientGoes
  <1>34. ASSUME NEW c \in Commands, ClientSends(c)
        PROVE  Fields'
    BY <1>34 DEF ClientSends
  <1>35. CASE UNCHANGED vars
    BY <1>35 DEF vars
  <1> QED
    BY <1>1, <1>2, <1>3, <1>4, <1>5, <1>6, <1>7, <1>8, <1>9, <1>10, <1>11,
       <1>12, <1>13, <1>14, <1>15, <1>16, <1>17, <1>18, <1>19, <1>20, <1>21,
       <1>22, <1>23, <1>24, <1>25, <1>26, <1>27, <1>28, <1>29, <1>30, <1>31,
       <1>32, <1>33, <1>34, <1>35
       DEF Next, ServerStep, ControlStep, ControlRuns, WorkerStep, ClientStep, Quit, Cleanup

(* Every step counts like that.                                              *)
LEMMA StepNumbers == ThreadsInv /\ [Next]_vars => Numbering
  <1> SUFFICES ASSUME ThreadsInv, [Next]_vars PROVE Numbering
    OBVIOUS
  <1> USE DEF Numbering, streams, control_vars, worker_vars, transfer_vars, socket_vars
  <1>1. CASE ReceiveCommand
    BY <1>1 DEF ReceiveCommand, Refused, Dispatch, Respond, Continue, Reply
  <1>2. CASE SendReply
    BY <1>2 DEF SendReply, AfterSend
  <1>3. CASE ControlTimeout
    BY <1>3 DEF ControlTimeout
  <1>4. CASE ConnectionLost
    BY <1>4 DEF ConnectionLost, Goto
  <1>5. CASE SendPreliminary
    BY <1>5 DEF SendPreliminary, Goto, AfterSend
  <1>6. CASE StartMarks
    BY <1>6 DEF StartMarks, Goto
  <1>7. CASE StartFields
    BY <1>7 DEF StartFields, Goto
  <1>8. CASE StartFlags
    BY <1>8 DEF StartFlags, Goto
  <1>9. CASE RunTransfer
    BY <1>9 DEF RunTransfer
  <1>10. CASE Abort
    <2>1. Reply("no transfer", 0).transfer = 0
      BY DEF Reply
    <2> QED
      BY <1>10, <2>1 DEF Abort, Cancel, Continue, Respond
  <1>11. CASE AbortCloses
    BY <1>11 DEF AbortCloses, Respond, Reply
  <1>12. CASE SuppressReplies("quit", "quit abort")
    BY <1>12 DEF SuppressReplies, Goto
  <1>13. CASE CloseAborts("quit abort", "quit close")
    BY <1>13 DEF CloseAborts, Goto, Cancel
  <1>14. CASE QuitReplies
    BY <1>14 DEF QuitReplies, CloseSocket, Respond, Reply
  <1>15. CASE CleanupBegins
    BY <1>15 DEF CleanupBegins
  <1>16. CASE SuppressReplies("cleanup suppress", "cleanup abort")
    BY <1>16 DEF SuppressReplies, Goto
  <1>17. CASE CloseAborts("cleanup abort", "cleanup close")
    BY <1>17 DEF CloseAborts, Goto, Cancel
  <1>18. CASE CleanupClosesSocket
    BY <1>18 DEF CleanupClosesSocket, Goto, CloseSocket
  <1>19. CASE CleanupJoins
    BY <1>19 DEF CleanupJoins, Goto
  <1>20. CASE CleanupDrops
    BY <1>20 DEF CleanupDrops, Goto
  <1>21. CASE CleanupEnds
    BY <1>21 DEF CleanupEnds, Goto, WorkerAlive
  <1>22. CASE WorkerOpens
    BY <1>22 DEF WorkerOpens, WorkerGoto
  <1>23. CASE WorkerCannotOpen
    BY <1>23 DEF WorkerCannotOpen, WorkerGoto
  <1>24. CASE WorkerCompletes
    BY <1>24 DEF WorkerCompletes, WorkerGoto
  <1>25. CASE WorkerFails
    BY <1>25 DEF WorkerFails, WorkerGoto
  <1>26. CASE WorkerUnregisters
    BY <1>26 DEF WorkerUnregisters, WorkerGoto
  <1>27. CASE WorkerStores
    BY <1>27 DEF WorkerStores, WorkerGoto
  <1>28. CASE WorkerLocks
    BY <1>28 DEF WorkerLocks, WorkerGoto
  <1>29. CASE WorkerReplies
    BY <1>29 DEF WorkerReplies, WorkerGoto
  <1>30. CASE FinishUnmarks
    BY <1>30 DEF FinishUnmarks, WorkerGoto
  <1>31. CASE FinishFields
    BY <1>31 DEF FinishFields, WorkerGoto
  <1>32. CASE FinishFlags
    BY <1>32 DEF FinishFlags, WorkerGoto
  <1>33. CASE ClientGoes
    BY <1>33 DEF ClientGoes
  <1>34. ASSUME NEW c \in Commands, ClientSends(c)
        PROVE  Numbering
    BY <1>34 DEF ClientSends
  <1>35. CASE UNCHANGED vars
    BY <1>35 DEF vars
  <1> QED
    BY <1>1, <1>2, <1>3, <1>4, <1>5, <1>6, <1>7, <1>8, <1>9, <1>10, <1>11,
       <1>12, <1>13, <1>14, <1>15, <1>16, <1>17, <1>18, <1>19, <1>20, <1>21,
       <1>22, <1>23, <1>24, <1>25, <1>26, <1>27, <1>28, <1>29, <1>30, <1>31,
       <1>32, <1>33, <1>34, <1>35
       DEF Next, ServerStep, ControlStep, ControlRuns, WorkerStep, ClientStep, Quit, Cleanup

(* Commands become transfers: each announced transfer, the one the control   *)
(* thread is about to announce and each unread command took a command of the *)
(* client.                                                                   *)
CountInv ==
  /\ requests \in Seq(Commands) /\ commands \in 0..MaxCommands
  /\ transfers \in Nat
  /\ current_transfer \in 0..transfers /\ joined \in 0..transfers
  /\ transfers + Len(requests) <= commands
  /\ control_pc = "preliminary" => transfers + Len(requests) < commands

(* A new session has no commands.                                            *)
LEMMA InitCount == Init => CountInv
  BY MaxCommandsAssumption DEF Init, CountInv

(* Every step keeps the count.                                               *)
LEMMA NextCount == CountInv /\ Shape /\ ThreadsInv /\ [Next]_vars => CountInv'
  <1> SUFFICES ASSUME CountInv, Shape, ThreadsInv, [Next]_vars PROVE CountInv'
    OBVIOUS
  <1>1. Numbering
    BY StepNumbers
  <1>2. transfers \in Nat /\ transfer_thread \in 0..transfers
    BY DEF Shape
  <1>3. Len(requests) \in Nat
    BY LenProperties DEF CountInv
  <1>4. CASE /\ UNCHANGED <<requests, commands, transfers>>
             /\ control_pc' = "preliminary" => control_pc = "preliminary"
    BY <1>1, <1>2, <1>4 DEF CountInv, Numbering
  <1>5. CASE /\ control_pc = "recv" /\ requests # <<>> /\ requests' = Tail(requests)
             /\ UNCHANGED <<commands, transfers>>
    <2>1. requests' \in Seq(Commands) /\ Len(requests') = Len(requests) - 1
      BY <1>5, HeadTailProperties DEF CountInv
    <2>2. current_transfer' \in 0..transfers' /\ joined' \in 0..transfers'
      BY <1>1, <1>2, <1>5 DEF CountInv, Numbering
    <2>3. /\ transfers' + Len(requests') <= commands'
          /\ transfers' + Len(requests') < commands'
      BY <1>2, <1>3, <1>5, <2>1 DEF CountInv
    <2> QED
      BY <1>2, <1>5, <2>1, <2>2, <2>3 DEF CountInv
  <1>6. CASE /\ control_pc = "preliminary" /\ control_pc' # "preliminary"
             /\ transfers' = transfers + 1 /\ UNCHANGED <<requests, commands>>
    BY <1>1, <1>2, <1>3, <1>6 DEF CountInv, Numbering
  <1>7. CASE /\ \E c \in Commands : requests' = Append(requests, c)
             /\ commands < MaxCommands /\ commands' = commands + 1
             /\ UNCHANGED <<control_pc, transfers>>
    <2>1. PICK c \in Commands : requests' = Append(requests, c)
      BY <1>7
    <2>2. requests' \in Seq(Commands) /\ Len(requests') = Len(requests) + 1
      BY <2>1, AppendProperties DEF CountInv
    <2> QED
      BY <1>1, <1>2, <1>3, <1>7, <2>2, MaxCommandsAssumption DEF CountInv, Numbering
  <1> QED
    BY <1>1, <1>4, <1>5, <1>6, <1>7 DEF Numbering

(* A reply is about a transfer that was announced, or about none.            *)
RepliesInv ==
  /\ \A i \in DOMAIN replies : replies[i].transfer <= transfers
  /\ pending.transfer <= transfers

(* A new session has said nothing.                                           *)
LEMMA InitReplies == Init => RepliesInv
  BY DEF Init, RepliesInv, NoReply, Reply

(* Every step only speaks of transfers it has announced.                     *)
LEMMA NextReplies == RepliesInv /\ Shape /\ ThreadsInv /\ [Next]_vars => RepliesInv'
  <1> SUFFICES ASSUME RepliesInv, Shape, ThreadsInv, [Next]_vars PROVE RepliesInv'
    OBVIOUS
  <1>1. Numbering /\ Speech
    BY StepNumbers, StepSpeaks
  <1>2. /\ transfers \in Nat /\ transfer_thread \in 0..transfers
        /\ pending \in Answers /\ pending.transfer \in Nat
        /\ \A i \in DOMAIN replies : replies[i].transfer \in Nat
    <2>1. \A i \in DOMAIN replies : replies[i] \in Answers
      BY DEF Shape
    <2> QED
      BY <2>1 DEF Shape, Answers
  <1>3. transfers' = transfers \/ transfers' = transfers + 1
    BY <1>1 DEF Numbering
  <1>4. pending'.transfer <= transfers'
    BY <1>1, <1>2, <1>3 DEF Numbering, RepliesInv
  <1>5. CASE replies' = replies
    BY <1>2, <1>3, <1>4, <1>5 DEF RepliesInv
  <1>6. ASSUME NEW r \in Answers, Send(r), r.transfer <= transfers'
        PROVE  RepliesInv'
    <2>1. \A i \in DOMAIN replies' :
            \/ i \in DOMAIN replies /\ replies'[i] = replies[i]
            \/ replies'[i] = r
      BY <1>6, SentReplies
    <2>2. \A i \in DOMAIN replies : replies[i].transfer <= transfers'
      BY <1>2, <1>3 DEF RepliesInv
    <2> QED
      BY <1>4, <1>6, <2>1, <2>2 DEF RepliesInv
  <1>7. CASE Send(Reply("421", 0))
    <2>1. Reply("421", 0) \in Answers /\ Reply("421", 0).transfer = 0
      BY ReplyType DEF Codes
    <2>2. 0 <= transfers'
      BY <1>2, <1>3
    <2> QED
      BY <1>6, <1>7, <2>1, <2>2
  <1>8. CASE control_pc = "reply" /\ Send(pending)
    <2>1. pending.transfer <= transfers'
      BY <1>2, <1>3 DEF RepliesInv
    <2> QED
      BY <1>2, <1>6, <1>8, <2>1
  <1>9. CASE transfers' = transfers + 1 /\ Send(Reply("150", transfers + 1))
    BY <1>2, <1>6, <1>9, PreliminaryReply
  <1>10. CASE Send(Reply(verdict, transfer_thread))
    <2>1. transfer_thread <= transfers'
      BY <1>2, <1>3
    <2> QED
      BY <1>6, <1>10, <2>1, VerdictReply
  <1> QED
    BY <1>1, <1>5, <1>7, <1>8, <1>9, <1>10 DEF Speech

(* The two threads keep every field of the session what it is meant to be:   *)
(* the lock belongs to the worker exactly while it delivers its verdict, the *)
(* session records exactly the running worker, and no number of a transfer   *)
(* is one that was never announced.                                          *)
THEOREM SessionIsTyped == Spec => []TypeOK
  <1>1. Init => Fields
    BY DEF Init, Fields, Places, Serving
  <1>2. Fields /\ [Next]_vars => Fields'
    BY NextFields
  <1>3. CountInv /\ Shape /\ ThreadsInv /\ [Next]_vars => CountInv'
    BY NextCount
  <1>4. RepliesInv /\ Shape /\ ThreadsInv /\ [Next]_vars => RepliesInv'
    BY NextReplies
  <1>5. Fields /\ CountInv /\ RepliesInv /\ Shape /\ ThreadsInv => TypeOK
    <2> SUFFICES ASSUME Fields, CountInv, RepliesInv, Shape, ThreadsInv PROVE TypeOK
      OBVIOUS
    <2>1. transfers \in 0..MaxCommands
      <3>1. Len(requests) \in Nat
        BY LenProperties DEF CountInv
      <3> QED
        BY <3>1, MaxCommandsAssumption DEF CountInv
    <2>2. \A r \in Answers : r.transfer <= transfers => r \in [code : Codes, transfer : 0..MaxCommands]
      BY <2>1, MaxCommandsAssumption DEF Answers
    <2>3. pending \in [code : Codes, transfer : 0..MaxCommands]
      BY <2>2 DEF RepliesInv, Shape
    <2>4. replies \in Seq([code : Codes, transfer : 0..MaxCommands])
      <3>1. \A i \in 1..Len(replies) : replies[i] \in [code : Codes, transfer : 0..MaxCommands]
        BY <2>2 DEF RepliesInv, Shape
      <3>2. Len(replies) \in Nat /\ replies \in [1..Len(replies) -> Answers]
        BY LenProperties DEF Shape
      <3>3. replies \in [1..Len(replies) -> [code : Codes, transfer : 0..MaxCommands]]
        BY <3>1, <3>2
      <3> QED
        BY <3>2, <3>3, SeqDef
    <2>5. control_pc \in {"recv", "reply", "preliminary", "start", "start fields",
       "start flags", "run", "abort", "abort close", "quit", "quit abort", "quit close",
       "cleanup", "cleanup suppress", "cleanup abort", "cleanup close", "join", "drop",
       "finish", "closed"}
      BY DEF Fields, Places, Serving, Starting, CleaningUp
    <2> QED
      BY <2>1, <2>3, <2>4, <2>5 DEF TypeOK, Fields, CountInv, Shape, ThreadsInv, LockOwner
  <1>6. QED
    BY <1>1, <1>2, <1>3, <1>4, <1>5, InitCount, InitReplies, Shapes, Threads, PTL DEF Spec
=============================================================================

--------------------------------- MODULE RDT --------------------------------
(***************************************************************************)
(* The reliable data transfer of src/shared/rdt_core.py: reliable_send     *)
(* (Go-Back-N window, duplicate-ACK fast retransmit, retransmission timer, *)
(* retry limit, FIN handshake) against reliable_recv (cumulative ACKs, FIN *)
(* reply, linger, timeout limit) over UDP.                                 *)
(*                                                                         *)
(* UDP may lose, duplicate and reorder packets: each direction is the set  *)
(* of packets in flight, and a packet may stay in flight after it is read. *)
(* A packet whose checksum fails, or that a loop reads and ignores, is a   *)
(* lost packet.  Clocks are abstracted: a timer may expire whenever the    *)
(* code is waiting on it.                                                  *)
(***************************************************************************)
EXTENDS Naturals, Sequences

CONSTANTS
  Files,              \* the chunk sequences that may be sent
  WINDOW_SIZE,
  DUP_ACK_THRESHOLD,
  DATA_MAX_RETRIES,
  FIN_MAX_RETRIES,
  MaxSyns             \* bound: SYNs of the channel handshake still in flight

ASSUME FilesAssumption == \A f \in Files : f \in Seq(Nat)
ASSUME LimitsAssumption ==
  /\ WINDOW_SIZE \in Nat \ {0}
  /\ DUP_ACK_THRESHOLD \in Nat \ {0}
  /\ DATA_MAX_RETRIES \in Nat \ {0}
  /\ FIN_MAX_RETRIES \in Nat \ {0}
  /\ MaxSyns \in Nat

VARIABLES
  raw_data,              \* the data, in chunks of MAX_PAYLOAD bytes
  base, next_seq_num, dup_ack_count, data_retry_count,  \* reliable_send
  fin_attempts,          \* FINs sent by the FIN handshake
  send_phase,            \* where reliable_send is, or how it ended
  expected_seq, received_data, receive_timeout_count,   \* reliable_recv
  recv_phase,            \* where reliable_recv is, or how it ended
  to_receiver,           \* packets in flight to the receiver
  to_sender,             \* packets in flight to the sender
  syn_responder,         \* the end called with respond_to_syn=True, if any
  syns                   \* SYNs in flight to syn_responder

send_vars == <<base, next_seq_num, dup_ack_count, data_retry_count,
               fin_attempts, send_phase>>
recv_vars == <<expected_seq, received_data, receive_timeout_count, recv_phase>>
syn_vars == <<syn_responder, syns>>
vars == <<raw_data, send_vars, recv_vars, to_receiver, to_sender, syn_vars>>

-----------------------------------------------------------------------------
(* Packets *)

(* An empty file is still sent as one empty DATA packet. *)
total_packets == IF raw_data = <<>> THEN 1 ELSE Len(raw_data)

Payload(seq) == IF seq < Len(raw_data) THEN <<raw_data[seq + 1]>> ELSE <<>>

DataPacket(seq) == [flags |-> {"DATA"}, seq |-> seq, payload |-> Payload(seq)]
FinPacket == [flags |-> {"FIN"}, seq |-> total_packets, payload |-> <<>>]
AckPacket(ack) == [flags |-> {"ACK"}, ack |-> ack]
SynAckPacket == [flags |-> {"SYN", "ACK"}, ack |-> 0]
FinAckPacket(seq) == [flags |-> {"FIN"}, ack |-> seq]

SenderPackets == {DataPacket(i) : i \in 0..(total_packets - 1)} \cup {FinPacket}
ReceiverPackets ==
  {AckPacket(i) : i \in 0..total_packets} \cup {SynAckPacket, FinAckPacket(total_packets)}

-----------------------------------------------------------------------------
Init ==
  /\ raw_data \in Files
  /\ base = 0 /\ next_seq_num = 0
  /\ dup_ack_count = 0 /\ data_retry_count = 0
  /\ fin_attempts = 0
  /\ send_phase = "data"
  /\ expected_seq = 0 /\ received_data = <<>> /\ receive_timeout_count = 0
  /\ recv_phase = "recv"
  /\ to_receiver = {} /\ to_sender = {}
  /\ syn_responder \in {"none", "sender", "receiver"}
  /\ syns \in IF syn_responder = "none" THEN {0} ELSE 0..MaxSyns

(* A read consumes packet p, unless the network holds a duplicate of it. *)
Consume(wire, p) == {wire, wire \ {p}}

-----------------------------------------------------------------------------
(* reliable_send: DATA phase *)

(* Mutant of InWindow: the window holds one packet too many. *)
InWindowOffByOne ==
  /\ next_seq_num <= base + WINDOW_SIZE
  /\ next_seq_num < total_packets

InWindow ==
  /\ next_seq_num < base + WINDOW_SIZE
  /\ next_seq_num < total_packets

(* The window loop runs to its end before the next recvfrom. *)
Listening == send_phase = "data" /\ ~InWindow

SendWindow ==
  /\ send_phase = "data"
  /\ InWindow
  /\ to_receiver' = to_receiver \cup {DataPacket(next_seq_num)}
  /\ next_seq_num' = next_seq_num + 1
  /\ UNCHANGED <<raw_data, base, dup_ack_count, data_retry_count, fin_attempts,
                 send_phase, recv_vars, to_sender, syn_vars>>

(* Mutant of NewAck: the FIN does not wait for the last ACK. *)
FinBeforeLastAck(p) ==
  /\ p.ack > base
  /\ base' = p.ack
  /\ dup_ack_count' = 0
  /\ data_retry_count' = 0
  /\ send_phase' = IF p.ack + 1 < total_packets THEN "data" ELSE "fin"
  /\ UNCHANGED to_receiver

(* An ACK moves the window; the loop ends when everything is acknowledged. *)
NewAck(p) ==
  /\ p.ack > base
  /\ base' = p.ack
  /\ dup_ack_count' = 0
  /\ data_retry_count' = 0
  /\ send_phase' = IF p.ack < total_packets THEN "data" ELSE "fin"
  /\ UNCHANGED to_receiver

(* The count is compared for equality only, so a count that has passed the   *)
(* threshold never meets it again before a new ACK clears it: here           *)
(* DUP_ACK_THRESHOLD stands for every count from there on.                   *)
DuplicateAck(p) ==
  /\ p.ack = base
  /\ dup_ack_count + 1 # DUP_ACK_THRESHOLD
  /\ dup_ack_count' = IF dup_ack_count < DUP_ACK_THRESHOLD
                        THEN dup_ack_count + 1 ELSE DUP_ACK_THRESHOLD
  /\ UNCHANGED <<base, data_retry_count, send_phase, to_receiver>>

FastRetransmit(p) ==
  /\ p.ack = base
  /\ dup_ack_count + 1 = DUP_ACK_THRESHOLD
  /\ data_retry_count < DATA_MAX_RETRIES
  /\ to_receiver' = to_receiver \cup {DataPacket(base)}
  /\ data_retry_count' = data_retry_count + 1
  /\ dup_ack_count' = 0
  /\ UNCHANGED <<base, send_phase>>

(* With the retry budget used up the code raises RDTDataTimeout, but inside  *)
(* the try whose except clause takes it: it subclasses TimeoutError, which    *)
(* socket.timeout is.  The loop goes on without the fast retransmit, and the  *)
(* sender gives up only when the timer expires (RetransmitRaises).            *)
FastRetransmitSwallowed(p) ==
  /\ p.ack = base
  /\ dup_ack_count + 1 = DUP_ACK_THRESHOLD
  /\ data_retry_count >= DATA_MAX_RETRIES
  /\ dup_ack_count' = dup_ack_count + 1
  /\ UNCHANGED <<base, data_retry_count, send_phase, to_receiver>>

(* Any packet with the ACK bit counts, a late SYN-ACK of the handshake too. *)
ReceiveAck(p) ==
  /\ Listening
  /\ "ACK" \in p.flags
  /\ NewAck(p) \/ DuplicateAck(p) \/ FastRetransmit(p)
       \/ FastRetransmitSwallowed(p)
  /\ to_sender' \in Consume(to_sender, p)
  /\ UNCHANGED <<raw_data, next_seq_num, fin_attempts, recv_vars, syn_vars>>

(* A repeated SYN gives the whole transfer a fresh retry budget. *)
SenderAnswersSyn ==
  /\ Listening
  /\ syn_responder = "sender"
  /\ syns > 0
  /\ syns' = syns - 1
  /\ data_retry_count' = 0
  /\ UNCHANGED <<raw_data, base, next_seq_num, dup_ack_count, fin_attempts,
                 send_phase, recv_vars, to_receiver, to_sender, syn_responder>>

TimerExpired == Listening /\ base < next_seq_num

(* Mutant of RetransmitWindow: the retry limit is not checked. *)
RetransmitWithoutLimit ==
  /\ TimerExpired
  /\ to_receiver' = to_receiver \cup {DataPacket(i) : i \in base..(next_seq_num - 1)}
  /\ data_retry_count' = data_retry_count + 1
  /\ UNCHANGED <<raw_data, base, next_seq_num, dup_ack_count, fin_attempts,
                 send_phase, recv_vars, to_sender, syn_vars>>

(* Mutant of RetransmitWindow: the retry is not counted. *)
RetransmitUncounted ==
  /\ TimerExpired
  /\ data_retry_count < DATA_MAX_RETRIES
  /\ to_receiver' = to_receiver \cup {DataPacket(i) : i \in base..(next_seq_num - 1)}
  /\ UNCHANGED <<raw_data, base, next_seq_num, dup_ack_count, data_retry_count,
                 fin_attempts, send_phase, recv_vars, to_sender, syn_vars>>

RetransmitWindow ==
  /\ TimerExpired
  /\ data_retry_count < DATA_MAX_RETRIES
  /\ to_receiver' = to_receiver \cup {DataPacket(i) : i \in base..(next_seq_num - 1)}
  /\ data_retry_count' = data_retry_count + 1
  /\ UNCHANGED <<raw_data, base, next_seq_num, dup_ack_count, fin_attempts,
                 send_phase, recv_vars, to_sender, syn_vars>>

RetransmitRaises ==
  /\ TimerExpired
  /\ data_retry_count >= DATA_MAX_RETRIES
  /\ send_phase' = "data_timeout"
  /\ UNCHANGED <<raw_data, base, next_seq_num, dup_ack_count, data_retry_count,
                 fin_attempts, recv_vars, to_receiver, to_sender, syn_vars>>

-----------------------------------------------------------------------------
(* reliable_send: FIN handshake *)

SendFin ==
  /\ send_phase = "fin"
  /\ fin_attempts < FIN_MAX_RETRIES
  /\ fin_attempts' = fin_attempts + 1
  /\ to_receiver' = to_receiver \cup {FinPacket}
  /\ UNCHANGED <<raw_data, base, next_seq_num, dup_ack_count, data_retry_count,
                 send_phase, recv_vars, to_sender, syn_vars>>

(* Mutant of ReceiveFinAck: the last data ACK passes for the answer to FIN. *)
AckEndsTeardown(p) ==
  /\ send_phase = "fin"
  /\ fin_attempts > 0
  /\ p.ack = total_packets
  /\ send_phase' = "finished"
  /\ to_sender' \in Consume(to_sender, p)
  /\ UNCHANGED <<raw_data, base, next_seq_num, dup_ack_count, data_retry_count,
                 fin_attempts, recv_vars, to_receiver, syn_vars>>

ReceiveFinAck(p) ==
  /\ send_phase = "fin"
  /\ fin_attempts > 0
  /\ p = FinAckPacket(total_packets)
  /\ send_phase' = "finished"
  /\ to_sender' \in Consume(to_sender, p)
  /\ UNCHANGED <<raw_data, base, next_seq_num, dup_ack_count, data_retry_count,
                 fin_attempts, recv_vars, to_receiver, syn_vars>>

(* Mutant of TeardownTimeout: the caller is told that the data failed.       *)
TeardownRaisesDataTimeout ==
  /\ send_phase = "fin"
  /\ fin_attempts = FIN_MAX_RETRIES
  /\ send_phase' = "data_timeout"
  /\ UNCHANGED <<raw_data, base, next_seq_num, dup_ack_count, data_retry_count,
                 fin_attempts, recv_vars, to_receiver, to_sender, syn_vars>>

TeardownTimeout ==
  /\ send_phase = "fin"
  /\ fin_attempts = FIN_MAX_RETRIES
  /\ send_phase' = "teardown_timeout"
  /\ UNCHANGED <<raw_data, base, next_seq_num, dup_ack_count, data_retry_count,
                 fin_attempts, recv_vars, to_receiver, to_sender, syn_vars>>

(* The cancel event is seen at the next check, or the socket was closed. *)
SenderInterrupted ==
  /\ send_phase \in {"data", "fin"}
  /\ send_phase' = "interrupted"
  /\ UNCHANGED <<raw_data, base, next_seq_num, dup_ack_count, data_retry_count,
                 fin_attempts, recv_vars, to_receiver, to_sender, syn_vars>>

-----------------------------------------------------------------------------
(* reliable_recv *)

(* Mutant of ReceiveData: any packet that is not old is accepted. *)
AcceptsPacketsAhead(p) ==
  /\ recv_phase = "recv"
  /\ p.flags = {"DATA"}
  /\ receive_timeout_count' = 0
  /\ IF p.seq >= expected_seq
       THEN /\ received_data' = received_data \o p.payload
            /\ expected_seq' = p.seq + 1
       ELSE UNCHANGED <<received_data, expected_seq>>
  /\ to_sender' = to_sender \cup {AckPacket(expected_seq')}
  /\ to_receiver' \in Consume(to_receiver, p)
  /\ UNCHANGED <<raw_data, send_vars, recv_phase, syn_vars>>

(* Mutant of ReceiveData: acknowledges the packet, accepted or not. *)
AcknowledgesArrival(p) ==
  /\ recv_phase = "recv"
  /\ p.flags = {"DATA"}
  /\ receive_timeout_count' = 0
  /\ IF p.seq = expected_seq
       THEN /\ received_data' = received_data \o p.payload
            /\ expected_seq' = expected_seq + 1
       ELSE UNCHANGED <<received_data, expected_seq>>
  /\ to_sender' = to_sender \cup {AckPacket(p.seq + 1)}
  /\ to_receiver' \in Consume(to_receiver, p)
  /\ UNCHANGED <<raw_data, send_vars, recv_phase, syn_vars>>

ReceiveData(p) ==
  /\ recv_phase = "recv"
  /\ p.flags = {"DATA"}
  /\ receive_timeout_count' = 0
  /\ IF p.seq = expected_seq
       THEN /\ received_data' = received_data \o p.payload
            /\ expected_seq' = expected_seq + 1
       ELSE UNCHANGED <<received_data, expected_seq>>
  /\ to_sender' = to_sender \cup {AckPacket(expected_seq')}
  /\ to_receiver' \in Consume(to_receiver, p)
  /\ UNCHANGED <<raw_data, send_vars, recv_phase, syn_vars>>

(* A FIN ahead of the data is answered like a DATA packet out of order, but *)
(* does not reset the timeout count.                                        *)
ReceiveFin(p) ==
  /\ recv_phase = "recv"
  /\ p.flags = {"FIN"}
  /\ IF p.seq = expected_seq
       THEN /\ receive_timeout_count' = 0
            /\ recv_phase' = "linger"
            /\ to_sender' = to_sender \cup {FinAckPacket(p.seq)}
       ELSE /\ to_sender' = to_sender \cup {AckPacket(expected_seq)}
            /\ UNCHANGED <<receive_timeout_count, recv_phase>>
  /\ to_receiver' \in Consume(to_receiver, p)
  /\ UNCHANGED <<raw_data, send_vars, expected_seq, received_data, syn_vars>>

(* _linger_after_fin: only the same FIN is answered, anything else is dropped. *)
LingerReceiveFin(p) ==
  /\ recv_phase = "linger"
  /\ p.flags = {"FIN"}
  /\ p.seq = expected_seq
  /\ to_sender' = to_sender \cup {FinAckPacket(p.seq)}
  /\ to_receiver' \in Consume(to_receiver, p)
  /\ UNCHANGED <<raw_data, send_vars, recv_vars, syn_vars>>

LingerEnds ==
  /\ recv_phase = "linger"
  /\ recv_phase' = "done"
  /\ UNCHANGED <<raw_data, send_vars, expected_seq, received_data,
                 receive_timeout_count, to_receiver, to_sender, syn_vars>>

ReceiverAnswersSyn ==
  /\ recv_phase = "recv"
  /\ syn_responder = "receiver"
  /\ syns > 0
  /\ syns' = syns - 1
  /\ receive_timeout_count' = 0
  /\ to_sender' = to_sender \cup {SynAckPacket}
  /\ UNCHANGED <<raw_data, send_vars, expected_seq, received_data, recv_phase,
                 to_receiver, syn_responder>>

(* Mutant of ReceiveTimeout: the timeout limit returns what has arrived. *)
ReturnsOnTimeout ==
  /\ recv_phase = "recv"
  /\ receive_timeout_count' = receive_timeout_count + 1
  /\ recv_phase' = IF receive_timeout_count' >= DATA_MAX_RETRIES
                     THEN "done" ELSE "recv"
  /\ UNCHANGED <<raw_data, send_vars, expected_seq, received_data,
                 to_receiver, to_sender, syn_vars>>

(* Mutant of ReceiveTimeout: the timeout is not counted. *)
TimeoutUncounted ==
  /\ recv_phase = "recv"
  /\ recv_phase' = IF receive_timeout_count >= DATA_MAX_RETRIES
                     THEN "data_timeout" ELSE "recv"
  /\ UNCHANGED <<raw_data, send_vars, expected_seq, received_data,
                 receive_timeout_count, to_receiver, to_sender, syn_vars>>

ReceiveTimeout ==
  /\ recv_phase = "recv"
  /\ receive_timeout_count' = receive_timeout_count + 1
  /\ recv_phase' = IF receive_timeout_count' >= DATA_MAX_RETRIES
                     THEN "data_timeout" ELSE "recv"
  /\ UNCHANGED <<raw_data, send_vars, expected_seq, received_data,
                 to_receiver, to_sender, syn_vars>>

ReceiverInterrupted ==
  /\ recv_phase \in {"recv", "linger"}
  /\ recv_phase' = "interrupted"
  /\ UNCHANGED <<raw_data, send_vars, expected_seq, received_data,
                 receive_timeout_count, to_receiver, to_sender, syn_vars>>

-----------------------------------------------------------------------------
(* The network *)

LoseToReceiver(p) ==
  /\ to_receiver' = to_receiver \ {p}
  /\ UNCHANGED <<raw_data, send_vars, recv_vars, to_sender, syn_vars>>

LoseToSender(p) ==
  /\ to_sender' = to_sender \ {p}
  /\ UNCHANGED <<raw_data, send_vars, recv_vars, to_receiver, syn_vars>>

LoseSyn ==
  /\ syns > 0
  /\ syns' = syns - 1
  /\ UNCHANGED <<raw_data, send_vars, recv_vars, to_receiver, to_sender,
                 syn_responder>>

-----------------------------------------------------------------------------
SenderStep ==
  \/ SendWindow \/ SenderAnswersSyn \/ RetransmitWindow \/ RetransmitRaises
  \/ SendFin \/ TeardownTimeout \/ SenderInterrupted
  \/ \E p \in to_sender : ReceiveAck(p) \/ ReceiveFinAck(p)

ReceiverStep ==
  \/ ReceiverAnswersSyn \/ LingerEnds \/ ReceiveTimeout \/ ReceiverInterrupted
  \/ \E p \in to_receiver :
       ReceiveData(p) \/ ReceiveFin(p) \/ LingerReceiveFin(p)

NetworkStep ==
  \/ \E p \in to_receiver : LoseToReceiver(p)
  \/ \E p \in to_sender : LoseToSender(p)
  \/ LoseSyn

Next == SenderStep \/ ReceiverStep \/ NetworkStep

Spec == Init /\ [][Next]_vars

(* Both loops run on their own clocks, which no packet can stop, and a       *)
(* packet does not stay in the network for ever.  Nothing is assumed about   *)
(* delivery, nor that anyone aborts.                                        *)
Fairness ==
  /\ WF_vars(SendWindow)
  /\ WF_vars(RetransmitWindow \/ RetransmitRaises)
  /\ WF_vars(SendFin \/ TeardownTimeout)
  /\ WF_vars(ReceiveTimeout)
  /\ WF_vars(LingerEnds)
  /\ WF_vars(LoseSyn)
  /\ WF_vars(\E p \in to_receiver : LoseToReceiver(p))

FairSpec == Spec /\ Fairness

-----------------------------------------------------------------------------
SenderDone == send_phase \in {"finished", "data_timeout", "teardown_timeout", "interrupted"}
ReceiverDone == recv_phase \in {"done", "data_timeout", "interrupted"}

(* The state of the two loops, the packets either one ever sends, and what   *)
(* a loop that still runs has left: data to acknowledge, a timeout.  The     *)
(* fast retransmit is switched off only by a used-up retry budget, which     *)
(* only a SYN renews without a new ACK.                                      *)
TypeOK ==
  /\ raw_data \in Files
  /\ base \in 0..total_packets /\ next_seq_num \in 0..total_packets
  /\ dup_ack_count \in 0..DUP_ACK_THRESHOLD
  /\ data_retry_count \in 0..DATA_MAX_RETRIES
  /\ fin_attempts \in 0..FIN_MAX_RETRIES
  /\ send_phase \in {"data", "fin", "finished", "data_timeout",
                      "teardown_timeout", "interrupted"}
  /\ expected_seq \in 0..total_packets /\ received_data \in Seq(Nat)
  /\ receive_timeout_count \in 0..DATA_MAX_RETRIES
  /\ recv_phase \in {"recv", "linger", "done", "data_timeout", "interrupted"}
  /\ to_receiver \subseteq SenderPackets
  /\ to_sender \subseteq ReceiverPackets
  /\ syn_responder \in {"none", "sender", "receiver"}
  /\ syns \in 0..MaxSyns
  /\ send_phase = "data" => base < total_packets
  /\ dup_ack_count = DUP_ACK_THRESHOLD =>
       data_retry_count = DATA_MAX_RETRIES \/ syn_responder = "sender"
  /\ recv_phase = "recv" => receive_timeout_count < DATA_MAX_RETRIES

(* The first n chunks of the data, all of it when there are no more. *)
FirstChunks(n) == SubSeq(raw_data, 1, IF n < Len(raw_data) THEN n ELSE Len(raw_data))

(* Whatever the network loses, repeats or reorders, the bytes accepted so    *)
(* far are exactly the first expected_seq chunks that were sent.             *)
InOrderDelivery == received_data = FirstChunks(expected_seq)

(* The receiver is always inside the sender's window: nothing is taken as    *)
(* acknowledged before it was accepted, nothing accepted before it was sent. *)
ReceiverInsideWindow ==
  /\ base <= expected_seq
  /\ expected_seq <= next_seq_num
  /\ next_seq_num <= base + WINDOW_SIZE

(* A FIN is only ever sent, accepted or answered when all data has arrived;  *)
(* so a sender that fails in the FIN handshake (RDTTeardownTimeout) has      *)
(* nevertheless delivered everything.                                        *)
FinMeansComplete ==
  send_phase \in {"fin", "finished", "teardown_timeout"}
    \/ recv_phase \in {"linger", "done"}
    \/ FinPacket \in to_receiver
  => received_data = raw_data

(* reliable_send returns normally only if reliable_recv has accepted the     *)
(* FIN: it can no longer time out, only finish or be interrupted.            *)
SuccessMeansAccepted ==
  send_phase = "finished" => recv_phase \in {"linger", "done", "interrupted"}

(* A caller told RDTDataTimeout, who treats the file as not delivered, is    *)
(* never wrong: reliable_recv has not accepted the transfer and never will.  *)
(* (RDTTeardownTimeout, by contrast, leaves that open.)                      *)
GivingUpIsNeverAccepted ==
  send_phase = "data_timeout" => recv_phase \notin {"linger", "done"}

(* The inductive invariant behind those above: what every packet in flight   *)
(* says about the two ends.                                                  *)
PacketsTruthful ==
  /\ \A p \in to_receiver : p.flags = {"DATA"} => p.seq < next_seq_num
  /\ \A p \in to_receiver : p.flags = {"FIN"} => expected_seq = total_packets
  /\ \A p \in to_sender : "ACK" \in p.flags => p.ack <= expected_seq
  /\ \A p \in to_sender : p.flags = {"FIN"} =>
        recv_phase \in {"linger", "done", "interrupted"}

PhasesAgree ==
  /\ send_phase \in {"fin", "finished", "teardown_timeout"} => base = total_packets
  /\ recv_phase \in {"linger", "done"} => expected_seq = total_packets

(* A FIN is in flight or accepted only if this sender has left its DATA loop *)
(* with everything acknowledged.                                             *)
FinWasSent ==
  /\ fin_attempts > 0 => send_phase \notin {"data", "data_timeout"}
  /\ \A p \in to_receiver : p.flags = {"FIN"} => fin_attempts > 0
  /\ recv_phase \in {"linger", "done"} => fin_attempts > 0

IInv ==
  /\ TypeOK
  /\ InOrderDelivery
  /\ ReceiverInsideWindow
  /\ PacketsTruthful
  /\ PhasesAgree
  /\ SuccessMeansAccepted
  /\ FinWasSent

(* However many packets are lost, reliable_send returns or raises.           *)
SenderEnds == <>SenderDone

(* However many packets are lost, reliable_recv returns or raises.           *)
ReceiverEnds == <>ReceiverDone
-----------------------------------------------------------------------------
(* What the two calls promise their callers. *)

SenderOutcome ==
  CASE send_phase \in {"data", "fin"} -> "open"
    [] send_phase = "finished" -> "ok"
    [] OTHER -> "failed"

ReceiverOutcome ==
  CASE recv_phase \in {"recv", "linger"} -> "open"
    [] recv_phase = "done" -> "ok"
    [] OTHER -> "failed"

RT == INSTANCE ReliableTransfer
        WITH sender <- SenderOutcome, receiver <- ReceiverOutcome

(* The protocol implements ReliableTransfer: in-order, exactly-once          *)
(* acceptance, and a normal return of either call only with all the data.    *)
ImplementsReliableTransfer == RT!Spec
=============================================================================

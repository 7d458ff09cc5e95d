------------------------------ MODULE RDTProofs -----------------------------
(***************************************************************************)
(* Theorems about RDT for every set of files, window, threshold and retry  *)
(* limit.                                                                  *)
(***************************************************************************)
EXTENDS RDT, SequenceTheorems, TLAPS

(* The packets of a transfer are a positive number, at least one per chunk. *)
LEMMA TotalPackets ==
  ASSUME raw_data \in Seq(Nat)
  PROVE  /\ total_packets \in Nat \ {0}
         /\ Len(raw_data) <= total_packets
  <1>1. Len(raw_data) \in Nat /\ (raw_data # <<>> => Len(raw_data) # 0)
    BY EmptySeq, LenProperties
  <1>2. Len(<<>>) = 0
    BY EmptySeq
  <1>3. QED
    BY <1>1, <1>2 DEF total_packets

(* Accepting DATA packet n after the first n chunks gives the first n + 1. *)
LEMMA NextChunk ==
  ASSUME raw_data \in Seq(Nat), NEW n \in Nat
  PROVE  FirstChunks(n) \o Payload(n) = FirstChunks(n + 1)
  <1>1. Len(raw_data) \in Nat
    BY LenProperties
  <1>2. CASE n < Len(raw_data)
    <2>1. n + 1 \in 1..Len(raw_data) /\ 1 \in 1..Len(raw_data) /\ n + 1 \in 1..(n + 1)
      BY <1>1, <1>2
    <2>2. SubSeq(raw_data, 1, n + 1) = SubSeq(raw_data, 1, n) \o <<raw_data[n + 1]>>
      <3>1. SubSeq(raw_data, 1, n + 1) = SubSeq(raw_data, 1, (n + 1) - 1) \o <<raw_data[n + 1]>>
        BY <2>1, <1>1, SubSeqRecursiveSecond, n + 1 \in 1..Len(raw_data)
      <3>2. (n + 1) - 1 = n
        OBVIOUS
      <3>3. QED
        BY <3>1, <3>2
    <2>3. FirstChunks(n) = SubSeq(raw_data, 1, n) /\ Payload(n) = <<raw_data[n + 1]>>
      BY <1>2 DEF FirstChunks, Payload
    <2>4. FirstChunks(n + 1) = SubSeq(raw_data, 1, n + 1)
      <3>1. CASE n + 1 < Len(raw_data)
        BY <3>1 DEF FirstChunks
      <3>2. CASE ~(n + 1 < Len(raw_data))
        <4>1. n + 1 = Len(raw_data)
          BY <1>1, <1>2, <3>2
        <4>2. QED
          BY <3>2, <4>1 DEF FirstChunks
      <3>3. QED
        BY <3>1, <3>2
    <2>5. QED
      BY <2>2, <2>3, <2>4
  <1>3. CASE ~(n < Len(raw_data))
    <2>1. ~(n + 1 < Len(raw_data))
      BY <1>1, <1>3
    <2>2. FirstChunks(n) = raw_data /\ FirstChunks(n + 1) = raw_data
      BY <1>3, <2>1, SubSeqFull DEF FirstChunks
    <2>3. Payload(n) = <<>>
      BY <1>3 DEF Payload
    <2>4. QED
      BY <2>2, <2>3, ConcatEmptySeq
  <1>4. QED
    BY <1>2, <1>3

(* Once every packet is accepted, so is all of the data. *)
LEMMA AllChunks ==
  ASSUME raw_data \in Seq(Nat)
  PROVE  FirstChunks(total_packets) = raw_data
  <1>1. ~(total_packets < Len(raw_data))
    BY TotalPackets, LenProperties
  <1>2. QED
    BY <1>1, SubSeqFull DEF FirstChunks

-----------------------------------------------------------------------------
(* No step changes the data, so none changes what a packet looks like. *)
LEMMA DataUnchanged == [Next]_vars => raw_data' = raw_data
  BY DEF Next, vars, SenderStep, ReceiverStep, NetworkStep,
     SendWindow, ReceiveAck, SenderAnswersSyn, RetransmitWindow, RetransmitRaises,
     SendFin, ReceiveFinAck, TeardownTimeout, SenderInterrupted, ReceiveData,
     ReceiveFin, LingerReceiveFin, LingerEnds, ReceiverAnswersSyn, ReceiveTimeout,
     ReceiverInterrupted, LoseToReceiver, LoseToSender, LoseSyn

(* The packets of a transfer depend on its data only. *)
LEMMA PacketsUnchanged ==
  ASSUME raw_data' = raw_data
  PROVE  /\ total_packets' = total_packets
         /\ SenderPackets' = SenderPackets
         /\ ReceiverPackets' = ReceiverPackets
  BY DEF total_packets, SenderPackets, ReceiverPackets, DataPacket, Payload,
         FinPacket, AckPacket, SynAckPacket, FinAckPacket

(* The shape of a packet in flight to each end. *)
LEMMA SenderPacketShape ==
  ASSUME raw_data \in Seq(Nat), NEW p \in SenderPackets
  PROVE  \/ /\ p.flags = {"DATA"} /\ p.seq \in 0..(total_packets - 1)
            /\ p.payload = Payload(p.seq)
         \/ p.flags = {"FIN"} /\ p.seq = total_packets
  BY DEF SenderPackets, DataPacket, FinPacket

(* A packet to the sender is an ACK or SYN-ACK of a packet number in range, *)
(* or the answer to FIN.                                                     *)
LEMMA ReceiverPacketShape ==
  ASSUME raw_data \in Seq(Nat), NEW p \in ReceiverPackets
  PROVE  \/ "ACK" \in p.flags /\ p.flags # {"FIN"} /\ p.ack \in 0..total_packets
         \/ p.flags = {"FIN"} /\ "ACK" \notin p.flags /\ p.ack = total_packets
  BY TotalPackets DEF ReceiverPackets, AckPacket, SynAckPacket, FinAckPacket

-----------------------------------------------------------------------------
(* A transfer that begins is well typed.                                     *)
LEMMA InitTypeOK == Init => TypeOK
  <1> SUFFICES ASSUME Init PROVE TypeOK
    OBVIOUS
  <1>1. raw_data \in Files /\ raw_data \in Seq(Nat)
    BY FilesAssumption DEF Init
  <1>2. total_packets \in Nat \ {0}
    BY <1>1, TotalPackets
  <1>3. received_data \in Seq(Nat)
    BY EmptySeq DEF Init
  <1>4. QED
    BY <1>1, <1>2, <1>3, LimitsAssumption DEF Init, TypeOK

(* No step of either loop or of the network takes the state out of range.    *)
LEMMA NextTypeOK == TypeOK /\ [Next]_vars => TypeOK'
  <1> SUFFICES ASSUME TypeOK, [Next]_vars PROVE TypeOK'
    OBVIOUS
  <1>1. /\ raw_data' = raw_data /\ total_packets' = total_packets
        /\ SenderPackets' = SenderPackets /\ ReceiverPackets' = ReceiverPackets
    BY DataUnchanged, PacketsUnchanged
  <1>2. raw_data \in Files /\ raw_data \in Seq(Nat)
    BY FilesAssumption DEF TypeOK
  <1>3. total_packets \in Nat \ {0}
    BY <1>2, TotalPackets
  <1>4. \A i \in 0..(total_packets - 1) : DataPacket(i) \in SenderPackets
    BY DEF SenderPackets
  <1>5. /\ FinPacket \in SenderPackets
        /\ \A i \in 0..total_packets : AckPacket(i) \in ReceiverPackets
        /\ SynAckPacket \in ReceiverPackets
        /\ FinAckPacket(total_packets) \in ReceiverPackets
    BY DEF SenderPackets, ReceiverPackets
  <1>6. \A n \in Nat : Payload(n) \in Seq(Nat)
    <2> TAKE n \in Nat
    <2>1. CASE n < Len(raw_data)
      <3>1. n + 1 \in 1..Len(raw_data)
        BY <1>2, <2>1, LenProperties
      <3>2. raw_data[n + 1] \in Nat
        BY <1>2, <3>1, ElementOfSeq
      <3>3. QED
        BY <2>1, <3>2 DEF Payload
    <2>2. CASE ~(n < Len(raw_data))
      BY <2>2, EmptySeq DEF Payload
    <2>3. QED
      BY <2>1, <2>2
  <1> USE <1>1, <1>3, LimitsAssumption
  <1>7. CASE SendWindow
    BY <1>7, <1>4 DEF SendWindow, TypeOK, send_vars, recv_vars, syn_vars, InWindow
  <1>8. CASE SenderAnswersSyn
    BY <1>8 DEF SenderAnswersSyn, TypeOK, send_vars, recv_vars, syn_vars, Listening
  <1>9. CASE RetransmitWindow
    <2>1. {DataPacket(i) : i \in base..(next_seq_num - 1)} \subseteq SenderPackets
      BY <1>4 DEF TypeOK
    <2>2. QED
      BY <1>9, <2>1 DEF RetransmitWindow, TypeOK, recv_vars, syn_vars, TimerExpired,
             Listening
  <1>10. CASE RetransmitRaises
    BY <1>10 DEF RetransmitRaises, TypeOK, send_vars, recv_vars, syn_vars, TimerExpired,
           Listening
  <1>11. CASE SendFin
    BY <1>11, <1>5 DEF SendFin, TypeOK, send_vars, recv_vars, syn_vars
  <1>12. CASE TeardownTimeout
    BY <1>12 DEF TeardownTimeout, TypeOK, send_vars, recv_vars, syn_vars
  <1>13. CASE SenderInterrupted
    BY <1>13 DEF SenderInterrupted, TypeOK, send_vars, recv_vars, syn_vars
  <1>14. CASE LingerEnds
    BY <1>14 DEF LingerEnds, TypeOK, send_vars, recv_vars, syn_vars
  <1>15. CASE ReceiverAnswersSyn
    BY <1>15, <1>5 DEF ReceiverAnswersSyn, TypeOK, send_vars, recv_vars, syn_vars
  <1>16. CASE ReceiveTimeout
    BY <1>16 DEF ReceiveTimeout, TypeOK, send_vars, recv_vars, syn_vars
  <1>17. CASE ReceiverInterrupted
    BY <1>17 DEF ReceiverInterrupted, TypeOK, send_vars, recv_vars, syn_vars
  <1>18. CASE LoseSyn
    BY <1>18 DEF LoseSyn, TypeOK, send_vars, recv_vars, syn_vars
  <1>19. ASSUME NEW p \in to_receiver, LoseToReceiver(p) PROVE TypeOK'
    BY <1>19 DEF LoseToReceiver, TypeOK, send_vars, recv_vars, syn_vars
  <1>20. ASSUME NEW p \in to_sender, LoseToSender(p) PROVE TypeOK'
    BY <1>20 DEF LoseToSender, TypeOK, send_vars, recv_vars, syn_vars
  <1>21. ASSUME NEW p \in to_sender, ReceiveAck(p) PROVE TypeOK'
    <2>1. p.ack \in 0..total_packets
      BY <1>21, <1>2, ReceiverPacketShape DEF TypeOK, ReceiveAck
    <2>2. to_sender' \subseteq ReceiverPackets
      BY <1>21 DEF TypeOK, ReceiveAck, Consume
    <2>3. DataPacket(base) \in SenderPackets
      BY <1>21, <1>4 DEF TypeOK, ReceiveAck, Listening
    <2>4. CASE NewAck(p)
      BY <1>21, <2>1, <2>2, <2>4 DEF TypeOK, ReceiveAck, Listening, NewAck, recv_vars,
             syn_vars
    <2>5. CASE DuplicateAck(p)
      BY <1>21, <2>2, <2>5 DEF TypeOK, ReceiveAck, Listening, DuplicateAck, recv_vars,
             syn_vars
    <2>6. CASE FastRetransmit(p)
      BY <1>21, <2>2, <2>3, <2>6 DEF TypeOK, ReceiveAck, Listening, FastRetransmit,
             recv_vars, syn_vars
    <2>7. CASE FastRetransmitSwallowed(p)
      BY <1>21, <2>2, <2>7 DEF TypeOK, ReceiveAck, Listening, FastRetransmitSwallowed,
             recv_vars, syn_vars
    <2>8. QED
      BY <1>21, <2>4, <2>5, <2>6, <2>7 DEF ReceiveAck
  <1>22. ASSUME NEW p \in to_sender, ReceiveFinAck(p) PROVE TypeOK'
    BY <1>22 DEF ReceiveFinAck, Consume, TypeOK, recv_vars, syn_vars
  <1>23. ASSUME NEW p \in to_receiver, ReceiveData(p) PROVE TypeOK'
    <2>1. p.seq \in 0..(total_packets - 1) /\ p.payload \in Seq(Nat)
      <3>1. p.flags = {"DATA"} /\ p \in SenderPackets
        BY <1>23 DEF ReceiveData, TypeOK
      <3>2. p.flags # {"FIN"}
        BY <3>1
      <3>3. p.seq \in 0..(total_packets - 1) /\ p.payload = Payload(p.seq)
        BY <1>2, <3>1, <3>2, SenderPacketShape
      <3>4. QED
        BY <3>3, <1>6
    <2>2. received_data \o p.payload \in Seq(Nat)
      BY <2>1, ConcatProperties DEF TypeOK
    <2>3. received_data' \in Seq(Nat) /\ expected_seq' \in 0..total_packets
      <3>1. /\ p.seq = expected_seq => /\ received_data' = received_data \o p.payload
                                       /\ expected_seq' = expected_seq + 1
            /\ p.seq # expected_seq => /\ received_data' = received_data
                                       /\ expected_seq' = expected_seq
        BY <1>23 DEF ReceiveData
      <3>2. CASE p.seq = expected_seq
        <4>1. received_data' = received_data \o p.payload /\ expected_seq' = expected_seq + 1
          BY <3>1, <3>2
        <4>2. expected_seq \in 0..(total_packets - 1)
          BY <2>1, <3>2
        <4>3. received_data' \in Seq(Nat)
          BY <2>2, <4>1, Zenon
        <4>4. QED
          BY <4>1, <4>2, <4>3
      <3>3. CASE p.seq # expected_seq
        BY <3>1, <3>3 DEF TypeOK
      <3>4. QED
        BY <3>2, <3>3
    <2>4. AckPacket(expected_seq') \in ReceiverPackets
      BY <1>5, <2>3
    <2>5. to_receiver' \subseteq SenderPackets
      BY <1>23 DEF ReceiveData, Consume, TypeOK
    <2>6. to_sender' \subseteq ReceiverPackets
      BY <1>23, <2>4 DEF ReceiveData, TypeOK
    <2>7. QED
      BY <1>23, <2>3, <2>5, <2>6 DEF ReceiveData, TypeOK, send_vars, syn_vars
  <1>24. ASSUME NEW p \in to_receiver, ReceiveFin(p) PROVE TypeOK'
    <2>1. p.seq = total_packets
      <3>1. p.flags = {"FIN"} /\ p \in SenderPackets
        BY <1>24 DEF ReceiveFin, TypeOK
      <3>2. p.flags # {"DATA"}
        BY <3>1
      <3>3. QED
        BY <1>2, <3>1, <3>2, SenderPacketShape
    <2>2. to_receiver' \subseteq SenderPackets /\ to_sender' \subseteq ReceiverPackets
      BY <1>24, <1>5, <2>1 DEF ReceiveFin, Consume, TypeOK
    <2>3. QED
      BY <1>24, <2>2 DEF ReceiveFin, TypeOK, send_vars, recv_vars, syn_vars
  <1>25. ASSUME NEW p \in to_receiver, LingerReceiveFin(p) PROVE TypeOK'
    <2>1. p.seq = total_packets
      <3>1. p.flags = {"FIN"} /\ p \in SenderPackets
        BY <1>25 DEF LingerReceiveFin, TypeOK
      <3>2. p.flags # {"DATA"}
        BY <3>1
      <3>3. QED
        BY <1>2, <3>1, <3>2, SenderPacketShape
    <2>2. to_receiver' \subseteq SenderPackets /\ to_sender' \subseteq ReceiverPackets
      BY <1>25, <1>5, <2>1 DEF LingerReceiveFin, Consume, TypeOK
    <2>3. QED
      BY <1>25, <2>2 DEF LingerReceiveFin, TypeOK, send_vars, recv_vars, syn_vars
  <1>26. CASE UNCHANGED vars
    BY <1>26 DEF vars, TypeOK, send_vars, recv_vars, syn_vars
  <1>27. QED
    BY <1>7, <1>8, <1>9, <1>10, <1>11, <1>12, <1>13, <1>14, <1>15, <1>16,
       <1>17, <1>18, <1>19, <1>20, <1>21, <1>22, <1>23, <1>24, <1>25, <1>26
       DEF Next, SenderStep, ReceiverStep, NetworkStep

(* Every reachable state is well typed: no retry, attempt or timeout count   *)
(* passes its limit, only packets of this transfer are ever in flight, and   *)
(* the fast retransmit is off only once the retries were used up.            *)
THEOREM Typing == Spec => []TypeOK
  BY InitTypeOK, NextTypeOK, PTL DEF Spec

-----------------------------------------------------------------------------
(* The inductive invariant *)

(* The parts of IInv that speak of both ends and of the packets in flight.    *)
Agreement ==
  ReceiverInsideWindow /\ PacketsTruthful /\ PhasesAgree /\ SuccessMeansAccepted

(* Before the first packet the inductive invariant holds.                    *)
LEMMA InitIInv == Init => IInv
  <1> SUFFICES ASSUME Init PROVE IInv
    OBVIOUS
  <1>1. TypeOK
    BY InitTypeOK
  <1>2. raw_data \in Seq(Nat)
    BY FilesAssumption DEF Init
  <1>3. total_packets \in Nat \ {0}
    BY <1>2, TotalPackets
  <1>4. InOrderDelivery
    <2>1. FirstChunks(0) = <<>>
      <3>1. CASE 0 < Len(raw_data)
        BY <3>1, SubSeqEmpty DEF FirstChunks
      <3>2. CASE ~(0 < Len(raw_data))
        <4>1. Len(raw_data) = 0
          BY <1>2, <3>2, LenProperties
        <4>2. QED
          BY <3>2, <4>1, SubSeqEmpty DEF FirstChunks
      <3>3. QED
        BY <3>1, <3>2
    <2>2. QED
      BY <2>1 DEF Init, InOrderDelivery
  <1>5. ReceiverInsideWindow /\ PacketsTruthful /\ PhasesAgree /\ SuccessMeansAccepted
    BY <1>3, LimitsAssumption DEF Init, ReceiverInsideWindow, PacketsTruthful,
           PhasesAgree, SuccessMeansAccepted
  <1>6. FinWasSent
    BY DEF Init, FinWasSent
  <1>7. QED
    BY <1>1, <1>4, <1>5, <1>6 DEF IInv

(* What the packets in flight and the phases say stays true of every step. *)
LEMMA NextAgreement == IInv /\ [Next]_vars => Agreement'
  <1> SUFFICES ASSUME IInv, [Next]_vars PROVE Agreement'
    OBVIOUS
  <1>1. raw_data' = raw_data /\ total_packets' = total_packets
    BY DataUnchanged, PacketsUnchanged
  <1>2. raw_data \in Seq(Nat)
    BY FilesAssumption DEF IInv, TypeOK
  <1>3. total_packets \in Nat \ {0}
    BY <1>2, TotalPackets
  <1>4. TypeOK /\ TypeOK'
    BY NextTypeOK DEF IInv
  <1>5. \A i : /\ DataPacket(i).flags = {"DATA"} /\ DataPacket(i).seq = i
                /\ DataPacket(i).flags # {"FIN"}
    BY DEF DataPacket
  <1>6. FinPacket.flags = {"FIN"} /\ FinPacket.flags # {"DATA"} /\ FinPacket.seq = total_packets
    BY DEF FinPacket
  <1>7. /\ \A i : AckPacket(i).flags # {"FIN"} /\ AckPacket(i).ack = i
        /\ SynAckPacket.flags # {"FIN"} /\ SynAckPacket.ack = 0
        /\ \A i : "ACK" \notin FinAckPacket(i).flags /\ FinAckPacket(i).ack = i
    BY DEF AckPacket, SynAckPacket, FinAckPacket
  <1> USE <1>1, <1>3, LimitsAssumption DEF IInv, Agreement
  <1>8. CASE SendWindow
    <2>1. /\ to_receiver' = to_receiver \cup {DataPacket(next_seq_num)}
          /\ next_seq_num' = next_seq_num + 1 /\ next_seq_num < base + WINDOW_SIZE
          /\ UNCHANGED <<base, expected_seq, send_phase, recv_phase, to_sender>>
      BY <1>8 DEF SendWindow, InWindow, recv_vars
    <2>2. base \in Nat /\ next_seq_num \in Nat /\ expected_seq \in Nat
      BY <1>4 DEF TypeOK
    <2>3. ReceiverInsideWindow'
      BY <2>1, <2>2 DEF ReceiverInsideWindow
    <2>4. \A p \in to_receiver' : p.flags = {"DATA"} => p.seq < next_seq_num'
      <3> SUFFICES ASSUME NEW p \in to_receiver', p.flags = {"DATA"} PROVE p.seq < next_seq_num'
        OBVIOUS
      <3>1. CASE p = DataPacket(next_seq_num)
        BY <1>5, <2>1, <2>2, <3>1
      <3>2. CASE p \in to_receiver
        <4>1. p \in SenderPackets /\ p.flags # {"FIN"}
          BY <1>4, <3>2 DEF TypeOK
        <4>2. p.seq \in Nat
          BY <1>2, <4>1, SenderPacketShape
        <4>3. QED
          BY <2>1, <2>2, <3>2, <4>2 DEF PacketsTruthful
      <3>3. QED
        BY <2>1, <3>1, <3>2
    <2>5. PacketsTruthful'
      BY <1>5, <2>1, <2>4 DEF PacketsTruthful
    <2>6. PhasesAgree' /\ SuccessMeansAccepted'
      BY <2>1 DEF PhasesAgree, SuccessMeansAccepted
    <2>7. QED
      BY <2>3, <2>5, <2>6
  <1>9. CASE SenderAnswersSyn
    BY <1>9, <1>4 DEF SenderAnswersSyn, TypeOK, ReceiverInsideWindow, PacketsTruthful,
           PhasesAgree, SuccessMeansAccepted, send_vars, recv_vars, syn_vars, Listening
  <1>10. CASE RetransmitWindow
    <2>1. /\ to_receiver' = to_receiver \cup {DataPacket(i) : i \in base..(next_seq_num - 1)}
          /\ UNCHANGED <<base, next_seq_num, expected_seq, send_phase, recv_phase, to_sender>>
      BY <1>10 DEF RetransmitWindow, recv_vars
    <2>2. base \in Nat /\ next_seq_num \in Nat
      BY <1>4 DEF TypeOK
    <2>3. ASSUME NEW p \in to_receiver', p \notin to_receiver
          PROVE  p.flags = {"DATA"} /\ p.flags # {"FIN"} /\ p.seq < next_seq_num
      <3>1. PICK i \in base..(next_seq_num - 1) : p = DataPacket(i)
        BY <2>1, <2>3
      <3>2. i < next_seq_num
        BY <2>2
      <3>3. QED
        BY <1>5, <3>1, <3>2
    <2>4. PacketsTruthful'
      BY <2>1, <2>3 DEF PacketsTruthful
    <2>5. (ReceiverInsideWindow /\ PhasesAgree /\ SuccessMeansAccepted)'
      BY <2>1 DEF ReceiverInsideWindow, PhasesAgree, SuccessMeansAccepted
    <2>6. QED
      BY <2>4, <2>5
  <1>11. CASE RetransmitRaises
    BY <1>11, <1>4 DEF RetransmitRaises, TypeOK, ReceiverInsideWindow, PacketsTruthful,
           PhasesAgree, SuccessMeansAccepted, send_vars, recv_vars, syn_vars,
           TimerExpired, Listening
  <1>12. CASE SendFin
    BY <1>12, <1>4, <1>6 DEF SendFin, TypeOK, ReceiverInsideWindow, PacketsTruthful,
           PhasesAgree, SuccessMeansAccepted, send_vars, recv_vars, syn_vars
  <1>13. CASE TeardownTimeout
    BY <1>13, <1>4 DEF TeardownTimeout, TypeOK, ReceiverInsideWindow, PacketsTruthful,
           PhasesAgree, SuccessMeansAccepted, send_vars, recv_vars, syn_vars
  <1>14. CASE SenderInterrupted
    BY <1>14, <1>4 DEF SenderInterrupted, TypeOK, ReceiverInsideWindow, PacketsTruthful,
           PhasesAgree, SuccessMeansAccepted, send_vars, recv_vars, syn_vars
  <1>15. CASE LingerEnds
    BY <1>15, <1>4 DEF LingerEnds, TypeOK, ReceiverInsideWindow, PacketsTruthful,
           PhasesAgree, SuccessMeansAccepted, send_vars, recv_vars, syn_vars
  <1>16. CASE ReceiverAnswersSyn
    BY <1>16, <1>4, <1>7 DEF ReceiverAnswersSyn, TypeOK, ReceiverInsideWindow,
           PacketsTruthful, PhasesAgree, SuccessMeansAccepted, send_vars, recv_vars,
           syn_vars
  <1>17. CASE ReceiveTimeout
    BY <1>17, <1>4 DEF ReceiveTimeout, TypeOK, ReceiverInsideWindow, PacketsTruthful,
           PhasesAgree, SuccessMeansAccepted, send_vars, recv_vars, syn_vars
  <1>18. CASE ReceiverInterrupted
    BY <1>18, <1>4 DEF ReceiverInterrupted, TypeOK, ReceiverInsideWindow,
           PacketsTruthful, PhasesAgree, SuccessMeansAccepted, send_vars, recv_vars,
           syn_vars
  <1>19. CASE LoseSyn
    BY <1>19, <1>4 DEF LoseSyn, TypeOK, ReceiverInsideWindow, PacketsTruthful,
           PhasesAgree, SuccessMeansAccepted, send_vars, recv_vars, syn_vars
  <1>20. ASSUME NEW p \in to_receiver, LoseToReceiver(p)
        PROVE Agreement'
    BY <1>20, <1>4 DEF LoseToReceiver, TypeOK, ReceiverInsideWindow, PacketsTruthful,
           PhasesAgree, SuccessMeansAccepted, send_vars, recv_vars, syn_vars
  <1>21. ASSUME NEW p \in to_sender, LoseToSender(p)
        PROVE Agreement'
    BY <1>21, <1>4 DEF LoseToSender, TypeOK, ReceiverInsideWindow, PacketsTruthful,
           PhasesAgree, SuccessMeansAccepted, send_vars, recv_vars, syn_vars
  <1>22. ASSUME NEW p \in to_sender, ReceiveAck(p)
        PROVE Agreement'
    <2>1. p.ack \in Nat /\ p.ack <= expected_seq /\ to_sender' \subseteq to_sender
      <3>1. "ACK" \in p.flags /\ to_sender' \subseteq to_sender
        BY <1>22 DEF ReceiveAck, Consume
      <3>2. p \in ReceiverPackets
        BY <1>4 DEF TypeOK
      <3>3. p.ack \in Nat
        BY <1>2, <3>1, <3>2, ReceiverPacketShape
      <3>4. QED
        BY <3>1, <3>3 DEF PacketsTruthful
    <2>2. CASE NewAck(p)
      <3>1. /\ base < p.ack /\ base' = p.ack /\ to_receiver' = to_receiver
            /\ send_phase' = IF p.ack < total_packets THEN "data" ELSE "fin"
            /\ UNCHANGED <<raw_data, next_seq_num, recv_vars>>
        BY <1>22, <2>2 DEF ReceiveAck, NewAck
      <3>2. /\ base \in Nat /\ expected_seq \in 0..total_packets /\ next_seq_num \in Nat
            /\ total_packets \in Nat /\ WINDOW_SIZE \in Nat
        BY <1>4, LimitsAssumption DEF TypeOK
      <3>3. expected_seq' = expected_seq /\ recv_phase' = recv_phase
        BY <3>1 DEF recv_vars
      <3>4. ReceiverInsideWindow'
        BY <1>4, <2>1, <3>1, <3>2, <3>3 DEF ReceiverInsideWindow
      <3>5. PacketsTruthful'
        BY <1>4, <2>1, <3>1, <3>3 DEF PacketsTruthful
      <3>6. PhasesAgree'
        BY <1>4, <2>1, <3>1, <3>2, <3>3 DEF PhasesAgree
      <3>7. SuccessMeansAccepted'
        BY <3>1 DEF SuccessMeansAccepted
      <3> QED
        BY <3>4, <3>5, <3>6, <3>7
    <2>3. CASE DuplicateAck(p)
      BY <1>22, <1>4, <2>1, <2>3 DEF ReceiveAck, DuplicateAck, Listening, TypeOK,
             ReceiverInsideWindow, PacketsTruthful, PhasesAgree, SuccessMeansAccepted,
             recv_vars
    <2>4. CASE FastRetransmit(p)
      BY <1>22, <1>4, <1>5, <2>1, <2>4 DEF ReceiveAck, FastRetransmit, Listening,
             InWindow, TypeOK, ReceiverInsideWindow, PacketsTruthful, PhasesAgree,
             SuccessMeansAccepted, recv_vars
    <2>5. CASE FastRetransmitSwallowed(p)
      BY <1>22, <1>4, <2>1, <2>5 DEF ReceiveAck, FastRetransmitSwallowed, Listening,
             TypeOK, ReceiverInsideWindow, PacketsTruthful, PhasesAgree,
             SuccessMeansAccepted, recv_vars
    <2>6. QED
      BY <1>22, <2>2, <2>3, <2>4, <2>5 DEF ReceiveAck
  <1>23. ASSUME NEW p \in to_sender, ReceiveFinAck(p)
        PROVE Agreement'
    <2>1. p.flags = {"FIN"}
      BY <1>23 DEF ReceiveFinAck, FinAckPacket
    <2>2. QED
      BY <1>23, <1>4, <2>1 DEF ReceiveFinAck, Consume, TypeOK, ReceiverInsideWindow,
             PacketsTruthful, PhasesAgree, SuccessMeansAccepted, recv_vars
  <1>24. ASSUME NEW p \in to_receiver, ReceiveData(p)
        PROVE Agreement'
    <2>1. /\ expected_seq <= expected_seq' /\ expected_seq' <= next_seq_num
          /\ expected_seq' # expected_seq => expected_seq # total_packets
      <3>1. p.flags = {"DATA"} /\ p.flags # {"FIN"} /\ p \in SenderPackets
        BY <1>24, <1>4 DEF ReceiveData, TypeOK
      <3>2. p.seq \in 0..(total_packets - 1) /\ p.seq < next_seq_num
        BY <1>24, <1>2, <3>1, SenderPacketShape DEF PacketsTruthful
      <3>3. \/ p.seq = expected_seq /\ expected_seq' = expected_seq + 1
            \/ expected_seq' = expected_seq
        BY <1>24 DEF ReceiveData
      <3>4. /\ expected_seq \in 0..total_packets /\ next_seq_num \in 0..total_packets
            /\ expected_seq <= next_seq_num
        BY <1>4 DEF TypeOK, ReceiverInsideWindow
      <3>5. CASE p.seq = expected_seq /\ expected_seq' = expected_seq + 1
        <4>1. expected_seq < next_seq_num /\ expected_seq # total_packets
          BY <3>2, <3>5
        <4>2. QED
          BY <3>4, <3>5, <4>1
      <3>6. CASE expected_seq' = expected_seq
        BY <3>4, <3>6
      <3>7. QED
        BY <3>3, <3>5, <3>6
    <2>2. /\ to_receiver' \subseteq to_receiver
          /\ to_sender' = to_sender \cup {AckPacket(expected_seq')}
      BY <1>24 DEF ReceiveData, Consume
    <2>3. /\ UNCHANGED <<base, next_seq_num, send_phase, recv_phase>>
          /\ recv_phase = "recv"
      BY <1>24 DEF ReceiveData, send_vars
    <2>4. ReceiverInsideWindow'
      BY <1>4, <2>1, <2>3 DEF TypeOK, ReceiverInsideWindow
    <2>5. PacketsTruthful'
      <3>1. \A q \in to_receiver' : q.flags = {"DATA"} => q.seq < next_seq_num'
        BY <2>2, <2>3 DEF PacketsTruthful
      <3>2. \A q \in to_receiver' : q.flags = {"FIN"} => expected_seq' = total_packets'
        BY <2>1, <2>2 DEF PacketsTruthful
      <3>3. \A q \in to_sender' : "ACK" \in q.flags => q.ack <= expected_seq'
        <4> SUFFICES ASSUME NEW q \in to_sender', "ACK" \in q.flags PROVE q.ack <= expected_seq'
          OBVIOUS
        <4>1. CASE q = AckPacket(expected_seq')
          <5>1. q.ack = expected_seq'
            BY <1>7, <4>1
          <5>2. expected_seq' \in Nat
            BY <1>4 DEF TypeOK
          <5>3. QED
            BY <5>1, <5>2
        <4>2. CASE q \in to_sender
          <5>1. q.ack \in Nat /\ q.ack <= expected_seq
            BY <1>2, <1>4, <4>2, ReceiverPacketShape DEF TypeOK, PacketsTruthful
          <5>2. expected_seq \in Nat /\ expected_seq' \in Nat
            BY <1>4, <1>7 DEF TypeOK
          <5>3. QED
            BY <2>1, <5>1, <5>2
        <4>3. QED
          BY <2>2, <4>1, <4>2
      <3>4. \A q \in to_sender' : q.flags = {"FIN"} =>
              recv_phase' \in {"linger", "done", "interrupted"}
        BY <1>7, <2>2, <2>3 DEF PacketsTruthful
      <3>5. QED
        BY <3>1, <3>2, <3>3, <3>4 DEF PacketsTruthful
    <2>6. PhasesAgree' /\ SuccessMeansAccepted'
      BY <2>3 DEF PhasesAgree, SuccessMeansAccepted
    <2>7. QED
      BY <2>4, <2>5, <2>6
  <1>25. ASSUME NEW p \in to_receiver, ReceiveFin(p)
        PROVE Agreement'
    <2>1. to_receiver' \subseteq to_receiver
      BY <1>25 DEF ReceiveFin, Consume
    <2>2. expected_seq = total_packets
      BY <1>25 DEF ReceiveFin, PacketsTruthful
    <2>3. p.seq = expected_seq
      <3>1. p.flags = {"FIN"} /\ p.flags # {"DATA"} /\ p \in SenderPackets
        BY <1>25, <1>4 DEF ReceiveFin, TypeOK
      <3>2. QED
        BY <1>2, <2>2, <3>1, SenderPacketShape
    <2>4. to_sender' = to_sender \cup {FinAckPacket(p.seq)}
      BY <1>25, <2>3 DEF ReceiveFin
    <2>5. QED
      BY <1>25, <1>4, <1>7, <2>1, <2>2, <2>3, <2>4 DEF ReceiveFin, TypeOK,
             ReceiverInsideWindow, PacketsTruthful, PhasesAgree, SuccessMeansAccepted,
             send_vars, recv_vars
  <1>26. ASSUME NEW p \in to_receiver, LingerReceiveFin(p)
        PROVE Agreement'
    <2>1. to_receiver' \subseteq to_receiver
      BY <1>26 DEF LingerReceiveFin, Consume
    <2>2. expected_seq = total_packets
      BY <1>26 DEF LingerReceiveFin, PacketsTruthful
    <2>3. p.seq = expected_seq
      <3>1. p.flags = {"FIN"} /\ p.flags # {"DATA"} /\ p \in SenderPackets
        BY <1>26, <1>4 DEF LingerReceiveFin, TypeOK
      <3>2. QED
        BY <1>2, <2>2, <3>1, SenderPacketShape
    <2>4. to_sender' = to_sender \cup {FinAckPacket(p.seq)}
      BY <1>26, <2>3 DEF LingerReceiveFin
    <2>5. QED
      BY <1>26, <1>4, <1>7, <2>1, <2>2, <2>3, <2>4 DEF LingerReceiveFin, TypeOK,
             ReceiverInsideWindow, PacketsTruthful, PhasesAgree, SuccessMeansAccepted,
             send_vars, recv_vars
  <1>27. CASE UNCHANGED vars
    BY <1>27 DEF vars, ReceiverInsideWindow, PacketsTruthful, PhasesAgree,
           SuccessMeansAccepted, send_vars, recv_vars, syn_vars
  <1>28. QED
    BY <1>8, <1>9, <1>10, <1>11, <1>12, <1>13, <1>14, <1>15, <1>16, <1>17,
       <1>18, <1>19, <1>20, <1>21, <1>22, <1>23, <1>24, <1>25, <1>26, <1>27
       DEF Next, SenderStep, ReceiverStep, NetworkStep

(* Only an accepted DATA packet changes the data accepted so far. *)
LEMMA AcceptedDataStep ==
  ASSUME [Next]_vars
  PROVE  \/ UNCHANGED <<expected_seq, received_data>>
         \/ \E p \in to_receiver : /\ ReceiveData(p) /\ p.seq = expected_seq
                                   /\ received_data' = received_data \o p.payload
                                   /\ expected_seq' = expected_seq + 1
  <1>1. CASE \E p \in to_receiver : ReceiveData(p)
    <2>1. PICK p \in to_receiver : ReceiveData(p)
      BY <1>1
    <2>2. \/ UNCHANGED <<expected_seq, received_data>>
          \/ /\ p.seq = expected_seq /\ received_data' = received_data \o p.payload
             /\ expected_seq' = expected_seq + 1
      BY <2>1 DEF ReceiveData
    <2>3. QED
      BY <2>1, <2>2
  <1>2. CASE ~ \E p \in to_receiver : ReceiveData(p)
    <2>1. UNCHANGED <<expected_seq, received_data>>
      BY <1>2 DEF Next, vars, SenderStep, ReceiverStep, NetworkStep, recv_vars,
             SendWindow, SenderAnswersSyn, RetransmitWindow, RetransmitRaises, SendFin,
             TeardownTimeout, SenderInterrupted, LingerEnds, ReceiverAnswersSyn,
             ReceiveTimeout, ReceiverInterrupted, LoseToReceiver, LoseToSender, LoseSyn,
             ReceiveAck, ReceiveFinAck, ReceiveFin, LingerReceiveFin
    <2>2. QED
      BY <2>1
  <1>3. QED
    BY <1>1, <1>2

(* What is accepted stays a prefix of the data: reliable_recv appends only   *)
(* the chunk it expects.                                                     *)
LEMMA NextInOrderDelivery == IInv /\ [Next]_vars => InOrderDelivery'
  <1> SUFFICES ASSUME IInv, [Next]_vars PROVE InOrderDelivery'
    OBVIOUS
  <1>1. raw_data' = raw_data
    BY DataUnchanged
  <1>2. raw_data \in Seq(Nat) /\ TypeOK /\ InOrderDelivery
    BY FilesAssumption DEF IInv, TypeOK
  <1>3. FirstChunks(expected_seq)' = FirstChunks(expected_seq')
    BY <1>1 DEF FirstChunks
  <1>4. CASE UNCHANGED <<expected_seq, received_data>>
    BY <1>2, <1>3, <1>4 DEF InOrderDelivery
  <1>5. ASSUME NEW p \in to_receiver, ReceiveData(p), p.seq = expected_seq,
               received_data' = received_data \o p.payload,
               expected_seq' = expected_seq + 1
        PROVE  InOrderDelivery'
    <2>1. p.payload = Payload(expected_seq)
      <3>1. p.flags = {"DATA"} /\ p.flags # {"FIN"} /\ p \in SenderPackets
        BY <1>2, <1>5 DEF ReceiveData, TypeOK
      <3>2. QED
        BY <1>2, <1>5, <3>1, SenderPacketShape
    <2>2. expected_seq \in Nat
      BY <1>2, TotalPackets DEF TypeOK
    <2>3. FirstChunks(expected_seq) \o Payload(expected_seq) = FirstChunks(expected_seq + 1)
      BY <1>2, <2>2, NextChunk
    <2>4. received_data' = FirstChunks(expected_seq')
      BY <1>2, <1>5, <2>1, <2>3, Zenon DEF InOrderDelivery
    <2>5. QED
      BY <1>3, <2>4, Zenon DEF InOrderDelivery
  <1>6. QED
    BY <1>4, <1>5, AcceptedDataStep

(* A FIN in flight, or an accepted one, is the FIN of a sender that has left *)
(* its DATA loop with everything acknowledged.                               *)
LEMMA NextFinWasSent == IInv /\ [Next]_vars => FinWasSent'
  <1> SUFFICES ASSUME IInv, [Next]_vars PROVE FinWasSent'
    OBVIOUS
  <1>1. TypeOK /\ TypeOK' /\ FinWasSent
    BY NextTypeOK DEF IInv
  <1>2. fin_attempts \in Nat /\ fin_attempts' \in Nat
    BY <1>1, LimitsAssumption DEF TypeOK
  <1>3. fin_attempts' >= fin_attempts
    BY <1>2 DEF Next, vars, SenderStep, ReceiverStep, NetworkStep, send_vars,
       SendWindow, ReceiveAck, SenderAnswersSyn, RetransmitWindow, RetransmitRaises,
       SendFin, ReceiveFinAck, TeardownTimeout, SenderInterrupted, ReceiveData,
       ReceiveFin, LingerReceiveFin, LingerEnds, ReceiverAnswersSyn, ReceiveTimeout,
       ReceiverInterrupted, LoseToReceiver, LoseToSender, LoseSyn
  <1>4. fin_attempts' > 0 => send_phase' \notin {"data", "data_timeout"}
    <2>1. CASE send_phase \in {"data", "data_timeout"}
      <3>1. fin_attempts' = 0
        BY <1>1, <1>2, <2>1 DEF FinWasSent, Next, vars, SenderStep, ReceiverStep, NetworkStep,
           send_vars, SendWindow, ReceiveAck, SenderAnswersSyn, RetransmitWindow,
           RetransmitRaises, SendFin, ReceiveFinAck, TeardownTimeout, SenderInterrupted,
           ReceiveData, ReceiveFin, LingerReceiveFin, LingerEnds, ReceiverAnswersSyn,
           ReceiveTimeout, ReceiverInterrupted, LoseToReceiver, LoseToSender, LoseSyn
      <3>2. QED
        BY <3>1
    <2>2. CASE send_phase \notin {"data", "data_timeout"}
      BY <2>2 DEF Next, vars, SenderStep, ReceiverStep, NetworkStep, send_vars,
         SendWindow, ReceiveAck, SenderAnswersSyn, RetransmitWindow, RetransmitRaises,
         TimerExpired, Listening, SendFin, ReceiveFinAck, TeardownTimeout, SenderInterrupted,
         ReceiveData, ReceiveFin, LingerReceiveFin, LingerEnds, ReceiverAnswersSyn,
         ReceiveTimeout, ReceiverInterrupted, LoseToReceiver, LoseToSender, LoseSyn
    <2>3. QED
      BY <2>1, <2>2
  <1>5. ASSUME NEW p \in to_receiver', p.flags = {"FIN"} PROVE fin_attempts' > 0
    <2>1. \A i : DataPacket(i).flags # {"FIN"}
      BY DEF DataPacket
    <2>2. CASE p \in to_receiver
      BY <1>1, <1>2, <1>3, <1>5, <2>2 DEF FinWasSent
    <2>3. CASE p \notin to_receiver
      <3>1. SendFin
        BY <1>5, <2>1, <2>3 DEF Next, vars, SenderStep, ReceiverStep, NetworkStep,
           SendWindow, ReceiveAck, NewAck, DuplicateAck, FastRetransmit,
           FastRetransmitSwallowed, SenderAnswersSyn, RetransmitWindow, RetransmitRaises,
           ReceiveFinAck, TeardownTimeout, SenderInterrupted, ReceiveData,
           ReceiveFin, LingerReceiveFin, LingerEnds, ReceiverAnswersSyn, ReceiveTimeout,
           ReceiverInterrupted, LoseToReceiver, LoseToSender, LoseSyn, Consume
      <3>2. QED
        BY <1>2, <3>1 DEF SendFin
    <2>4. QED
      BY <2>2, <2>3
  <1>6. recv_phase' \in {"linger", "done"} => fin_attempts' > 0
    <2>1. CASE recv_phase \in {"linger", "done"}
      BY <1>1, <1>2, <1>3, <2>1 DEF FinWasSent
    <2>2. CASE recv_phase \notin {"linger", "done"} /\ recv_phase' \in {"linger", "done"}
      <3>1. PICK p \in to_receiver : ReceiveFin(p)
        BY <2>2 DEF Next, vars, SenderStep, ReceiverStep, NetworkStep, recv_vars,
           SendWindow, ReceiveAck, SenderAnswersSyn, RetransmitWindow, RetransmitRaises,
           SendFin, ReceiveFinAck, TeardownTimeout, SenderInterrupted, ReceiveData,
           LingerReceiveFin, LingerEnds, ReceiverAnswersSyn, ReceiveTimeout,
           ReceiverInterrupted, LoseToReceiver, LoseToSender, LoseSyn
      <3>2. QED
        BY <1>1, <1>2, <1>3, <3>1 DEF ReceiveFin, FinWasSent
    <2>3. QED
      BY <2>1, <2>2
  <1>7. QED
    BY <1>4, <1>5, <1>6 DEF FinWasSent

(* The inductive invariant holds in every reachable state: the two ends and  *)
(* the packets between them always agree.                                    *)
THEOREM Inductive == Spec => []IInv
  <1>1. IInv /\ [Next]_vars => IInv'
    BY NextTypeOK, NextInOrderDelivery, NextAgreement, NextFinWasSent DEF IInv, Agreement
  <1>2. QED
    BY InitIInv, <1>1, PTL DEF Spec

-----------------------------------------------------------------------------
(* The data accepted is always exactly a prefix of the data sent.            *)
THEOREM Delivery == Spec => []InOrderDelivery
  <1>1. IInv => InOrderDelivery
    BY DEF IInv
  <1>2. QED
    BY <1>1, Inductive, PTL

(* The receiver never leaves the sender's window.                            *)
THEOREM InsideWindow == Spec => []ReceiverInsideWindow
  <1>1. IInv => ReceiverInsideWindow
    BY DEF IInv
  <1>2. QED
    BY <1>1, Inductive, PTL

(* The FIN handshake of reliable_send starts only with all data accepted.    *)
LEMMA CompleteAtFin == IInv => FinMeansComplete
  <1> SUFFICES ASSUME IInv,
                      \/ send_phase \in {"fin", "finished", "teardown_timeout"}
                      \/ recv_phase \in {"linger", "done"}
                      \/ FinPacket \in to_receiver
               PROVE  received_data = raw_data
    BY DEF FinMeansComplete
  <1>1. raw_data \in Seq(Nat) /\ TypeOK /\ InOrderDelivery
    BY FilesAssumption DEF IInv, TypeOK
  <1>2. total_packets \in Nat
    BY <1>1, TotalPackets
  <1>3. expected_seq = total_packets
    <2>1. CASE send_phase \in {"fin", "finished", "teardown_timeout"}
      BY <1>1, <1>2, <2>1 DEF IInv, PhasesAgree, ReceiverInsideWindow, TypeOK
    <2>2. CASE recv_phase \in {"linger", "done"}
      BY <2>2 DEF IInv, PhasesAgree
    <2>3. CASE FinPacket \in to_receiver
      BY <2>3 DEF IInv, PacketsTruthful, FinPacket
    <2>4. QED
      BY <2>1, <2>2, <2>3
  <1>4. QED
    BY <1>1, <1>3, AllChunks DEF InOrderDelivery

(* A FIN in flight, a sender past its DATA phase or a receiver past its loop *)
(* all mean that every byte has been accepted.                               *)
THEOREM FinComplete == Spec => []FinMeansComplete
  BY Inductive, CompleteAtFin, PTL

(* Whatever is under way, however old, says nothing untrue about either end. *)
THEOREM TruthInFlight == Spec => []PacketsTruthful
  <1>1. IInv => PacketsTruthful
    BY DEF IInv
  <1>2. QED
    BY <1>1, Inductive, PTL

(* A sender that reports success is matched by a receiver that accepted.     *)
THEOREM SuccessIsTrue == Spec => []SuccessMeansAccepted
  <1>1. IInv => SuccessMeansAccepted
    BY DEF IInv
  <1>2. QED
    BY <1>1, Inductive, PTL

(* RDTDataTimeout of the sender and success of the receiver exclude each     *)
(* other, in whatever order and however late the two calls end.              *)
THEOREM NoAcceptanceAfterGivingUp == Spec => []GivingUpIsNeverAccepted
  <1>1. IInv => GivingUpIsNeverAccepted
    BY DEF IInv, FinWasSent, GivingUpIsNeverAccepted
  <1>2. QED
    BY <1>1, Inductive, PTL

-----------------------------------------------------------------------------
(* Refinement *)

(* Both calls begin open, with nothing accepted.                             *)
LEMMA InitRefines == Init => RT!Init
  BY DEF Init, RT!Init, SenderOutcome, ReceiverOutcome

(* An accepted DATA packet is a delivery, or the empty packet of an empty file. *)
LEMMA DeliverRefines ==
  ASSUME IInv, [Next]_vars, NEW p \in to_receiver, ReceiveData(p)
  PROVE  [RT!Next]_RT!vars
  <1>1. raw_data' = raw_data /\ raw_data \in Seq(Nat) /\ TypeOK /\ InOrderDelivery
    BY DataUnchanged, FilesAssumption DEF IInv, TypeOK
  <1>2. UNCHANGED <<SenderOutcome, ReceiverOutcome>>
    BY DEF ReceiveData, send_vars, SenderOutcome, ReceiverOutcome
  <1>3. CASE UNCHANGED <<expected_seq, received_data>>
    BY <1>1, <1>2, <1>3 DEF RT!vars
  <1>4. CASE p.seq = expected_seq /\ received_data' = received_data \o p.payload
    <2>1. p.payload = Payload(expected_seq) /\ expected_seq \in Nat
      <3>1. p.flags = {"DATA"} /\ p.flags # {"FIN"} /\ p \in SenderPackets
        BY <1>1 DEF ReceiveData, TypeOK
      <3>2. p.payload = Payload(p.seq) /\ p.seq \in 0..(total_packets - 1)
        BY <1>1, <3>1, SenderPacketShape
      <3>3. p.seq \in Nat
        BY <1>1, <3>2, TotalPackets
      <3>4. QED
        BY <1>4, <3>2, <3>3
    <2>2. Len(raw_data) \in Nat
      BY <1>1, LenProperties
    <2>3. CASE expected_seq < Len(raw_data)
      <3>1. received_data = SubSeq(raw_data, 1, expected_seq)
        BY <1>1, <2>3 DEF InOrderDelivery, FirstChunks
      <3>2. Len(received_data) = expected_seq
        <4>1. \A i \in 1..expected_seq : raw_data[i] \in Nat
          BY <1>1, <2>1, <2>2, <2>3, ElementOfSeq
        <4>2. Len(SubSeq(raw_data, 1, expected_seq)) =
                IF 1 <= expected_seq THEN expected_seq - 1 + 1 ELSE 0
          BY <2>1, <4>1, SubSeqProperties
        <4>3. QED
          BY <2>1, <3>1, <4>2
      <3>3. received_data' = Append(received_data, raw_data[Len(received_data) + 1])
        <4>1. received_data' = received_data \o <<raw_data[expected_seq + 1]>>
          BY <1>4, <2>1, <2>3 DEF Payload
        <4>2. raw_data[expected_seq + 1] \in Nat
          <5>1. expected_seq + 1 \in 1..Len(raw_data)
            BY <2>1, <2>2, <2>3
          <5>2. QED
            BY <1>1, <5>1, ElementOfSeq
        <4>3. received_data \o <<raw_data[expected_seq + 1]>> =
                Append(received_data, raw_data[expected_seq + 1])
          BY <1>1, <4>2, AppendIsConcat DEF TypeOK
        <4>4. QED
          BY <3>2, <4>1, <4>3
      <3>4. ReceiverOutcome = "open" /\ SenderOutcome # "ok"
        BY DEF ReceiveData, IInv, SuccessMeansAccepted, SenderOutcome, ReceiverOutcome
      <3>5. RT!Deliver
        BY <1>1, <1>2, <2>3, <3>2, <3>3, <3>4 DEF RT!Deliver
      <3>6. QED
        BY <3>5 DEF RT!Next
    <2>4. CASE ~(expected_seq < Len(raw_data))
      <3>1. p.payload = <<>>
        BY <2>1, <2>4 DEF Payload
      <3>2. received_data' = received_data
        BY <1>1, <1>4, <3>1, ConcatEmptySeq DEF TypeOK
      <3>3. QED
        BY <1>1, <1>2, <3>2 DEF RT!vars
    <2>5. QED
      BY <2>3, <2>4
  <1>5. QED
    BY <1>3, <1>4 DEF ReceiveData

(* Every other step changes at most one side's outcome. *)
LEMMA StepRefines == IInv /\ [Next]_vars => [RT!Next]_RT!vars
  <1> SUFFICES ASSUME IInv, [Next]_vars PROVE [RT!Next]_RT!vars
    OBVIOUS
  <1>1. raw_data' = raw_data
    BY DataUnchanged
  <1>2. CASE SendWindow \/ SenderAnswersSyn \/ RetransmitWindow \/ SendFin
             \/ ReceiverAnswersSyn \/ LoseSyn
    BY <1>1, <1>2 DEF RT!vars, SenderOutcome, ReceiverOutcome, SendWindow,
           SenderAnswersSyn, RetransmitWindow, SendFin, ReceiverAnswersSyn, LoseSyn,
           send_vars, recv_vars
  <1>3. CASE RetransmitRaises \/ TeardownTimeout \/ SenderInterrupted
    <2>1. RT!SenderRaises
      BY <1>1, <1>3 DEF RT!SenderRaises, SenderOutcome, ReceiverOutcome, RetransmitRaises,
         TimerExpired, Listening, TeardownTimeout, SenderInterrupted, recv_vars
    <2>2. QED
      BY <2>1 DEF RT!Next
  <1>4. CASE ReceiveTimeout \/ ReceiverInterrupted
    <2>1. RT!ReceiverRaises \/ UNCHANGED RT!vars
      BY <1>1, <1>4 DEF RT!ReceiverRaises, RT!vars, SenderOutcome, ReceiverOutcome,
             ReceiveTimeout, ReceiverInterrupted, send_vars
    <2>2. QED
      BY <2>1 DEF RT!Next
  <1>5. CASE LingerEnds
    <2>1. received_data = raw_data
      BY <1>5, CompleteAtFin DEF LingerEnds, FinMeansComplete
    <2>2. RT!ReceiverReturns
      BY <1>1, <1>5, <2>1 DEF RT!ReceiverReturns, RT!Complete, SenderOutcome,
             ReceiverOutcome, LingerEnds, send_vars
    <2>3. QED
      BY <2>2 DEF RT!Next
  <1>6. ASSUME NEW p \in to_sender, ReceiveAck(p) PROVE [RT!Next]_RT!vars
    <2>1. UNCHANGED <<received_data, ReceiverOutcome>> /\ send_phase = "data"
      BY <1>6 DEF ReceiveAck, Listening, recv_vars, ReceiverOutcome
    <2>2. send_phase' \in {"data", "fin"}
      BY <1>6, <2>1 DEF ReceiveAck, NewAck, DuplicateAck, FastRetransmit,
             FastRetransmitSwallowed
    <2>3. QED
      BY <1>1, <2>1, <2>2 DEF RT!vars, SenderOutcome
  <1>7. ASSUME NEW p \in to_sender, ReceiveFinAck(p) PROVE [RT!Next]_RT!vars
    <2>1. received_data = raw_data
      BY <1>7, CompleteAtFin DEF ReceiveFinAck, FinMeansComplete
    <2>2. RT!SenderReturns
      BY <1>1, <1>7, <2>1 DEF RT!SenderReturns, RT!Complete, SenderOutcome, ReceiverOutcome,
         ReceiveFinAck, recv_vars
    <2>3. QED
      BY <2>2 DEF RT!Next
  <1>8. ASSUME NEW p \in to_receiver, ReceiveData(p) PROVE [RT!Next]_RT!vars
    BY <1>8, DeliverRefines
  <1>9. ASSUME NEW p \in to_receiver, ReceiveFin(p) \/ LingerReceiveFin(p) \/ LoseToReceiver(p)
        PROVE  [RT!Next]_RT!vars
    BY <1>1, <1>9 DEF RT!vars, SenderOutcome, ReceiverOutcome, ReceiveFin,
           LingerReceiveFin, LoseToReceiver, send_vars, recv_vars
  <1>10. ASSUME NEW p \in to_sender, LoseToSender(p) PROVE [RT!Next]_RT!vars
    BY <1>1, <1>10 DEF RT!vars, SenderOutcome, ReceiverOutcome, LoseToSender, send_vars,
           recv_vars
  <1>11. CASE UNCHANGED vars
    BY <1>11 DEF vars, RT!vars, SenderOutcome, ReceiverOutcome, send_vars, recv_vars
  <1>12. QED
    BY <1>2, <1>3, <1>4, <1>5, <1>6, <1>7, <1>8, <1>9, <1>10, <1>11
       DEF Next, SenderStep, ReceiverStep, NetworkStep

(* Go-Back-N over a lossy network implements the transfer it promises.       *)
THEOREM Refinement == Spec => ImplementsReliableTransfer
  BY InitRefines, StepRefines, Inductive, PTL DEF Spec, ImplementsReliableTransfer, RT!Spec
=============================================================================

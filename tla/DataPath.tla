------------------------------- MODULE DataPath -------------------------------
(***************************************************************************)
(* What becomes of the bytes of a file: TYPE and MODE at the sender        *)
(* (transfer_codec.py of the server, data_transfer_service.py of the       *)
(* client, block_mode.py), packets with a checksum (packet_struct.py,      *)
(* checksum.py) that the network may damage, and back at the receiver.     *)
(* Bytes are numbers below 256.  RDT sees that a packet that is not        *)
(* accepted is sent again.                                                 *)
(***************************************************************************)
EXTENDS Naturals, Integers, Sequences, SequencesExt

CONSTANTS
  Lines,                  \* contents of lines
  MaxLines,               \* bound: lines of a file
  MAX_PAYLOAD, BLOCK_MAX_PAYLOAD,
  BitsFlipped             \* the bits of a byte, by their weight, that the network may flip

FLAG_DATA == 8
HEADER_SIZE == 13
BLOCK_DESCRIPTOR_EOF == 64
BLOCK_DESCRIPTOR_EOR == 128

ASSUME PathAssumption ==
  /\ Lines \subseteq Seq(0..255) /\ MaxLines \in Nat \ {0}
  /\ \A line \in Lines : \A i \in 1..Len(line) : line[i] \notin {10, 13}
  /\ MAX_PAYLOAD \in Nat \ {0}
  /\ BLOCK_MAX_PAYLOAD \in Nat \ {0} /\ BLOCK_MAX_PAYLOAD <= 65535
  /\ BitsFlipped \subseteq {1, 2, 4, 8, 16, 32, 64, 128}

Types == {"A", "I"}
Modes == {"S", "B", "C"}
Invalid == <<-1>>         \* an exception of a decoder

VARIABLES
  lines, breaks,          \* the file: its lines, and the line breaks between them
  transfer_type, transfer_mode,
  linesep,                \* os.linesep of the receiver
  stage,                  \* "idle", "encode", "send", "done" or "refused"
  wire,                   \* the encoded file
  arrived,                \* payloads accepted by the receiver
  unpacked,               \* the last packet it accepted
  result                  \* the file it writes

path_vars == <<lines, breaks, transfer_type, transfer_mode, linesep, stage, wire,
               arrived, unpacked, result>>

Breaks == {<<13>>, <<10>>, <<13, 10>>}
NothingYet == [seq |-> <<>>, ack |-> <<>>, flags |-> 0, payload |-> <<>>]

(* The lines with breaks between them; CR, an empty line and LF would be one *)
(* break.                                                                    *)
Joined(ls, between) ==
  FlattenSeq([k \in 1..Len(ls) |-> ls[k] \o (IF k < Len(ls) THEN between[k] ELSE <<>>)])
file == Joined(lines, breaks)

PathInit ==
  /\ \E n \in 1..MaxLines :
       /\ lines \in [1..n -> Lines] /\ breaks \in [1..(n - 1) -> Breaks]
       /\ \A k \in 1..(n - 2) :
            ~(breaks[k] = <<13>> /\ lines[k + 1] = <<>> /\ breaks[k + 1][1] = 10)
  /\ transfer_type \in Types /\ transfer_mode \in Modes
  /\ linesep \in {<<10>>, <<13, 10>>}
  /\ stage = "encode"
  /\ wire = <<>> /\ arrived = <<>> /\ unpacked = NothingYet /\ result = <<>>

-----------------------------------------------------------------------------
(* TYPE *)

IsText(data) == \A i \in 1..Len(data) : data[i] < 128    \* UTF-8, of one byte each

(* replace CRLF by LF, then CR by LF: the LF of a CRLF goes, a CR becomes LF.*)
Normalized(data) ==
  FlattenSeq([i \in 1..Len(data) |->
    IF data[i] = 10 /\ i > 1 /\ data[i - 1] = 13 THEN <<>>
    ELSE IF data[i] = 13 THEN <<10>> ELSE <<data[i]>>])

WithBreaks(data, break) ==
  FlattenSeq([i \in 1..Len(data) |-> IF data[i] = 10 THEN break ELSE <<data[i]>>])

OutgoingType(data, type) ==
  IF type = "I" THEN data
  ELSE IF IsText(data) THEN WithBreaks(Normalized(data), <<13, 10>>) ELSE Invalid

IncomingType(data, type) ==
  IF type = "I" THEN data
  ELSE IF IsText(data) THEN WithBreaks(Normalized(data), linesep) ELSE Invalid

-----------------------------------------------------------------------------
(* MODE *)

UpperBound(n, size) == (n + size - 1) \div size
Chunk(data, size, k) ==
  SubSeq(data, (k - 1) * size + 1, IF k * size < Len(data) THEN k * size ELSE Len(data))

BlockHeader(descriptor, count) == <<descriptor, count \div 256, count % 256>>

(* Mutant of EncodeBlocks: only a block that is not full ends the file.      *)
EncodeBlocksShort(data) ==
  LET blocks == Len(data) \div BLOCK_MAX_PAYLOAD + 1 IN
  FlattenSeq([k \in 1..blocks |->
    LET block == Chunk(data, BLOCK_MAX_PAYLOAD, k) IN
    BlockHeader(IF Len(block) < BLOCK_MAX_PAYLOAD /\ block # <<>> THEN BLOCK_DESCRIPTOR_EOF ELSE 0,
                Len(block)) \o block])

EncodeBlocks(data) ==
  IF data = <<>> THEN BlockHeader(BLOCK_DESCRIPTOR_EOF, 0)
  ELSE LET blocks == UpperBound(Len(data), BLOCK_MAX_PAYLOAD) IN
       FlattenSeq([k \in 1..blocks |->
         LET block == Chunk(data, BLOCK_MAX_PAYLOAD, k) IN
         BlockHeader(IF k = blocks THEN BLOCK_DESCRIPTOR_EOF ELSE 0, Len(block)) \o block])

(* The loop of decode_blocks from each offset.                               *)
DecodeBlocks(framed) ==
  LET n == Len(framed)
      from[offset \in 0..n] ==
        IF n - offset < 3 THEN Invalid          \* the end without EOF, or inside a header
        ELSE LET descriptor == framed[offset + 1]
                 length == framed[offset + 2] * 256 + framed[offset + 3]
                 end == offset + 3 + length
                 block == SubSeq(framed, offset + 4, end)
                 ending == {BLOCK_DESCRIPTOR_EOF, BLOCK_DESCRIPTOR_EOF + BLOCK_DESCRIPTOR_EOR}
             IN IF descriptor \notin {0} \cup ending \cup {BLOCK_DESCRIPTOR_EOR} \/ end > n
                  THEN Invalid
                ELSE IF descriptor \in ending
                  THEN IF end = n THEN block ELSE Invalid
                ELSE IF from[end] = Invalid THEN Invalid ELSE block \o from[end]
  IN from[0]

(* zlib: all that matters is that it can be undone and is recognised.        *)
Compress(data) == <<120>> \o data
Decompress(data) == IF data # <<>> /\ data[1] = 120 THEN Tail(data) ELSE Invalid

OutgoingMode(data, mode) ==
  CASE mode = "S" -> data [] mode = "B" -> EncodeBlocks(data) [] mode = "C" -> Compress(data)
IncomingMode(data, mode) ==
  CASE mode = "S" -> data [] mode = "B" -> DecodeBlocks(data) [] mode = "C" -> Decompress(data)

(* A file that is not text cannot be sent with TYPE A: 150 is never sent.    *)
Encode ==
  LET data == OutgoingType(file, transfer_type) IN
  /\ stage = "encode"
  /\ IF data = Invalid
       THEN stage' = "refused" /\ UNCHANGED wire
       ELSE stage' = "send" /\ wire' = OutgoingMode(data, transfer_mode)
  /\ UNCHANGED <<lines, breaks, transfer_type, transfer_mode, linesep, arrived, unpacked, result>>

-----------------------------------------------------------------------------
(* Packets *)

(* Mutant of Words: the last byte of an odd number of bytes is left out.     *)
WordsOfPairs(bytes) ==
  [i \in 1..(Len(bytes) \div 2) |-> bytes[2 * i - 1] * 256 + bytes[2 * i]]

(* The 16-bit words, a zero byte added if need be.                           *)
Words(bytes) ==
  [i \in 1..((Len(bytes) + 1) \div 2) |->
     bytes[2 * i - 1] * 256 + (IF 2 * i <= Len(bytes) THEN bytes[2 * i] ELSE 0)]

(* The sum with the carry added at its low end, and its complement.          *)
EndAroundSum(a, b) == IF a + b >= 65536 THEN a + b - 65535 ELSE a + b
OnesSum(words) ==
  LET sum[i \in 0..Len(words)] == IF i = 0 THEN 0 ELSE EndAroundSum(sum[i - 1], words[i])
  IN sum[Len(words)]
compute_checksum(bytes) == 65535 - OnesSum(Words(bytes))
verify_checksum(bytes) == compute_checksum(bytes) = 0

FourBytes(n) == <<0, 0, n \div 256, n % 256>>         \* of a number below 2^16
TwoBytes(n) == <<n \div 256, n % 256>>
Header(seq, ack, checksum, length, flags) ==
  FourBytes(seq) \o FourBytes(ack) \o TwoBytes(checksum) \o TwoBytes(length) \o <<flags>>
pack_packet(seq, ack, flags, data) ==
  Header(seq, ack, compute_checksum(Header(seq, ack, 0, Len(data), flags) \o data),
         Len(data), flags) \o data

CanUnpack(bytes) ==
  Len(bytes) >= HEADER_SIZE /\ bytes[11] * 256 + bytes[12] = Len(bytes) - HEADER_SIZE
unpack_packet(bytes) ==
  [seq |-> SubSeq(bytes, 1, 4), ack |-> SubSeq(bytes, 5, 8), flags |-> bytes[13],
   payload |-> SubSeq(bytes, 14, Len(bytes))]

TotalPackets == IF wire = <<>> THEN 1 ELSE UpperBound(Len(wire), MAX_PAYLOAD)
PacketPayload(k) == Chunk(wire, MAX_PAYLOAD, k)

(* What may come of a packet: itself, one bit of it flipped, or its front.   *)
FlipBit(byte, bit) == IF (byte \div bit) % 2 = 0 THEN byte + bit ELSE byte - bit
Damaged(bytes) ==
  {[bytes EXCEPT ![i] = FlipBit(@, bit)] : i \in 1..Len(bytes), bit \in BitsFlipped}
    \cup {SubSeq(bytes, 1, n) : n \in 0..(Len(bytes) - 1)}

(* The receiver takes the next packet if it passes the checks of reliable_   *)
(* recv; if not, the sender will send it again.                              *)
Transmit ==
  LET k == Len(arrived) + 1
      packet == pack_packet(k - 1, 0, FLAG_DATA, PacketPayload(k))
  IN /\ stage = "send" /\ k <= TotalPackets
     /\ \E bytes \in {packet} \cup Damaged(packet) :
          /\ verify_checksum(bytes) /\ CanUnpack(bytes)
          /\ unpacked' = unpack_packet(bytes)
          /\ arrived' = Append(arrived, unpack_packet(bytes).payload)
     /\ UNCHANGED <<lines, breaks, transfer_type, transfer_mode, linesep, stage, wire, result>>

Decode ==
  LET data == IncomingMode(FlattenSeq(arrived), transfer_mode) IN
  /\ stage = "send" /\ Len(arrived) = TotalPackets
  /\ stage' = "done"
  /\ result' = IF data = Invalid THEN Invalid ELSE IncomingType(data, transfer_type)
  /\ UNCHANGED <<lines, breaks, transfer_type, transfer_mode, linesep, wire, arrived, unpacked>>

PathNext == Encode \/ Transmit \/ Decode

PathSpec == PathInit /\ [][PathNext]_path_vars

-----------------------------------------------------------------------------
(* Properties *)

(* A packet with a flipped bit or without its end is never taken: what the   *)
(* receiver unpacks is what the sender packed, header and payload.  The      *)
(* header has an odd number of bytes, so that each payload byte changes its  *)
(* half of a word with the length.                                           *)
DamageDetected ==
  unpacked = NothingYet \/
    LET k == Len(arrived) IN
    unpacked = [seq |-> FourBytes(k - 1), ack |-> FourBytes(0), flags |-> FLAG_DATA,
                payload |-> PacketPayload(k)]

(* TYPE I brings the same bytes in every MODE, TYPE A the same lines with    *)
(* the line breaks of the receiver, whatever mixture the file has; also when *)
(* the file is empty, ends in a break, or fills its last block or packet.  A *)
(* MODE B stream that is cut short is not taken for a file.                  *)
FileArrives ==
  /\ stage = "done" =>
       result = IF transfer_type = "I" THEN file
                ELSE Joined(lines, [k \in 1..Len(breaks) |-> linesep])
  /\ stage = "send" /\ transfer_mode = "B" =>
       \A n \in 0..(Len(wire) - 1) : DecodeBlocks(SubSeq(wire, 1, n)) = Invalid
  /\ stage = "refused" => transfer_type = "A" /\ ~IsText(file)
=============================================================================

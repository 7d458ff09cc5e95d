---------------------------- MODULE FramingProofs ----------------------------
(***************************************************************************)
(* Proofs about Framing for streams of any length.                         *)
(***************************************************************************)
EXTENDS Framing, SequenceProofs

-----------------------------------------------------------------------------
(* Line ends *)

IsEnd(bytes, i) == bytes[i] = CR /\ bytes[i + 1] = LF

(* LineEnd is the first line end.                                            *)
LEMMA FirstEnd ==
  ASSUME NEW S, NEW bytes \in Seq(S), HasLine(bytes)
  PROVE  /\ LineEnd(bytes) \in 1..(Len(bytes) - 1) /\ IsEnd(bytes, LineEnd(bytes))
         /\ \A j \in 1..(LineEnd(bytes) - 1) : ~IsEnd(bytes, j)
  <1> DEFINE T == {i \in 1..(Len(bytes) - 1) : IsEnd(bytes, i)}
  <1>1. T \in SUBSET Nat /\ T # {}
    <2>1. PICK i \in 1..(Len(bytes) - 1) : bytes[i] = CR /\ bytes[i + 1] = LF
      BY DEF HasLine
    <2>2. i \in T
      BY <2>1 DEF IsEnd
    <2>3. \A j \in 1..(Len(bytes) - 1) : j \in Nat
      OBVIOUS
    <2> QED
      BY <2>2, <2>3
  <1>2. PICK m \in T : \A j \in T : m <= j
    BY <1>1, Least
  <1>3. m \in 1..(Len(bytes) - 1) /\ IsEnd(bytes, m)
    BY <1>2
  <1>4. ASSUME NEW j \in 1..(m - 1) PROVE ~IsEnd(bytes, j)
    <2>1. j \in 1..(Len(bytes) - 1) /\ ~(m <= j)
      BY <1>3
    <2> QED
      BY <1>2, <2>1
  <1> DEFINE First(i) == /\ bytes[i] = CR /\ bytes[i + 1] = LF
                         /\ \A j \in 1..(i - 1) : ~(bytes[j] = CR /\ bytes[j + 1] = LF)
  <1>5. First(m)
    BY <1>3, <1>4 DEF IsEnd
  <1>6. LineEnd(bytes) = CHOOSE i \in 1..(Len(bytes) - 1) : First(i)
    BY DEF LineEnd
  <1> HIDE DEF First
  <1>7. LineEnd(bytes) \in 1..(Len(bytes) - 1) /\ First(LineEnd(bytes))
    BY <1>3, <1>5, <1>6
  <1> QED
    BY <1>7 DEF First, IsEnd

(* The greatest of a set of positions.                                       *)
LEMMA Greatest ==
  ASSUME NEW n \in Nat, NEW T \in SUBSET (1..n), T # {}
  PROVE  \E m \in T : \A j \in T : j <= m
  <1> DEFINE U == {k \in 0..n : n - k \in T}
  <1>1. PICK t \in T : t \in 1..n
    OBVIOUS
  <1>2. n - t \in U
    <2>1. n - (n - t) = t /\ n - t \in 0..n
      BY <1>1
    <2> QED
      BY <1>1, <2>1
  <1>3. U \in SUBSET Nat /\ U # {}
    <2>1. \A k \in 0..n : k \in Nat
      OBVIOUS
    <2> QED
      BY <1>2, <2>1
  <1>4. PICK k \in U : \A l \in U : k <= l
    BY <1>3, Least
  <1>5. ASSUME NEW j \in T PROVE j <= n - k
    <2>1. j \in 1..n /\ n - (n - j) = j /\ n - j \in 0..n
      OBVIOUS
    <2>2. n - j \in U
      BY <2>1
    <2>3. k <= n - j /\ k \in 0..n
      BY <1>4, <2>2
    <2> QED
      BY <2>1, <2>3
  <1> QED
    BY <1>4, <1>5

(* What is stripped of a line is no longer than the line.                    *)
LEMMA StrippedType ==
  ASSUME NEW S, NEW line \in Seq(S)
  PROVE  Stripped(line) \in Seq(S) /\ Len(Stripped(line)) <= Len(line)
  <1> DEFINE kept == {i \in 1..Len(line) : line[i] \notin {CR, LF}}
             a == CHOOSE i \in kept : \A j \in kept : i <= j
             b == CHOOSE i \in kept : \A j \in kept : j <= i
  <1>1. Stripped(line) = IF kept = {} THEN <<>> ELSE SubSeq(line, a, b)
    BY DEF Stripped
  <1>2. kept \in SUBSET (1..Len(line)) /\ kept \in SUBSET Nat /\ Len(line) \in Nat
    OBVIOUS
  <1> HIDE DEF kept
  <1>3. CASE kept = {}
    <2>1. Stripped(line) = <<>> /\ Len(<<>>) = 0
      BY <1>1, <1>3
    <2> QED
      BY <1>2, <2>1
  <1>4. CASE kept # {}
    <2>1. a \in kept /\ \A j \in kept : a <= j
      BY <1>2, <1>4, Least
    <2>2. b \in kept
      BY <1>2, <1>4, Greatest
    <2>3. a <= b /\ a \in 1..Len(line) /\ b \in 1..Len(line)
      BY <1>2, <2>1, <2>2
    <2> HIDE DEF a, b
    <2>4. a \in 1..(Len(line) + 1) /\ b \in (a - 1)..Len(line)
      BY <2>3, <1>2
    <2>5. SubSeq(line, a, b) \in Seq(S) /\ Len(SubSeq(line, a, b)) = b - a + 1
      BY <2>4, Slice
    <2>6. b - a + 1 <= Len(line)
      BY <2>3, <1>2
    <2> QED
      BY <1>1, <1>4, <2>5, <2>6
  <1> QED
    BY <1>3, <1>4

-----------------------------------------------------------------------------
(* The invariant *)

(* Where the last line that was cut ends, with its line end.                 *)
cut == taken - Len(buffer)

(* The buffer is what was received after that.                               *)
BufferInv ==
  /\ stream \in Seq(Range(stream)) /\ buffer \in Seq(Range(stream))
  /\ taken \in 0..Len(stream) /\ cut \in 0..taken
  /\ \A i \in 1..Len(buffer) : buffer[i] = stream[cut + i]
  /\ cut = 0 \/ (cut >= 2 /\ IsEnd(stream, cut - 1))

(* A line end was not in the buffer before the last piece was received.      *)
BoundsInv ==
  /\ dispatched \in Seq(Seq(Range(stream))) /\ refused \in BOOLEAN
  /\ \A k \in 1..Len(dispatched) : Len(dispatched[k]) <= MAX_COMMAND_LENGTH
  /\ ~refused =>
       /\ \A e \in 1..(Len(buffer) - 1) :
            IsEnd(buffer, e) => Len(buffer) - (e + 1) <= MAX_COMMAND_LENGTH
       /\ HasLine(buffer) \/ Len(buffer) <= MAX_COMMAND_LENGTH
       /\ Len(buffer) <= MAX_COMMAND_LENGTH + ChunkSize

CommandsInv == ~refused => dispatched = CommandsUpTo(cut)

RefusedInv ==
  refused =>
    \/ \E i \in EndsBefore(taken) : Len(LineUpTo(i)) >= MAX_COMMAND_LENGTH
    \/ Len(Unfinished) >= MAX_COMMAND_LENGTH

FramingInv == BufferInv /\ BoundsInv /\ CommandsInv /\ RefusedInv

-----------------------------------------------------------------------------
(* Receive *)

LEMMA InitFramingInv == FramingInit => FramingInv
  <1> SUFFICES ASSUME FramingInit PROVE FramingInv
    OBVIOUS
  <1>1. /\ stream \in Seq(Range(stream)) /\ taken = 0 /\ buffer = <<>> /\ dispatched = <<>>
        /\ refused = FALSE /\ Len(stream) \in Nat
    BY FramingAssumption DEF FramingInit
  <1>2. Len(buffer) = 0 /\ cut = 0
    <2>1. Len(buffer) = 0
      BY <1>1
    <2> QED
      <3>1. taken = 0
        BY <1>1
      <3> QED
        BY <2>1, <3>1 DEF cut
  <1>3. BufferInv
    BY <1>1, <1>2 DEF BufferInv
  <1>4. BoundsInv
    <2>1. MAX_COMMAND_LENGTH \in Nat /\ ChunkSize \in Nat
      BY FramingAssumption
    <2>2. dispatched \in Seq(Seq(Range(stream))) /\ Len(dispatched) = 0
      BY <1>1
    <2>3. /\ 1..Len(dispatched) = {} /\ 1..(Len(buffer) - 1) = {}
          /\ Len(buffer) <= MAX_COMMAND_LENGTH /\ Len(buffer) <= MAX_COMMAND_LENGTH + ChunkSize
      BY <1>2, <2>1, <2>2
    <2> QED
      BY <1>1, <2>2, <2>3 DEF BoundsInv
  <1>5. CommandsInv
    <2> DEFINE ss == [i \in 1..0 |->
                 IF i \in EndsBefore(0) /\ Stripped(LineUpTo(i)) # <<>>
                   THEN <<Stripped(LineUpTo(i))>> ELSE <<>>]
    <2>1. CommandsUpTo(cut) = FlattenSeq(ss)
      BY <1>2 DEF CommandsUpTo
    <2>2. ss \in [1..0 -> {}]
      OBVIOUS
    <2> HIDE DEF ss
    <2>3. FlattenSeq(ss) = <<>>
      BY <2>2, FlattenEmpty
    <2> QED
      BY <1>1, <2>1, <2>3 DEF CommandsInv
  <1>6. RefusedInv
    BY <1>1 DEF RefusedInv
  <1> QED
    BY <1>3, <1>4, <1>5, <1>6 DEF FramingInv

(* What a piece adds to the buffer.                                          *)
LEMMA ReceiveAdds ==
  ASSUME BufferInv, NEW n \in 1..ChunkSize, taken + n <= Len(stream), taken' = taken + n,
         stream' = stream, buffer' = Received(SubSeq(stream, taken + 1, taken + n))
  PROVE  /\ BufferInv' /\ cut' = cut /\ Len(buffer') = Len(buffer) + n
         /\ \A i \in 1..Len(buffer) : buffer'[i] = buffer[i]
  <1> DEFINE S == Range(stream)  l == Len(buffer)  piece == SubSeq(stream, taken + 1, taken + n)
  <1>1. /\ stream \in Seq(S) /\ buffer \in Seq(S) /\ taken \in 0..Len(stream) /\ cut \in 0..taken
        /\ \A i \in 1..l : buffer[i] = stream[cut + i]
        /\ cut = 0 \/ (cut >= 2 /\ IsEnd(stream, cut - 1))
        /\ cut = taken - l
    BY DEF BufferInv, cut
  <1>2. n \in Nat /\ Len(stream) \in Nat /\ l \in Nat /\ Range(stream') = S
    <2>1. ChunkSize \in Nat
      BY FramingAssumption
    <2> QED
      BY <1>1, <2>1
  <1> HIDE DEF S
  <1>3. /\ piece \in Seq(S) /\ Len(piece) = n
        /\ \A i \in 1..n : piece[i] = stream[taken + i]
    <2>1. /\ taken + 1 \in 1..(Len(stream) + 1) /\ taken + n \in ((taken + 1) - 1)..Len(stream)
          /\ (taken + n) - (taken + 1) + 1 = n
      BY <1>1, <1>2
    <2>2. /\ piece \in Seq(S) /\ Len(piece) = (taken + n) - (taken + 1) + 1
          /\ \A i \in 1..((taken + n) - (taken + 1) + 1) : piece[i] = stream[taken + 1 + i - 1]
      BY <1>1, <2>1, Slice
    <2>3. \A i \in 1..n : taken + 1 + i - 1 = taken + i
      BY <1>1, <1>2
    <2> QED
      BY <2>1, <2>2, <2>3
  <1>4. buffer' = buffer \o piece
    BY DEF Received
  <1> HIDE DEF piece, l
  <1>5. buffer' \in Seq(S) /\ Parts(buffer', buffer, piece, l, n)
    <2>1. Len(buffer) = l
      BY DEF l
    <2>2. buffer \in Seq(S) /\ piece \in Seq(S) /\ Len(piece) = n
      BY <1>1, <1>3
    <2>3. buffer \o piece \in Seq(S) /\ Parts(buffer \o piece, buffer, piece, l, n)
      BY <2>1, <2>2, ConcatParts
    <2> QED
      BY <1>4, <2>3
  <1>6. /\ Len(buffer') = l + n /\ \A i \in 1..l : buffer'[i] = buffer[i]
        /\ \A i \in 1..n : buffer'[l + i] = piece[i]
    BY <1>5 DEF Parts
  <1>7. cut' = cut
    <2>1. cut' = taken' - Len(buffer')
      BY DEF cut
    <2> QED
      BY <1>1, <1>2, <1>6, <2>1
  <1>8. ASSUME NEW i \in 1..(l + n) PROVE buffer'[i] = stream[cut + i]
    <2>1. CASE i \in 1..l
      BY <1>1, <1>6, <2>1
    <2>2. CASE i \notin 1..l
      <3>1. i - l \in 1..n /\ l + (i - l) = i /\ taken + (i - l) = cut + i
        BY <1>1, <1>2, <2>2
      <3> QED
        BY <1>3, <1>6, <3>1
    <2> QED
      BY <2>1, <2>2
  <1>9. taken' \in 0..Len(stream') /\ cut' \in 0..taken'
    BY <1>1, <1>2, <1>7
  <1>10. cut' = 0 \/ (cut' >= 2 /\ IsEnd(stream', cut' - 1))
    BY <1>1, <1>7
  <1>11. BufferInv'
    BY <1>1, <1>2, <1>5, <1>6, <1>7, <1>8, <1>9, <1>10 DEF BufferInv
  <1> QED
    BY <1>6, <1>7, <1>11 DEF l

LEMMA ReceiveKeeps == FramingInv /\ Receive => FramingInv'
  <1> SUFFICES ASSUME FramingInv, Receive PROVE FramingInv'
    OBVIOUS
  <1>1. PICK n \in 1..ChunkSize :
          /\ taken + n <= Len(stream) /\ taken' = taken + n
          /\ buffer' = Received(SubSeq(stream, taken + 1, taken + n))
          /\ refused' = (~HasLine(buffer') /\ Len(buffer') > MAX_COMMAND_LENGTH)
    BY DEF Receive
  <1>2. /\ stream' = stream /\ dispatched' = dispatched /\ ~refused /\ ~HasLine(buffer)
        /\ BufferInv /\ BoundsInv /\ CommandsInv
    BY DEF Receive, FramingInv
  <1>3. /\ BufferInv' /\ cut' = cut /\ Len(buffer') = Len(buffer) + n
        /\ \A i \in 1..Len(buffer) : buffer'[i] = buffer[i]
    BY <1>1, <1>2, ReceiveAdds
  <1> DEFINE l == Len(buffer)  M == MAX_COMMAND_LENGTH
  <1>4. /\ n \in Nat /\ n <= M + 1 /\ n <= ChunkSize /\ l \in Nat /\ M \in Nat /\ ChunkSize \in Nat
        /\ l <= M /\ Len(buffer') = l + n
    <2>1. ChunkSize \in Nat /\ M \in Nat /\ ChunkSize <= M + 1
      BY FramingAssumption
    <2>2. l \in Nat
      BY <1>2 DEF BufferInv
    <2>3. l <= M
      BY <1>2 DEF BoundsInv
    <2> QED
      BY <1>3, <2>1, <2>2, <2>3
  <1>5. ASSUME NEW e \in 1..(Len(buffer') - 1), IsEnd(buffer', e)
        PROVE  Len(buffer') - (e + 1) <= M
    <2>1. e > l - 1
      <3> SUFFICES ASSUME e \in 1..(l - 1) PROVE FALSE
        BY <1>4
      <3>1. e \in 1..l /\ e + 1 \in 1..l
        BY <1>4
      <3>2. IsEnd(buffer, e)
        BY <1>3, <1>5, <3>1 DEF IsEnd
      <3> QED
        BY <1>2, <3>2 DEF HasLine, IsEnd
    <2> QED
      BY <1>4, <2>1
  <1>6. HasLine(buffer') \/ Len(buffer') <= M \/ refused'
    <2> SUFFICES ASSUME ~HasLine(buffer'), ~(Len(buffer') <= M) PROVE refused'
      OBVIOUS
    <2>1. Len(buffer') > M
      BY <1>4
    <2> QED
      BY <1>1, <2>1, Zenon
  <1>7. Len(buffer') <= M + ChunkSize
    BY <1>4
  <1>8. BoundsInv'
    <2>1. refused' \in BOOLEAN
      BY <1>1
    <2>2. dispatched' \in Seq(Seq(Range(stream'))) /\ \A k \in 1..Len(dispatched') : Len(dispatched'[k]) <= M
      BY <1>2 DEF BoundsInv
    <2>3. \A e \in 1..(Len(buffer') - 1) : IsEnd(buffer', e) => Len(buffer') - (e + 1) <= M
      BY <1>5
    <2> QED
      BY <1>6, <1>7, <2>1, <2>2, <2>3 DEF BoundsInv, IsEnd, HasLine
  <1>9. CommandsInv'
    <2>1. CommandsUpTo(cut)' = CommandsUpTo(cut)
      BY <1>2, <1>3 DEF CommandsUpTo, EndsBefore, LineUpTo
    <2> QED
      BY <1>2, <2>1 DEF CommandsInv
  <1>10. RefusedInv'
    <2> SUFFICES ASSUME refused' PROVE Len(Unfinished') >= M
      BY DEF RefusedInv
    <2> DEFINE rest == SubSeq(stream, cut + 1, taken)'
    <2>1. /\ stream' \in Seq(Range(stream')) /\ taken' \in 0..Len(stream') /\ cut' \in 0..taken'
          /\ Len(stream') \in Nat /\ cut' = taken' - Len(buffer') /\ Len(buffer') > M
      <3>1. /\ stream' \in Seq(Range(stream')) /\ taken' \in 0..Len(stream') /\ cut' \in 0..taken'
        BY <1>3 DEF BufferInv
      <3>2. cut' = taken' - Len(buffer')
        BY DEF cut
      <3>3. Len(buffer') > M
        BY <1>1, Zenon
      <3> QED
        BY <3>1, <3>2, <3>3
    <2>2. rest \in Seq(Range(stream')) /\ Len(rest) = Len(buffer')
      <3>1. /\ cut' + 1 \in 1..(Len(stream') + 1) /\ taken' \in ((cut' + 1) - 1)..Len(stream')
            /\ taken' - (cut' + 1) + 1 = Len(buffer')
        BY <2>1, <1>4
      <3> QED
        BY <2>1, <3>1, Slice
    <2>3. Unfinished' = IF Last(rest) = CR THEN Front(rest) ELSE rest
      BY DEF Unfinished, cut
    <2> HIDE DEF rest
    <2>4. rest # <<>> /\ Len(rest) > M /\ Len(rest) \in Nat
      BY <2>1, <2>2, <1>4
    <2>5. Len(Front(rest)) = Len(rest) - 1
      <3>1. /\ 1 \in 1..(Len(rest) + 1) /\ Len(rest) - 1 \in (1 - 1)..Len(rest)
        BY <2>4, <1>4
      <3>2. Len(SubSeq(rest, 1, Len(rest) - 1)) = (Len(rest) - 1) - 1 + 1
        BY <2>2, <3>1, Slice
      <3>3. (Len(rest) - 1) - 1 + 1 = Len(rest) - 1
        BY <2>4
      <3> QED
        BY <3>2, <3>3 DEF Front
    <2> QED
      BY <1>4, <2>3, <2>4, <2>5
  <1> QED
    BY <1>3, <1>8, <1>9, <1>10 DEF FramingInv

-----------------------------------------------------------------------------
(* CutLine *)

(* What is left in the buffer after the first line.                          *)
LEMMA CutLeaves ==
  ASSUME BufferInv, HasLine(buffer), stream' = stream, taken' = taken,
         buffer' = SubSeq(buffer, LineEnd(buffer) + 2, Len(buffer))
  PROVE  /\ BufferInv' /\ cut' = cut + LineEnd(buffer) + 1
         /\ Len(buffer') = Len(buffer) - (LineEnd(buffer) + 1)
         /\ \A i \in 1..Len(buffer') : buffer'[i] = buffer[LineEnd(buffer) + 1 + i]
  <1> DEFINE S == Range(stream)  l == Len(buffer)  m == LineEnd(buffer)
  <1>1. /\ stream \in Seq(S) /\ buffer \in Seq(S) /\ taken \in 0..Len(stream) /\ cut \in 0..taken
        /\ \A i \in 1..l : buffer[i] = stream[cut + i]
    BY DEF BufferInv
  <1>2. m \in 1..(l - 1) /\ IsEnd(buffer, m)
    BY <1>1, FirstEnd
  <1>3. cut = taken - l
    BY DEF cut
  <1>4. Len(stream) \in Nat /\ l \in Nat
    BY <1>1
  <1>5. buffer' = SubSeq(buffer, m + 2, l)
    OBVIOUS
  <1> HIDE DEF S, l, m
  <1>6. m + 2 \in 1..(l + 1) /\ l \in ((m + 2) - 1)..l /\ l - (m + 2) + 1 = l - (m + 1)
    BY <1>2, <1>4
  <1>7. /\ buffer' \in Seq(S) /\ Len(buffer') = l - (m + 1)
        /\ \A i \in 1..(l - (m + 1)) : buffer'[i] = buffer[m + 1 + i]
    <2>1. /\ SubSeq(buffer, m + 2, l) \in Seq(S)
          /\ Len(SubSeq(buffer, m + 2, l)) = l - (m + 2) + 1
          /\ \A i \in 1..(l - (m + 2) + 1) : SubSeq(buffer, m + 2, l)[i] = buffer[m + 2 + i - 1]
      <3>1. Len(buffer) = l
        BY DEF l
      <3> QED
        BY <1>1, <1>6, <3>1, Slice
    <2>2. \A i \in 1..(l - (m + 1)) : m + 2 + i - 1 = m + 1 + i
      BY <1>2, <1>4
    <2> QED
      BY <1>5, <1>6, <2>1, <2>2
  <1>8. cut' = cut + m + 1
    <2>1. cut' = taken' - Len(buffer')
      BY DEF cut
    <2> QED
      BY <1>1, <1>2, <1>3, <1>4, <1>7, <2>1
  <1>9. cut' \in 0..taken' /\ taken' \in 0..Len(stream')
    <2>1. m \in Nat /\ l \in Nat /\ m + 1 <= l /\ cut \in Nat /\ taken \in Nat /\ cut + l = taken
      BY <1>1, <1>2, <1>3, <1>4
    <2>2. cut' \in 0..taken
      BY <1>8, <2>1
    <2> QED
      BY <1>1, <2>2
  <1>10. ASSUME NEW i \in 1..(l - (m + 1)) PROVE buffer'[i] = stream[cut' + i]
    <2>1. m + 1 + i \in 1..l /\ cut' + i = cut + (m + 1 + i)
      BY <1>1, <1>2, <1>4, <1>8
    <2> QED
      BY <1>1, <1>7, <2>1
  <1>11. cut' >= 2 /\ IsEnd(stream, cut' - 1)
    <2>1. m \in 1..l /\ m + 1 \in 1..l /\ cut' - 1 = cut + m /\ (cut' - 1) + 1 = cut + (m + 1) /\ cut' >= 2
      BY <1>1, <1>2, <1>4, <1>8
    <2>2. stream[cut + m] = CR /\ stream[cut + (m + 1)] = LF
      BY <1>1, <1>2, <2>1 DEF IsEnd
    <2> QED
      BY <2>1, <2>2 DEF IsEnd
  <1>12. BufferInv'
    <2>1. /\ stream' \in Seq(Range(stream')) /\ buffer' \in Seq(Range(stream'))
          /\ \A i \in 1..Len(buffer') : buffer'[i] = stream'[cut' + i]
      BY <1>1, <1>7, <1>10 DEF S
    <2>2. cut' = 0 \/ (cut' >= 2 /\ IsEnd(stream', cut' - 1))
      BY <1>11
    <2> QED
      BY <1>9, <2>1, <2>2 DEF BufferInv
  <1> QED
    BY <1>7, <1>8, <1>12 DEF l, m

(* The line ends of the stream up to the one that is cut.                    *)
LEMMA EndsUpToCut ==
  ASSUME BufferInv, HasLine(buffer)
  PROVE  /\ EndsBefore(cut + LineEnd(buffer)) = EndsBefore(cut)
         /\ \A i \in 1..(cut + LineEnd(buffer) + 1) :
              i \in EndsBefore(cut + LineEnd(buffer) + 1) <=>
                i \in EndsBefore(cut) \/ i = cut + LineEnd(buffer)
         /\ cut + LineEnd(buffer) \in EndsBefore(taken)
  <1> DEFINE l == Len(buffer)  m == LineEnd(buffer)
  <1>1. /\ buffer \in Seq(Range(stream)) /\ taken \in Nat /\ cut \in 0..taken
        /\ \A i \in 1..l : buffer[i] = stream[cut + i]
        /\ cut = 0 \/ (cut >= 2 /\ IsEnd(stream, cut - 1))
    <2>1. stream \in Seq(Range(stream)) /\ taken \in 0..Len(stream)
      BY DEF BufferInv
    <2>2. taken \in Nat
      BY <2>1
    <2> QED
      BY <2>2 DEF BufferInv
  <1>2. m \in 1..(l - 1) /\ IsEnd(buffer, m) /\ \A j \in 1..(m - 1) : ~IsEnd(buffer, j)
    BY <1>1, FirstEnd
  <1>3. cut = taken - l /\ l \in Nat /\ CR # LF /\ cut \in Nat /\ m \in Nat
    <2>1. l \in Nat
      BY <1>1
    <2> QED
      BY <1>1, <1>2, <2>1, FramingAssumption DEF cut
  <1> HIDE DEF l, m
  <1>4. ASSUME NEW i \in (cut + 1)..(cut + l - 1) PROVE IsEnd(stream, i) <=> IsEnd(buffer, i - cut)
    <2>1. i - cut \in 1..l /\ i + 1 - cut \in 1..l /\ cut + (i - cut) = i /\ (i - cut) + 1 = i + 1 - cut
          /\ cut + ((i - cut) + 1) = i + 1
      BY <1>3
    <2> QED
      BY <1>1, <2>1 DEF IsEnd
  <1>5. cut # 0 => ~IsEnd(stream, cut)
    <2> SUFFICES ASSUME cut # 0, IsEnd(stream, cut) PROVE FALSE
      OBVIOUS
    <2>1. (cut - 1) + 1 = cut
      BY <1>3
    <2>2. stream[cut] = LF
      BY <1>1, <2>1 DEF IsEnd
    <2> QED
      BY <1>3, <2>2 DEF IsEnd
  <1>6. ASSUME NEW i \in 1..(cut + m), IsEnd(stream, i), ~(i \in 1..(cut - 1)) PROVE i = cut + m
    <2>1. i # cut
      BY <1>3, <1>5, <1>6
    <2>2. i \in (cut + 1)..(cut + l - 1) /\ i - cut \in 1..m
      BY <1>2, <1>3, <1>6, <2>1
    <2>3. ~(i - cut \in 1..(m - 1))
      BY <1>2, <1>4, <1>6, <2>2
    <2> QED
      BY <1>3, <2>2, <2>3
  <1>7. IsEnd(stream, cut + m) /\ cut + m \in 1..(taken - 1)
    <2>1. cut + m \in (cut + 1)..(cut + l - 1) /\ (cut + m) - cut = m /\ cut + m \in 1..(taken - 1)
      <3>1. m \in Nat /\ m >= 1 /\ m <= l - 1
        BY <1>2, <1>3
      <3>2. taken - 1 = cut + l - 1 /\ taken \in Nat
        BY <1>1, <1>3
      <3> QED
        BY <1>3, <3>1, <3>2
    <2> QED
      BY <1>2, <1>4, <2>1
  <1>8. \A n : EndsBefore(n) = {i \in 1..(n - 1) : IsEnd(stream, i)}
    BY DEF EndsBefore, IsEnd
  <1>9. EndsBefore(cut + m) = EndsBefore(cut)
    <2>1. ASSUME NEW i \in 1..((cut + m) - 1), IsEnd(stream, i) PROVE i \in 1..(cut - 1)
      <3>1. i \in 1..(cut + m) /\ i # cut + m
        BY <1>3
      <3> QED
        BY <1>6, <2>1, <3>1
    <2>2. \A i \in 1..(cut - 1) : i \in 1..((cut + m) - 1)
      BY <1>3
    <2> QED
      BY <1>8, <2>1, <2>2
  <1>10. ASSUME NEW i \in 1..(cut + m + 1)
         PROVE  i \in EndsBefore(cut + m + 1) <=> i \in EndsBefore(cut) \/ i = cut + m
    <2>1. (cut + m + 1) - 1 = cut + m /\ cut + m \in 1..(cut + m)
      BY <1>2, <1>3
    <2>2. \A j \in 1..(cut - 1) : j \in 1..(cut + m)
      BY <1>3
    <2> QED
      BY <1>6, <1>7, <1>8, <2>1, <2>2
  <1>11. cut + m \in EndsBefore(taken)
    BY <1>7, <1>8
  <1> QED
    BY <1>9, <1>10, <1>11 DEF m

LEMMA LineType ==
  ASSUME NEW S, stream \in Seq(S), NEW i \in 1..Len(stream)
  PROVE  LineUpTo(i) \in Seq(S)
  <1> DEFINE begin == {j + 2 : j \in EndsBefore(i)} \cup {1}
             b == CHOOSE x \in begin : \A c \in begin : c <= x
  <1>1. LineUpTo(i) = SubSeq(stream, b, i - 1)
    BY DEF LineUpTo
  <1>2. begin \in SUBSET (1..(i + 1)) /\ begin # {} /\ i + 1 \in Nat
    BY DEF EndsBefore
  <1> HIDE DEF begin
  <1>3. b \in begin
    BY <1>2, Greatest
  <1>4. b \in Int /\ b >= 1 /\ i - 1 \in Int /\ i - 1 <= Len(stream) /\ Len(stream) \in Nat
    <2>1. b \in 1..(i + 1)
      BY <1>2, <1>3
    <2> HIDE DEF b
    <2>2. Len(stream) \in Nat /\ i <= Len(stream) /\ i \in Int
      OBVIOUS
    <2> QED
      BY <2>1, <2>2
  <1> HIDE DEF b
  <1>5. \A k \in b..(i - 1) : stream[k] \in S
    <2>1. \A k \in b..(i - 1) : k \in 1..Len(stream)
      BY <1>4
    <2> QED
      BY <2>1, ElementOfSeq
  <1> QED
    BY <1>1, <1>4, <1>5, SubSeqProperties

(* The line that is cut is the line of the stream at that place.             *)
LEMMA LineIsCut ==
  ASSUME BufferInv, HasLine(buffer)
  PROVE  /\ LineUpTo(cut + LineEnd(buffer)) = SubSeq(buffer, 1, LineEnd(buffer) - 1)
         /\ SubSeq(buffer, 1, LineEnd(buffer) - 1) \in Seq(Range(stream))
  <1> DEFINE S == Range(stream)  l == Len(buffer)  m == LineEnd(buffer)  e == cut + m
             begin == {j + 2 : j \in EndsBefore(e)} \cup {1}
             b == CHOOSE x \in begin : \A c \in begin : c <= x
  <1>1. /\ stream \in Seq(S) /\ buffer \in Seq(S) /\ taken \in 0..Len(stream) /\ cut \in 0..taken
        /\ \A i \in 1..l : buffer[i] = stream[cut + i]
        /\ cut = 0 \/ (cut >= 2 /\ IsEnd(stream, cut - 1))
    BY DEF BufferInv
  <1>2. m \in 1..(l - 1)
    BY <1>1, FirstEnd
  <1>3. cut = taken - l /\ l \in Nat /\ Len(stream) \in Nat /\ cut \in Nat /\ m \in Nat
    <2>1. l \in Nat /\ Len(stream) \in Nat
      BY <1>1
    <2> QED
      BY <1>1, <1>2, <2>1 DEF cut
  <1>4. EndsBefore(e) = EndsBefore(cut)
    BY EndsUpToCut
  <1>5. LineUpTo(e) = SubSeq(stream, b, e - 1)
    BY DEF LineUpTo
  <1>6. cut + 1 \in begin /\ \A c \in begin : c \in Int /\ c <= cut + 1
    <2>1. \A j \in EndsBefore(cut) : j \in Int /\ j + 2 <= cut + 1
      BY <1>3 DEF EndsBefore
    <2>2. CASE cut = 0
      BY <1>3, <1>4, <2>1, <2>2
    <2>3. CASE cut # 0
      <3>1. cut - 1 \in EndsBefore(cut) /\ (cut - 1) + 2 = cut + 1
        BY <1>1, <1>3, <2>3 DEF EndsBefore, IsEnd
      <3> QED
        BY <1>3, <1>4, <2>1, <3>1
    <2> QED
      BY <2>2, <2>3
  <1> HIDE DEF begin, S, l, m
  <1>7. b = cut + 1
    <2>1. b \in begin /\ \A c \in begin : c <= b
      BY <1>6
    <2> HIDE DEF b
    <2> QED
      BY <1>3, <1>6, <2>1
  <1> DEFINE p == SubSeq(stream, cut + 1, e - 1)  q == SubSeq(buffer, 1, m - 1)
  <1>8. p \in Seq(S) /\ Len(p) = m - 1 /\ \A i \in 1..(m - 1) : p[i] = stream[cut + i]
    <2>1. /\ cut + 1 \in 1..(Len(stream) + 1) /\ e - 1 \in ((cut + 1) - 1)..Len(stream)
          /\ (e - 1) - (cut + 1) + 1 = m - 1
      BY <1>1, <1>2, <1>3
    <2>2. /\ p \in Seq(S) /\ Len(p) = (e - 1) - (cut + 1) + 1
          /\ \A i \in 1..((e - 1) - (cut + 1) + 1) : p[i] = stream[cut + 1 + i - 1]
      BY <1>1, <2>1, Slice
    <2>3. \A i \in 1..(m - 1) : cut + 1 + i - 1 = cut + i
      BY <1>3
    <2> QED
      BY <2>1, <2>2, <2>3
  <1>9. q \in Seq(S) /\ Len(q) = m - 1 /\ \A i \in 1..(m - 1) : q[i] = buffer[i]
    <2>1. /\ 1 \in 1..(l + 1) /\ m - 1 \in (1 - 1)..l /\ (m - 1) - 1 + 1 = m - 1
      BY <1>2, <1>3
    <2>2. /\ q \in Seq(S) /\ Len(q) = (m - 1) - 1 + 1
          /\ \A i \in 1..((m - 1) - 1 + 1) : q[i] = buffer[1 + i - 1]
      <3>1. Len(buffer) = l
        BY DEF l
      <3> QED
        BY <1>1, <2>1, <3>1, Slice
    <2>3. \A i \in 1..(m - 1) : 1 + i - 1 = i
      OBVIOUS
    <2> QED
      BY <2>1, <2>2, <2>3
  <1>10. \A i \in 1..(m - 1) : buffer[i] = stream[cut + i]
    <2>1. \A i \in 1..(m - 1) : i \in 1..l
      BY <1>2, <1>3
    <2> QED
      BY <1>1, <2>1
  <1> HIDE DEF p, q
  <1>11. p = q
    BY <1>8, <1>9, <1>10, SeqEqual
  <1> QED
    BY <1>5, <1>7, <1>9, <1>11 DEF p, q, S, m

(* The command of a place of the stream.                                     *)
CommandAt(n, i) ==
  IF i \in EndsBefore(n) /\ Stripped(LineUpTo(i)) # <<>> THEN <<Stripped(LineUpTo(i))>> ELSE <<>>

(* The line that is cut is the next command, if it is not empty.             *)
LEMMA CommandsGrow ==
  ASSUME BufferInv, HasLine(buffer), NEW command,
         command = Stripped(SubSeq(buffer, 1, LineEnd(buffer) - 1))
  PROVE  /\ CommandsUpTo(cut) \in Seq(Seq(Range(stream)))
         /\ CommandsUpTo(cut + LineEnd(buffer) + 1) =
              IF command = <<>> THEN CommandsUpTo(cut) ELSE Append(CommandsUpTo(cut), command)
  <1> DEFINE S == Range(stream)  m == LineEnd(buffer)  e == cut + m  n == e + 1
             ss == [i \in 1..n |-> CommandAt(n, i)]
  <1>1. stream \in Seq(S) /\ taken \in 0..Len(stream) /\ cut \in Nat /\ buffer \in Seq(S)
    BY DEF BufferInv
  <1>2. /\ \A i \in 1..n : i \in EndsBefore(n) <=> i \in EndsBefore(cut) \/ i = e
        /\ e \in EndsBefore(taken)
    BY EndsUpToCut
  <1>3. m \in Nat \ {0}
    BY <1>1, FirstEnd
  <1>4. n <= Len(stream) /\ Len(stream) \in Nat /\ e \in Nat /\ e - 1 \in Nat /\ cut <= e - 1
    BY <1>1, <1>2, <1>3 DEF EndsBefore
  <1>5. command = Stripped(LineUpTo(e))
    BY LineIsCut
  <1> HIDE DEF S, m
  <1>6. ASSUME NEW i \in 1..n PROVE CommandAt(n, i) \in Seq(Seq(S)) /\ Stripped(LineUpTo(i)) \in Seq(S)
    <2>1. i \in 1..Len(stream)
      BY <1>4
    <2>2. Stripped(LineUpTo(i)) \in Seq(S)
      <3>1. LineUpTo(i) \in Seq(S)
        BY <1>1, <2>1, LineType
      <3> QED
        BY <3>1, StrippedType
    <2> DEFINE c == Stripped(LineUpTo(i))
    <2> HIDE DEF c
    <2>3. c \in Seq(S)
      BY <2>2 DEF c
    <2>4. <<c>> \in Seq(Seq(S)) /\ <<>> \in Seq(Seq(S))
      BY <2>3
    <2> QED
      BY <2>2, <2>4 DEF CommandAt, c
  <1>7. Pieces(Seq(S), n, ss)
    BY <1>4, <1>6 DEF Pieces
  <1>8. CommandsUpTo(n) = FlattenSeq(ss)
    BY DEF CommandsUpTo, CommandAt
  <1>9. PICK f : Partial(Seq(S), n, ss, f)
    BY <1>7, PartialExists
  <1>10. f[cut] = CommandsUpTo(cut) /\ f[cut] \in Seq(Seq(S))
    <2> DEFINE front == [i \in 1..cut |-> ss[i]]
    <2>1. cut \in 0..n
      BY <1>1, <1>4
    <2>2. f[cut] = FlattenSeq(front) /\ f[cut] \in Seq(Seq(S))
      <3> HIDE DEF ss
      <3> QED
        BY <1>7, <1>9, <2>1, PartialFront
    <2>3. front = [i \in 1..cut |-> CommandAt(cut, i)]
      <3>1. ASSUME NEW i \in 1..cut PROVE ss[i] = CommandAt(cut, i)
        <4>1. i \in 1..n /\ i # e
          BY <1>1, <1>4
        <4>2. i \in EndsBefore(n) <=> i \in EndsBefore(cut)
          BY <1>2, <4>1
        <4> QED
          BY <4>1, <4>2 DEF CommandAt
      <3> HIDE DEF ss
      <3> QED
        BY <3>1
    <2>4. CommandsUpTo(cut) = FlattenSeq([i \in 1..cut |-> CommandAt(cut, i)])
      BY DEF CommandsUpTo, CommandAt
    <2> HIDE DEF front
    <2> QED
      BY <2>2, <2>3, <2>4
  <1>11. ASSUME NEW i \in 1..n, i \in (cut + 1)..(e - 1) \/ i = n PROVE ss[i] = <<>>
    <2>1. i \notin EndsBefore(cut) /\ i # e
      BY <1>1, <1>4, <1>11 DEF EndsBefore
    <2>2. i \notin EndsBefore(n)
      BY <1>2, <2>1
    <2> QED
      BY <2>2 DEF CommandAt
  <1>12. ss[e] = IF command = <<>> THEN <<>> ELSE <<command>>
    <2>1. e \in 1..n /\ e \in EndsBefore(n)
      BY <1>1, <1>2, <1>4
    <2> QED
      BY <1>5, <2>1 DEF CommandAt
  <1>13. command \in Seq(S)
    <2>1. e \in 1..n
      BY <1>1, <1>4
    <2> QED
      BY <1>5, <1>6, <2>1
  <1> HIDE DEF ss
  <1>14. f[e - 1] = f[cut]
    <2>1. cut \in 0..n /\ e - 1 \in cut..n /\ \A i \in (cut + 1)..(e - 1) : i \in 1..n
      BY <1>1, <1>4
    <2>2. \A i \in (cut + 1)..(e - 1) : ss[i] = <<>>
      BY <1>11, <2>1
    <2> QED
      BY <1>7, <1>9, <2>1, <2>2, PartialSame
  <1>15. f[e] = f[e - 1] \o ss[e]
    <2>1. e \in 1..n
      BY <1>1, <1>4
    <2> QED
      BY <1>9, <2>1 DEF Partial
  <1>16. f[n] = f[e]
    <2>1. e \in 0..n /\ n \in e..n /\ n \in 1..n /\ \A i \in (e + 1)..n : i = n
      BY <1>4
    <2>2. \A i \in (e + 1)..n : ss[i] = <<>>
      BY <1>11, <2>1
    <2> QED
      BY <1>7, <1>9, <2>1, <2>2, PartialSame
  <1>17. FlattenSeq(ss) = f[n]
    BY <1>7, <1>9, FlattenIsPartial
  <1>18. CommandsUpTo(n) = IF command = <<>> THEN f[cut] ELSE Append(f[cut], command)
    <2>1. CASE command = <<>>
      <3>1. f[cut] \o <<>> = f[cut]
        BY <1>10, ConcatEmptySeq
      <3> QED
        BY <1>8, <1>12, <1>14, <1>15, <1>16, <1>17, <2>1, <3>1
    <2>2. CASE command # <<>>
      <3>1. f[cut] \o <<command>> = Append(f[cut], command)
        BY <1>10, <1>13, AppendIsConcat
      <3> QED
        BY <1>8, <1>12, <1>14, <1>15, <1>16, <1>17, <2>2, <3>1
    <2> QED
      BY <2>1, <2>2
  <1> QED
    BY <1>10, <1>18 DEF S, m

LEMMA CutLineKeeps == FramingInv /\ CutLine => FramingInv'
  <1> SUFFICES ASSUME FramingInv, CutLine PROVE FramingInv'
    OBVIOUS
  <1> DEFINE S == Range(stream)  l == Len(buffer)  m == LineEnd(buffer)  M == MAX_COMMAND_LENGTH
             line == SubSeq(buffer, 1, m - 1)  command == Stripped(line)
  <1>1. /\ stream' = stream /\ taken' = taken /\ ~refused /\ HasLine(buffer)
        /\ buffer' = SubSeq(buffer, m + 2, l)
        /\ refused' = (Len(line) > M)
        /\ dispatched' = IF refused' \/ command = <<>> THEN dispatched ELSE Append(dispatched, command)
    BY DEF CutLine
  <1>2. BufferInv /\ BoundsInv /\ CommandsInv
    BY DEF FramingInv
  <1>3. /\ BufferInv' /\ cut' = cut + m + 1 /\ Len(buffer') = l - (m + 1)
        /\ \A i \in 1..Len(buffer') : buffer'[i] = buffer[m + 1 + i]
    BY <1>1, <1>2, CutLeaves
  <1>4. /\ CommandsUpTo(cut) \in Seq(Seq(S))
        /\ CommandsUpTo(cut + m + 1) =
             IF command = <<>> THEN CommandsUpTo(cut) ELSE Append(CommandsUpTo(cut), command)
    BY <1>1, <1>2, CommandsGrow
  <1>5. LineUpTo(cut + m) = line /\ line \in Seq(S)
    BY <1>1, <1>2, LineIsCut
  <1>6. cut + m \in EndsBefore(taken)
    BY <1>1, <1>2, EndsUpToCut
  <1>7. m \in 1..(l - 1) /\ IsEnd(buffer, m)
    <2>1. buffer \in Seq(S)
      BY <1>2 DEF BufferInv
    <2> QED
      BY <1>1, <2>1, FirstEnd
  <1>8. l \in Nat /\ M \in Nat /\ ChunkSize \in Nat
    <2>1. l \in Nat
      BY <1>2 DEF BufferInv
    <2> QED
      BY <2>1, FramingAssumption
  <1>9. command \in Seq(S) /\ Len(command) <= Len(line) /\ Len(line) \in Nat
    <2>1. Stripped(line) \in Seq(S) /\ Len(Stripped(line)) <= Len(line)
      BY <1>5, StrippedType
    <2>2. Len(line) \in Nat
      BY <1>5
    <2> QED
      BY <2>1, <2>2
  <1>10. dispatched = CommandsUpTo(cut)
    BY <1>1, <1>2 DEF CommandsInv
  <1>11. /\ dispatched \in Seq(Seq(S)) /\ \A k \in 1..Len(dispatched) : Len(dispatched[k]) <= M
         /\ \A e \in 1..(l - 1) : IsEnd(buffer, e) => l - (e + 1) <= M
         /\ l <= M + ChunkSize
    BY <1>1, <1>2 DEF BoundsInv
  <1> HIDE DEF S, l, m, M, line, command
  <1>12. BoundsInv'
    <2>1. refused' \in BOOLEAN
      BY <1>1
    <2>2. /\ dispatched' \in Seq(Seq(S))
          /\ \A k \in 1..Len(dispatched') : Len(dispatched'[k]) <= M
      <3>1. CASE refused' \/ command = <<>>
        BY <1>1, <1>11, <3>1
      <3>2. CASE ~(refused' \/ command = <<>>)
        <4>1. Len(command) <= M
          <5>1. ~(Len(line) > M)
            BY <1>1, <3>2
          <5> QED
            BY <1>8, <1>9, <5>1
        <4>2. dispatched' = Append(dispatched, command)
          BY <1>1, <3>2
        <4>3. /\ dispatched' \in Seq(Seq(S)) /\ Len(dispatched') = Len(dispatched) + 1
              /\ dispatched'[Len(dispatched) + 1] = command
              /\ \A k \in 1..Len(dispatched) : dispatched'[k] = dispatched[k]
          BY <1>9, <1>11, <4>2, AppendProperties
        <4>4. ASSUME NEW k \in 1..Len(dispatched') PROVE Len(dispatched'[k]) <= M
          <5>1. k = Len(dispatched) + 1 \/ k \in 1..Len(dispatched)
            BY <1>11, <4>3
          <5> QED
            BY <1>11, <4>1, <4>3, <5>1
        <4> QED
          BY <4>3, <4>4
      <3> QED
        BY <3>1, <3>2
    <2>3. ASSUME NEW e \in 1..(Len(buffer') - 1), IsEnd(buffer', e)
          PROVE  Len(buffer') - (e + 1) <= M
      <3>1. /\ e \in 1..Len(buffer') /\ e + 1 \in 1..Len(buffer')
            /\ m + 1 + e \in 1..(l - 1) /\ m + 1 + (e + 1) = (m + 1 + e) + 1
        BY <1>3, <1>7, <1>8
      <3>2. IsEnd(buffer, m + 1 + e)
        BY <1>3, <2>3, <3>1 DEF IsEnd
      <3>3. l - ((m + 1 + e) + 1) <= M
        BY <1>11, <3>1, <3>2
      <3> QED
        BY <1>3, <1>7, <1>8, <3>3
    <2>4. Len(buffer') <= M
      BY <1>3, <1>7, <1>11
    <2>5. Len(buffer') <= M + ChunkSize
      BY <1>3, <1>7, <1>8, <1>11
    <2>6. Range(stream') = S
      BY <1>1 DEF S
    <2> QED
      BY <2>1, <2>2, <2>3, <2>4, <2>5, <2>6 DEF BoundsInv, IsEnd, HasLine, M
  <1>13. CommandsInv'
    <2> SUFFICES ASSUME ~refused' PROVE dispatched' = CommandsUpTo(cut)'
      BY DEF CommandsInv
    <2>1. CommandsUpTo(cut)' = CommandsUpTo(cut + m + 1)
      BY <1>1, <1>3 DEF CommandsUpTo, EndsBefore, LineUpTo
    <2> QED
      BY <1>1, <1>4, <1>10, <2>1
  <1>14. RefusedInv'
    <2> SUFFICES ASSUME refused'
                 PROVE  \E i \in EndsBefore(taken)' : Len(LineUpTo(i)') >= M
      BY DEF RefusedInv, M
    <2>1. EndsBefore(taken)' = EndsBefore(taken)
      BY <1>1 DEF EndsBefore
    <2>2. \A i : LineUpTo(i)' = LineUpTo(i)
      BY <1>1 DEF EndsBefore, LineUpTo
    <2>3. Len(line) >= M
      <3>1. Len(line) > M
        BY <1>1, Zenon
      <3> QED
        BY <1>8, <1>9, <3>1
    <2>4. PICK i \in EndsBefore(taken) : i = cut + m
      BY <1>6
    <2>5. LineUpTo(i)' = line
      BY <1>5, <2>2, <2>4
    <2> QED
      BY <2>1, <2>3, <2>4, <2>5
  <1> QED
    BY <1>3, <1>12, <1>13, <1>14 DEF FramingInv

-----------------------------------------------------------------------------
(* The theorem *)

LEMMA FramingInvStep == FramingInv /\ [FramingNext]_framing_vars => FramingInv'
  <1> SUFFICES ASSUME FramingInv, [FramingNext]_framing_vars PROVE FramingInv'
    OBVIOUS
  <1>1. CASE Receive
    BY <1>1, ReceiveKeeps
  <1>2. CASE CutLine
    BY <1>2, CutLineKeeps
  <1>3. CASE UNCHANGED framing_vars
    <2>1. /\ stream' = stream /\ taken' = taken /\ buffer' = buffer /\ dispatched' = dispatched
          /\ refused' = refused
      BY <1>3 DEF framing_vars
    <2>2. cut' = cut
      BY <2>1 DEF cut
    <2>3. BufferInv'
      BY <2>1, <2>2 DEF FramingInv, BufferInv, IsEnd
    <2>4. BoundsInv'
      BY <2>1 DEF FramingInv, BoundsInv, HasLine, IsEnd
    <2>5. CommandsInv'
      BY <2>1, <2>2 DEF FramingInv, CommandsInv, CommandsUpTo, EndsBefore, LineUpTo
    <2>6. RefusedInv'
      BY <2>1 DEF FramingInv, RefusedInv, EndsBefore, LineUpTo, Unfinished
    <2> QED
      BY <2>3, <2>4, <2>5, <2>6 DEF FramingInv
  <1> QED
    BY <1>1, <1>2, <1>3 DEF FramingNext

LEMMA FramingInvHolds == FramingSpec => []FramingInv
  BY InitFramingInv, FramingInvStep, PTL DEF FramingSpec

(* However recv splits a stream of any length, handle_command gets its lines *)
(* in order, none lost, joined or cut in two; the buffer is bounded, and the *)
(* connection is closed over the length of a command only if a line, or the  *)
(* bytes after the last one, reach the limit (handle_client of               *)
(* server/main_server.py).                                                   *)
THEOREM LinesAreAlwaysCut == FramingSpec => []LinesAreCut
  <1>1. FramingInv => LinesAreCut
    BY DEF FramingInv, BoundsInv, CommandsInv, RefusedInv, LinesAreCut, cut
  <1> QED
    BY <1>1, FramingInvHolds, PTL
=============================================================================

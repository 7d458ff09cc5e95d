---------------------------- MODULE DataPathProofs ----------------------------
(***************************************************************************)
(* Proofs about DataPath for files and packets of any size.                *)
(***************************************************************************)
EXTENDS DataPath, SequenceProofs

-----------------------------------------------------------------------------
(* Sums of words *)

(* The running sums of compute_checksum.                                     *)
Sums(words, n, f) == f[0] = 0 /\ \A i \in 1..n : f[i] = EndAroundSum(f[i - 1], words[i])

(* What the carry at the low end leaves out.                                 *)
Multiples == {x \in Int : \E q \in Int : x = 65535 * q}

LEMMA MultiplesClosed ==
  \A x, y \in Multiples : x \in Int /\ x + y \in Multiples /\ x - y \in Multiples
  <1>1. ASSUME NEW x \in Multiples, NEW y \in Multiples
        PROVE  x \in Int /\ x + y \in Multiples /\ x - y \in Multiples
    <2>1. PICK q \in Int : x = 65535 * q
      BY DEF Multiples
    <2>2. PICK r \in Int : y = 65535 * r
      BY DEF Multiples
    <2>3. x + y = 65535 * (q + r) /\ x - y = 65535 * (q - r) /\ q + r \in Int /\ q - r \in Int
      BY <2>1, <2>2, SMT
    <2>4. x \in Int /\ x + y \in Int /\ x - y \in Int
      BY <2>1, <2>2, SMT
    <2> DEFINE a == x + y
               b == x - y
               p == q + r
               m == q - r
    <2>5. a = 65535 * p /\ b = 65535 * m /\ p \in Int /\ m \in Int
      BY <2>3
    <2> HIDE DEF p, m
    <2>7. a \in Int /\ b \in Int
      BY <2>4
    <2> HIDE DEF a, b
    <2>8. a \in Multiples /\ b \in Multiples
      BY <2>5, <2>7, SMT DEF Multiples
    <2> QED
      BY <2>4, <2>8 DEF a, b
  <1> QED
    BY <1>1

LEMMA MultiplesNear ==
  /\ 0 \in Multiples /\ -65535 \in Multiples /\ 65535 \in Multiples
  /\ \A x \in Multiples : -65535 < x /\ x < 65535 => x = 0
  <1>1. 0 = 65535 * 0 /\ -65535 = 65535 * (-1) /\ 65535 = 65535 * 1
    BY SMT
  <1>2. ASSUME NEW x \in Multiples, -65535 < x, x < 65535 PROVE x = 0
    <2>1. PICK q \in Int : x = 65535 * q
      BY DEF Multiples
    <2> QED
      BY <1>2, <2>1, SMT
  <1> QED
    BY <1>1, <1>2, SMT DEF Multiples

LEMMA SumStep ==
  ASSUME NEW a \in Int, NEW b \in Int
  PROVE  EndAroundSum(a, b) \in Int /\ EndAroundSum(a, b) - (a + b) \in Multiples
  <1>1. EndAroundSum(a, b) - (a + b) = -65535 \/ EndAroundSum(a, b) - (a + b) = 0
    BY SMT DEF EndAroundSum
  <1>2. EndAroundSum(a, b) \in Int
    BY SMT DEF EndAroundSum
  <1> QED
    BY <1>1, <1>2, MultiplesNear, SMT

LEMMA SumsExist ==
  ASSUME NEW n \in Nat, NEW words \in [1..n -> Int]
  PROVE  \E f \in [0..n -> Int] : Sums(words, n, f) /\ OnesSum(words) = f[n]
  <1> DEFINE G == [p \in (1..n) \X Int |-> EndAroundSum(p[2], words[p[1]])]
             Next(f) == [i \in 0..n |-> IF i = 0 THEN 0 ELSE EndAroundSum(f[i - 1], words[i])]
             sum == CHOOSE f : f = Next(f)
  <1>1. G \in [(1..n) \X Int -> Int]
    <2>1. ASSUME NEW p \in (1..n) \X Int PROVE EndAroundSum(p[2], words[p[1]]) \in Int
      <3>1. p[2] \in Int /\ words[p[1]] \in Int
        OBVIOUS
      <3> QED
        BY <3>1, SumStep
    <2> QED
      BY <2>1
  <1>2. \A i \in 1..n, r \in Int : G[<<i, r>>] = EndAroundSum(r, words[i])
    OBVIOUS
  <1> HIDE DEF G
  <1>3. PICK f \in [0..n -> Int] : Follows(f, n, 0, G)
    <2>1. 0 \in Int
      OBVIOUS
    <2> QED
      BY <1>1, <2>1, Recursion
  <1>4. ASSUME NEW i \in 1..n PROVE f[i] = EndAroundSum(f[i - 1], words[i])
    <2>1. i - 1 \in 0..n
      OBVIOUS
    <2>2. f[i - 1] \in Int
      BY <2>1
    <2> QED
      BY <2>2, <1>2, <1>3 DEF Follows
  <1>5. Sums(words, n, f)
    BY <1>3, <1>4 DEF Sums, Follows
  <1>6. f = Next(f)
    <2>1. \A i \in 0..n : f[i] = IF i = 0 THEN 0 ELSE EndAroundSum(f[i - 1], words[i])
      BY <1>3, <1>4 DEF Follows
    <2> QED
      BY <2>1
  <1>7. sum = Next(sum)
    <2> HIDE DEF Next
    <2> QED
      BY <1>6
  <1> HIDE DEF sum
  <1> DEFINE T == {k \in 0..n : sum[k] = f[k]}
  <1>8. 0 \in T
    BY <1>5, <1>7 DEF Sums
  <1>9. ASSUME NEW k \in 0..(n - 1), k \in T PROVE k + 1 \in T
    <2>1. k + 1 \in 1..n /\ (k + 1) - 1 = k
      OBVIOUS
    <2>2. sum[k + 1] = EndAroundSum(sum[k], words[k + 1])
      BY <1>7, <2>1
    <2>3. f[k + 1] = EndAroundSum(f[k], words[k + 1])
      BY <1>4, <2>1
    <2> QED
      BY <1>9, <2>1, <2>2, <2>3
  <1> HIDE DEF T
  <1>10. \A k \in 0..n : k \in T
    BY <1>8, <1>9, Upwards
  <1>11. sum[n] = f[n]
    <2>1. n \in T
      BY <1>10
    <2> QED
      BY <2>1 DEF T
  <1>12. OnesSum(words) = sum[n]
    <2>1. Len(words) = n
      OBVIOUS
    <2> QED
      BY <2>1 DEF OnesSum, sum
  <1> QED
    BY <1>5, <1>11, <1>12

Differ(v, w, n, k, d) == v[k] = w[k] + d /\ \A i \in 1..n : i # k => v[i] = w[i]

(* A word that changes by d changes the sum by d, modulo 65535.              *)
LEMMA SumChanges ==
  ASSUME NEW n \in Nat, NEW v \in [1..n -> Int], NEW w \in [1..n -> Int],
         NEW k \in 1..n, NEW d \in Int, Differ(v, w, n, k, d)
  PROVE  /\ OnesSum(v) \in Int /\ OnesSum(w) \in Int
         /\ OnesSum(v) - OnesSum(w) - d \in Multiples
  <1>0. v[k] = w[k] + d /\ \A i \in 1..n : i # k => v[i] = w[i]
    BY DEF Differ
  <1>1. PICK f \in [0..n -> Int] : Sums(v, n, f) /\ OnesSum(v) = f[n]
    BY SumsExist
  <1>2. PICK g \in [0..n -> Int] : Sums(w, n, g) /\ OnesSum(w) = g[n]
    BY SumsExist
  <1> DEFINE change(i) == IF i < k THEN 0 ELSE d
             T == {i \in 0..n : f[i] - g[i] - change(i) \in Multiples}
  <1>3. 0 \in T
    <2>1. f[0] - g[0] - change(0) = 0
      <3>1. f[0] = 0 /\ g[0] = 0 /\ 0 < k
        BY <1>1, <1>2 DEF Sums
      <3>2. change(0) = 0
        BY <3>1
      <3> HIDE DEF change
      <3> QED
        BY <3>1, <3>2
    <2> QED
      BY <2>1, MultiplesNear, SMT
  <1>4. ASSUME NEW i \in 0..(n - 1), i \in T PROVE i + 1 \in T
    <2>0. i + 1 \in 1..n /\ (i + 1) - 1 = i /\ i \in 0..n /\ i + 1 \in 0..n
      OBVIOUS
    <2>1. f[i] - g[i] - change(i) \in Multiples
      BY <1>4
    <2>2. f[i + 1] = EndAroundSum(f[i], v[i + 1])
      BY <1>1, <2>0 DEF Sums
    <2>3. g[i + 1] = EndAroundSum(g[i], w[i + 1])
      BY <1>2, <2>0 DEF Sums
    <2>4. f[i] \in Int /\ g[i] \in Int /\ v[i + 1] \in Int /\ w[i + 1] \in Int
      BY <2>0
    <2>5. f[i + 1] \in Int /\ f[i + 1] - (f[i] + v[i + 1]) \in Multiples
      BY <2>2, <2>4, SumStep
    <2>6. g[i + 1] \in Int /\ g[i + 1] - (g[i] + w[i + 1]) \in Multiples
      BY <2>3, <2>4, SumStep
    <2>7. /\ v[i + 1] + change(i) = w[i + 1] + change(i + 1)
          /\ change(i) \in Int /\ change(i + 1) \in Int
      <3>1. CASE i + 1 = k
        <4>1. change(i) = 0 /\ change(i + 1) = d
          BY <2>0, <3>1
        <4>2. v[i + 1] = w[i + 1] + d
          BY <1>0, <3>1
        <4> HIDE DEF change
        <4>3. w[i + 1] + d + 0 = w[i + 1] + d
          BY <2>4
        <4> QED
          BY <4>1, <4>2, <4>3
      <3>2. CASE i + 1 # k
        <4>1. v[i + 1] = w[i + 1] /\ (i < k <=> i + 1 < k)
          BY <1>0, <2>0, <3>2
        <4> QED
          BY <4>1, <2>4
      <3> QED
        BY <3>1, <3>2
    <2> HIDE DEF change
    <2> DEFINE x == f[i] - g[i] - change(i)
               y == f[i + 1] - (f[i] + v[i + 1])
               z == g[i + 1] - (g[i] + w[i + 1])
    <2>8. f[i + 1] - g[i + 1] - change(i + 1) = (x + y) - z
      <3> DEFINE a == f[i]  a1 == f[i + 1]  b == g[i]  b1 == g[i + 1]
                 c == change(i)  c1 == change(i + 1)  r == v[i + 1]  s == w[i + 1]
      <3>1. /\ a \in Int /\ a1 \in Int /\ b \in Int /\ b1 \in Int
            /\ c \in Int /\ c1 \in Int /\ r \in Int /\ s \in Int
            /\ r + c = s + c1
        BY <2>4, <2>5, <2>6, <2>7
      <3> HIDE DEF a, a1, b, b1, c, c1, r, s
      <3>2. a1 - b1 - c1 = ((a - b - c) + (a1 - (a + r))) - (b1 - (b + s))
        BY <3>1, SMT
      <3> QED
        BY <3>2 DEF a, a1, b, b1, c, c1, r, s, x, y, z
    <2> HIDE DEF x, y, z
    <2>9. (x + y) - z \in Multiples
      <3>1. x + y \in Multiples
        BY <2>1, <2>5, MultiplesClosed DEF x, y
      <3>2. z \in Multiples
        BY <2>6 DEF z
      <3> QED
        BY <3>1, <3>2, MultiplesClosed
    <2> QED
      BY <2>0, <2>8, <2>9
  <1> HIDE DEF T
  <1>5. \A i \in 0..n : i \in T
    BY <1>3, <1>4, Upwards
  <1>6. n \in T /\ n \in 0..n /\ ~(n < k)
    BY <1>5
  <1>7. f[n] - g[n] - d \in Multiples
    BY <1>6 DEF T
  <1> QED
    BY <1>1, <1>2, <1>6, <1>7

-----------------------------------------------------------------------------
(* Packets *)

LEMMA WordsType ==
  ASSUME NEW bytes \in Seq(Int)
  PROVE  /\ (Len(bytes) + 1) \div 2 \in Nat
         /\ Words(bytes) \in [1..((Len(bytes) + 1) \div 2) -> Int]
  <1>1. ASSUME NEW i \in 1..((Len(bytes) + 1) \div 2)
        PROVE  2 * i - 1 \in 1..Len(bytes) /\ (2 * i <= Len(bytes) => 2 * i \in 1..Len(bytes))
    OBVIOUS
  <1>2. ASSUME NEW i \in 1..((Len(bytes) + 1) \div 2)
        PROVE  bytes[2 * i - 1] * 256 + (IF 2 * i <= Len(bytes) THEN bytes[2 * i] ELSE 0) \in Int
    <2>1. bytes[2 * i - 1] \in Int /\ (2 * i <= Len(bytes) => bytes[2 * i] \in Int)
      BY <1>1, ElementOfSeq
    <2> QED
      BY <2>1
  <1> DEFINE n == (Len(bytes) + 1) \div 2
             W(i) == bytes[2 * i - 1] * 256 + (IF 2 * i <= Len(bytes) THEN bytes[2 * i] ELSE 0)
  <1>3. n \in Nat
    OBVIOUS
  <1>4. Words(bytes) = [i \in 1..n |-> W(i)]
    BY DEF Words
  <1>5. \A i \in 1..n : W(i) \in Int
    BY <1>2
  <1> HIDE DEF n, W
  <1>6. Words(bytes) \in [1..n -> Int]
    BY <1>4, <1>5
  <1> QED
    BY <1>3, <1>6 DEF n

LEMMA HighAndLow ==
  ASSUME NEW n \in Int
  PROVE  (n \div 256) * 256 + (n % 256) = n
  BY SMT

(* The bytes of a header, and of what begins with it.                        *)
HeaderBytes(bytes, seq, ack, checksum, length, flags) ==
  /\ bytes[1] = 0 /\ bytes[2] = 0 /\ bytes[3] = seq \div 256 /\ bytes[4] = seq % 256
  /\ bytes[5] = 0 /\ bytes[6] = 0 /\ bytes[7] = ack \div 256 /\ bytes[8] = ack % 256
  /\ bytes[9] = checksum \div 256 /\ bytes[10] = checksum % 256
  /\ bytes[11] = length \div 256 /\ bytes[12] = length % 256 /\ bytes[13] = flags

LEMMA HeaderLayout ==
  ASSUME NEW seq \in Int, NEW ack \in Int, NEW checksum \in Int, NEW length \in Int,
         NEW flags \in Int
  PROVE  LET head == Header(seq, ack, checksum, length, flags)
         IN head \in Seq(Int) /\ Len(head) = 13 /\ HeaderBytes(head, seq, ack, checksum, length, flags)
  <1> DEFINE a == FourBytes(seq)  b == FourBytes(ack)
             c == TwoBytes(checksum)  d == TwoBytes(length)  e == <<flags>>
             x == a \o b  y == x \o c  z == y \o d  head == z \o e
  <1>1. /\ a \in Seq(Int) /\ Len(a) = 4 /\ b \in Seq(Int) /\ Len(b) = 4
        /\ c \in Seq(Int) /\ Len(c) = 2 /\ d \in Seq(Int) /\ Len(d) = 2
        /\ e \in Seq(Int) /\ Len(e) = 1
    BY DEF FourBytes, TwoBytes
  <1>2. /\ a[1] = 0 /\ a[2] = 0 /\ a[3] = seq \div 256 /\ a[4] = seq % 256
        /\ b[1] = 0 /\ b[2] = 0 /\ b[3] = ack \div 256 /\ b[4] = ack % 256
        /\ c[1] = checksum \div 256 /\ c[2] = checksum % 256
        /\ d[1] = length \div 256 /\ d[2] = length % 256 /\ e[1] = flags
    BY DEF FourBytes, TwoBytes
  <1>3. head = Header(seq, ack, checksum, length, flags)
    BY DEF Header
  <1> HIDE DEF a, b, c, d, e
  <1>4. x \in Seq(Int) /\ Parts(x, a, b, 4, 4)
    BY <1>1, ConcatParts
  <1> HIDE DEF x
  <1>5. Len(x) = 8
    BY <1>4 DEF Parts
  <1>6. y \in Seq(Int) /\ Parts(y, x, c, 8, 2)
    BY <1>1, <1>4, <1>5, ConcatParts
  <1> HIDE DEF y
  <1>7. Len(y) = 10
    BY <1>6 DEF Parts
  <1>8. z \in Seq(Int) /\ Parts(z, y, d, 10, 2)
    BY <1>1, <1>6, <1>7, ConcatParts
  <1> HIDE DEF z
  <1>9. Len(z) = 12
    BY <1>8 DEF Parts
  <1>10. head \in Seq(Int) /\ Parts(head, z, e, 12, 1)
    BY <1>1, <1>8, <1>9, ConcatParts
  <1> HIDE DEF head
  <1>11. /\ head[1] = a[1] /\ head[2] = a[2] /\ head[3] = a[3] /\ head[4] = a[4]
    BY <1>4, <1>6, <1>8, <1>10 DEF Parts
  <1>12. head[5] = b[1] /\ head[6] = b[2] /\ head[7] = b[3] /\ head[8] = b[4]
    <2>1. x[4 + 1] = b[1] /\ x[4 + 2] = b[2] /\ x[4 + 3] = b[3] /\ x[4 + 4] = b[4]
      BY <1>4 DEF Parts
    <2>2. \A i \in 5..8 : head[i] = z[i] /\ z[i] = y[i] /\ y[i] = x[i]
      BY <1>6, <1>8, <1>10 DEF Parts
    <2>3. /\ head[5] = x[4 + 1] /\ head[6] = x[4 + 2] /\ head[7] = x[4 + 3] /\ head[8] = x[4 + 4]
      BY <2>2
    <2> QED
      BY <2>1, <2>3
  <1>13. head[9] = c[1] /\ head[10] = c[2]
    <2>1. y[8 + 1] = c[1] /\ y[8 + 2] = c[2]
      BY <1>6 DEF Parts
    <2> QED
      BY <2>1, <1>8, <1>10 DEF Parts
  <1>14. head[11] = d[1] /\ head[12] = d[2] /\ head[13] = e[1]
    <2>1. z[10 + 1] = d[1] /\ z[10 + 2] = d[2] /\ head[12 + 1] = e[1]
      BY <1>8, <1>10 DEF Parts
    <2> QED
      BY <2>1, <1>10 DEF Parts
  <1>15. head \in Seq(Int) /\ Len(head) = 13
    BY <1>10 DEF Parts
  <1>16. HeaderBytes(head, seq, ack, checksum, length, flags)
    BY <1>2, <1>11, <1>12, <1>13, <1>14 DEF HeaderBytes
  <1> QED
    BY <1>3, <1>15, <1>16

(* A packet is a header and then its payload.                                *)
PacketBytes(bytes, seq, ack, checksum, flags, data) ==
  /\ bytes \in Seq(Int) /\ Len(bytes) = 13 + Len(data)
  /\ HeaderBytes(bytes, seq, ack, checksum, Len(data), flags)
  /\ \A i \in 1..Len(data) : bytes[13 + i] = data[i]

LEMMA PacketLayout ==
  ASSUME NEW seq \in Int, NEW ack \in Int, NEW checksum \in Int, NEW flags \in Int,
         NEW data \in Seq(Int)
  PROVE  PacketBytes(Header(seq, ack, checksum, Len(data), flags) \o data,
                     seq, ack, checksum, flags, data)
  <1> DEFINE head == Header(seq, ack, checksum, Len(data), flags)
             bytes == head \o data
  <1>0. Len(data) \in Nat /\ Len(data) \in Int
    OBVIOUS
  <1>1. /\ head \in Seq(Int) /\ Len(head) = 13
        /\ HeaderBytes(head, seq, ack, checksum, Len(data), flags)
    BY <1>0, HeaderLayout
  <1> HIDE DEF head
  <1>2. bytes \in Seq(Int) /\ Parts(bytes, head, data, 13, Len(data))
    BY <1>1, ConcatParts
  <1> HIDE DEF bytes
  <1>3. HeaderBytes(bytes, seq, ack, checksum, Len(data), flags)
    <2>1. \A i \in 1..13 : bytes[i] = head[i]
      BY <1>2 DEF Parts
    <2>2. /\ bytes[1] = head[1] /\ bytes[2] = head[2] /\ bytes[3] = head[3] /\ bytes[4] = head[4]
          /\ bytes[5] = head[5] /\ bytes[6] = head[6] /\ bytes[7] = head[7] /\ bytes[8] = head[8]
          /\ bytes[9] = head[9] /\ bytes[10] = head[10] /\ bytes[11] = head[11]
          /\ bytes[12] = head[12] /\ bytes[13] = head[13]
      BY <2>1
    <2> QED
      BY <2>2, <1>1 DEF HeaderBytes
  <1>4. PacketBytes(bytes, seq, ack, checksum, flags, data)
    BY <1>2, <1>3 DEF PacketBytes, Parts
  <1> QED
    BY <1>4 DEF bytes, head

(* Only the checksum tells a packet from what it is computed over.           *)
LEMMA PacketsAlike ==
  ASSUME NEW seq, NEW ack, NEW c, NEW d, NEW flags, NEW data \in Seq(Int), NEW p, NEW z,
         PacketBytes(p, seq, ack, c, flags, data), PacketBytes(z, seq, ack, d, flags, data),
         NEW i \in 1..Len(p), i \notin {9, 10}
  PROVE  p[i] = z[i]
  <1>1. CASE i > 13
    <2>0. Len(p) = 13 + Len(data) /\ Len(data) \in Nat
      BY DEF PacketBytes
    <2>1. i - 13 \in 1..Len(data) /\ 13 + (i - 13) = i
      BY <1>1, <2>0
    <2>2. p[13 + (i - 13)] = data[i - 13] /\ z[13 + (i - 13)] = data[i - 13]
      BY <2>1 DEF PacketBytes
    <2> QED
      BY <2>1, <2>2
  <1>2. CASE ~(i > 13)
    <2>1. i \in {1, 2, 3, 4, 5, 6, 7, 8, 11, 12, 13}
      BY <1>2
    <2>2. /\ p[1] = z[1] /\ p[2] = z[2] /\ p[3] = z[3] /\ p[4] = z[4]
          /\ p[5] = z[5] /\ p[6] = z[6] /\ p[7] = z[7] /\ p[8] = z[8]
          /\ p[11] = z[11] /\ p[12] = z[12] /\ p[13] = z[13]
      BY DEF PacketBytes, HeaderBytes
    <2> QED
      BY <2>1, <2>2
  <1> QED
    BY <1>1, <1>2

LEMMA ChecksumType ==
  ASSUME NEW seq \in Int, NEW ack \in Int, NEW flags \in Int, NEW data \in Seq(Int)
  PROVE  compute_checksum(Header(seq, ack, 0, Len(data), flags) \o data) \in Int
  <1> DEFINE zero == Header(seq, ack, 0, Len(data), flags) \o data
             n == (Len(zero) + 1) \div 2
  <1>1. zero \in Seq(Int)
    <2>1. 0 \in Int
      OBVIOUS
    <2>2. PacketBytes(zero, seq, ack, 0, flags, data)
      BY <2>1, PacketLayout
    <2> QED
      BY <2>2 DEF PacketBytes
  <1> HIDE DEF zero
  <1>2. n \in Nat /\ Words(zero) \in [1..n -> Int]
    BY <1>1, WordsType
  <1>3. \E f \in [0..n -> Int] : OnesSum(Words(zero)) = f[n]
    BY <1>2, SumsExist
  <1>4. n \in 0..n
    BY <1>2
  <1>5. OnesSum(Words(zero)) \in Int
    BY <1>3, <1>4
  <1>6. compute_checksum(zero) \in Int
    BY <1>5, SMT DEF compute_checksum
  <1> QED
    BY <1>6 DEF zero

(* The checksum makes the sum of a packet vanish.                            *)
LEMMA PackedSum ==
  ASSUME NEW seq \in Int, NEW ack \in Int, NEW flags \in Int, NEW data \in Seq(Int)
  PROVE  OnesSum(Words(pack_packet(seq, ack, flags, data))) \in Multiples
  <1> DEFINE zero == Header(seq, ack, 0, Len(data), flags) \o data
             c == compute_checksum(zero)
             packet == pack_packet(seq, ack, flags, data)
             n == (Len(zero) + 1) \div 2
  <1>0. PacketBytes(zero, seq, ack, 0, flags, data)
    <2>1. 0 \in Int
      OBVIOUS
    <2> QED
      BY <2>1, PacketLayout
  <1> HIDE DEF zero
  <1>1. zero \in Seq(Int) /\ Len(zero) = 13 + Len(data) /\ zero[9] * 256 + zero[10] = 0
    BY <1>0 DEF PacketBytes, HeaderBytes
  <1>2. n \in Nat /\ Words(zero) \in [1..n -> Int]
    BY <1>1, WordsType
  <1>3. OnesSum(Words(zero)) \in Int
    <2>1. \E f \in [0..n -> Int] : OnesSum(Words(zero)) = f[n]
      BY <1>2, SumsExist
    <2>2. n \in 0..n
      BY <1>2
    <2> QED
      BY <2>1, <2>2
  <1>4. c \in Int
    BY <1>3, SMT DEF compute_checksum
  <1> HIDE DEF c
  <1>5. PacketBytes(packet, seq, ack, c, flags, data)
    <2>1. packet = Header(seq, ack, c, Len(data), flags) \o data
      BY DEF pack_packet, c, zero
    <2> QED
      BY <1>4, <2>1, PacketLayout
  <1> HIDE DEF packet
  <1>6. /\ packet \in Seq(Int) /\ Len(packet) = 13 + Len(data)
        /\ packet[9] * 256 + packet[10] = c
    <2>1. packet[9] = c \div 256 /\ packet[10] = c % 256
      BY <1>5 DEF PacketBytes, HeaderBytes
    <2>2. (c \div 256) * 256 + (c % 256) = c
      BY <1>4, HighAndLow
    <2>3. packet[9] * 256 + packet[10] = c
      BY <2>1, <2>2
    <2> QED
      BY <2>3, <1>5 DEF PacketBytes
  <1>a. \A i \in 1..Len(packet) : i \notin {9, 10} => packet[i] = zero[i]
    BY <1>0, <1>5, PacketsAlike
  <1>7. Words(packet) \in [1..n -> Int] /\ 5 \in 1..n
    <2>1. Len(packet) = Len(zero) /\ 5 \in 1..n
      BY <1>1, <1>6
    <2>2. Words(packet) \in [1..((Len(packet) + 1) \div 2) -> Int]
      BY <1>6, WordsType
    <2> QED
      BY <2>1, <2>2
  <1>8. Words(packet)[5] = Words(zero)[5] + c
    <2>1. Words(packet)[5] = packet[9] * 256 + packet[10]
      BY <1>1, <1>6, <1>7 DEF Words
    <2>2. Words(zero)[5] = zero[9] * 256 + zero[10]
      BY <1>1, <1>7 DEF Words
    <2> QED
      BY <2>1, <2>2, <1>1, <1>4, <1>6
  <1>9. ASSUME NEW i \in 1..n, i # 5 PROVE Words(packet)[i] = Words(zero)[i]
    <2>1. /\ 2 * i - 1 \in 1..Len(packet) /\ 2 * i - 1 \notin {9, 10}
          /\ 2 * i <= Len(packet) => 2 * i \in 1..Len(packet) /\ 2 * i \notin {9, 10}
      BY <1>1, <1>6, <1>9
    <2>2. packet[2 * i - 1] = zero[2 * i - 1] /\ (2 * i <= Len(packet) => packet[2 * i] = zero[2 * i])
      BY <2>1, <1>a
    <2>3. /\ Words(packet)[i] =
               packet[2 * i - 1] * 256 + (IF 2 * i <= Len(packet) THEN packet[2 * i] ELSE 0)
          /\ Words(zero)[i] =
               zero[2 * i - 1] * 256 + (IF 2 * i <= Len(zero) THEN zero[2 * i] ELSE 0)
      BY <1>1, <1>6 DEF Words
    <2>4. Len(packet) = Len(zero)
      BY <1>1, <1>6
    <2> HIDE DEF n
    <2> QED
      BY <2>2, <2>3, <2>4
  <1> HIDE DEF n
  <1>10. OnesSum(Words(packet)) \in Int /\ OnesSum(Words(packet)) - OnesSum(Words(zero)) - c \in Multiples
    <2>1. Differ(Words(packet), Words(zero), n, 5, c)
      BY <1>8, <1>9 DEF Differ
    <2> QED
      BY <1>2, <1>4, <1>7, <2>1, SumChanges
  <1> DEFINE a == OnesSum(Words(packet))
             b == OnesSum(Words(zero))
  <1>11. a \in Int /\ b \in Int /\ a - b - c \in Multiples /\ c = 65535 - b
    BY <1>3, <1>10 DEF compute_checksum, c
  <1> HIDE DEF a, b
  <1>12. (a - b - c) + 65535 = a
    BY <1>4, <1>11, SMT
  <1>13. (a - b - c) + 65535 \in Multiples
    <2>1. \A x \in Multiples : x + 65535 \in Multiples
      BY MultiplesClosed, MultiplesNear, SMT
    <2> QED
      <3> DEFINE y == a - b - c
      <3>1. y \in Multiples
        BY <1>11
      <3> HIDE DEF y
      <3>2. y + 65535 \in Multiples
        BY <2>1, <3>1, SMT
      <3> QED
        BY <3>2, SMT DEF y
  <1>14. a \in Multiples
    BY <1>12, <1>13, SMT
  <1> QED
    BY <1>14, SMT DEF a, packet

(* The bits of a byte, by their weight.                                      *)
Bits == {1, 2, 4, 8, 16, 32, 64, 128}

(* A flipped bit changes the sum by a power of two below 2^16, which the     *)
(* carry at the low end cannot hide.                                         *)
LEMMA FlipNoticed ==
  ASSUME NEW bytes \in Seq(Int), OnesSum(Words(bytes)) \in Multiples,
         NEW i \in 1..Len(bytes), NEW bit \in Bits
  PROVE  ~verify_checksum([bytes EXCEPT ![i] = FlipBit(@, bit)])
  <1> DEFINE flipped == [bytes EXCEPT ![i] = FlipBit(@, bit)]
             n == (Len(bytes) + 1) \div 2
             k == (i + 1) \div 2
             e == FlipBit(bytes[i], bit) - bytes[i]
             d == IF i = 2 * k THEN e ELSE e * 256
  <1>1. bytes[i] \in Int /\ FlipBit(bytes[i], bit) \in Int
    <2>1. bytes[i] \in Int
      BY ElementOfSeq
    <2> QED
      BY <2>1 DEF FlipBit, Bits
  <1>2. e \in Int /\ d \in Int /\ d # 0 /\ -65535 < d /\ d < 65535
    <2>1. e = bit \/ e = -bit
      BY <1>1 DEF FlipBit, Bits
    <2> HIDE DEF e
    <2> QED
      BY <2>1 DEF Bits
  <1>3. /\ flipped \in Seq(Int) /\ Len(flipped) = Len(bytes)
        /\ flipped[i] = bytes[i] + e
        /\ \A j \in 1..Len(bytes) : j # i => flipped[j] = bytes[j]
    <2>1. FlipBit(bytes[i], bit) = bytes[i] + e
      BY <1>1 DEF Bits
    <2> QED
      BY <1>1, <2>1, ExceptSeq
  <1> HIDE DEF flipped, e
  <1>4. k \in 1..n /\ (i = 2 * k \/ i = 2 * k - 1) /\ n \in Nat
    OBVIOUS
  <1>5. Words(bytes) \in [1..n -> Int] /\ Words(flipped) \in [1..n -> Int]
    BY <1>3, WordsType
  <1>6. Words(flipped)[k] = Words(bytes)[k] + d
    <2>1. /\ Words(flipped)[k] =
               flipped[2 * k - 1] * 256 + (IF 2 * k <= Len(bytes) THEN flipped[2 * k] ELSE 0)
          /\ Words(bytes)[k] =
               bytes[2 * k - 1] * 256 + (IF 2 * k <= Len(bytes) THEN bytes[2 * k] ELSE 0)
      BY <1>3, <1>4 DEF Words
    <2>2. CASE i = 2 * k
      <3>1. 2 * k - 1 \in 1..Len(bytes) /\ 2 * k - 1 # i /\ 2 * k <= Len(bytes) /\ d = e
        BY <1>4, <2>2
      <3>2. flipped[2 * k - 1] = bytes[2 * k - 1] /\ flipped[2 * k] = bytes[2 * k] + e
        BY <1>3, <2>2, <3>1
      <3>3. bytes[2 * k - 1] \in Int /\ bytes[2 * k] \in Int
        BY <1>1, <2>2, <3>1, ElementOfSeq
      <3>4. /\ Words(flipped)[k] = bytes[2 * k - 1] * 256 + (bytes[2 * k] + e)
            /\ Words(bytes)[k] = bytes[2 * k - 1] * 256 + bytes[2 * k]
        BY <2>1, <3>1, <3>2
      <3> DEFINE high == bytes[2 * k - 1]  low == bytes[2 * k]
      <3> HIDE DEF k, d, high, low
      <3>5. (high * 256 + (low + e)) = (high * 256 + low) + e
        BY <3>3, <1>2 DEF high, low
      <3> QED
        BY <3>1, <3>4, <3>5 DEF high, low
    <2>3. CASE i = 2 * k - 1
      <3>1. i # 2 * k /\ d = e * 256
        BY <1>4, <2>3
      <3>2. flipped[2 * k - 1] = bytes[2 * k - 1] + e /\ bytes[2 * k - 1] \in Int
        BY <1>1, <1>3, <2>3
      <3>3. 2 * k <= Len(bytes) => flipped[2 * k] = bytes[2 * k] /\ bytes[2 * k] \in Int
        <4>1. 2 * k <= Len(bytes) => 2 * k \in 1..Len(bytes)
          BY <1>4
        <4> QED
          BY <4>1, <3>1, <1>3, ElementOfSeq
      <3> DEFINE high == bytes[2 * k - 1]
                 low == IF 2 * k <= Len(bytes) THEN bytes[2 * k] ELSE 0
      <3>4. low \in Int /\ high \in Int
        BY <3>2, <3>3, <2>3
      <3>5. /\ Words(flipped)[k] = (high + e) * 256 + low
            /\ Words(bytes)[k] = high * 256 + low
        BY <2>1, <2>3, <3>2, <3>3
      <3> HIDE DEF k, d, high, low
      <3> QED
        BY <1>2, <3>1, <3>4, <3>5
    <2> QED
      BY <1>4, <2>2, <2>3
  <1>7. ASSUME NEW j \in 1..n, j # k PROVE Words(flipped)[j] = Words(bytes)[j]
    <2>1. /\ 2 * j - 1 \in 1..Len(bytes) /\ 2 * j - 1 # i
          /\ 2 * j <= Len(bytes) => 2 * j \in 1..Len(bytes) /\ 2 * j # i
      BY <1>4, <1>7
    <2>2. /\ flipped[2 * j - 1] = bytes[2 * j - 1]
          /\ 2 * j <= Len(bytes) => flipped[2 * j] = bytes[2 * j]
      BY <1>3, <2>1
    <2> QED
      BY <2>2, <1>3 DEF Words
  <1> HIDE DEF n, k, d
  <1> DEFINE a == OnesSum(Words(flipped))
             b == OnesSum(Words(bytes))
  <1>8. a \in Int /\ b \in Int /\ a - b - d \in Multiples
    <2>1. Differ(Words(flipped), Words(bytes), n, k, d)
      BY <1>6, <1>7 DEF Differ
    <2>2. /\ OnesSum(Words(flipped)) \in Int /\ OnesSum(Words(bytes)) \in Int
          /\ OnesSum(Words(flipped)) - OnesSum(Words(bytes)) - d \in Multiples
      <3>1. n \in Nat /\ k \in 1..n /\ d \in Int
        BY <1>2, <1>4
      <3> QED
        BY <1>5, <2>1, <3>1, SumChanges
    <2> QED
      BY <2>2
  <1>9. b \in Multiples
    OBVIOUS
  <1>10. verify_checksum(flipped) => a = 65535
    <2>1. verify_checksum(flipped) <=> 65535 - a = 0
      BY DEF verify_checksum, compute_checksum
    <2> HIDE DEF a
    <2> QED
      BY <2>1, <1>8, SMT
  <1> HIDE DEF a, b
  <1> SUFFICES ASSUME verify_checksum(flipped) PROVE FALSE
    BY DEF flipped
  <1>11. a \in Multiples
    BY <1>10, MultiplesNear, SMT
  <1> DEFINE x == a - b - d
             y == a - b
  <1>12. x \in Multiples /\ y \in Multiples
    BY <1>8, <1>9, <1>11, MultiplesClosed
  <1>13. y - x = d
    BY <1>2, <1>8, SMT
  <1> HIDE DEF x, y
  <1>14. d \in Multiples
    BY <1>12, <1>13, MultiplesClosed
  <1> QED
    BY <1>2, <1>14, MultiplesNear, SMT

(* A front of a packet has not the length that its header says.              *)
LEMMA FrontNoticed ==
  ASSUME NEW seq, NEW ack, NEW c, NEW flags, NEW data \in Seq(Int), NEW packet,
         PacketBytes(packet, seq, ack, c, flags, data), NEW n \in 0..(Len(packet) - 1)
  PROVE  ~CanUnpack(SubSeq(packet, 1, n))
  <1> DEFINE front == SubSeq(packet, 1, n)
  <1> SUFFICES ASSUME n >= 13, CanUnpack(front) PROVE FALSE
    <2>1. Len(front) = n
      BY DEF PacketBytes
    <2> QED
      BY <2>1 DEF CanUnpack, HEADER_SIZE
  <1>1. Len(front) = n /\ front[11] = packet[11] /\ front[12] = packet[12]
    BY DEF PacketBytes
  <1>2. Len(data) \in Nat /\ n - 13 < Len(data)
    BY DEF PacketBytes
  <1>3. packet[11] * 256 + packet[12] = Len(data)
    <2>1. packet[11] = Len(data) \div 256 /\ packet[12] = Len(data) % 256
      BY DEF PacketBytes, HeaderBytes
    <2> QED
      BY <2>1, <1>2, HighAndLow
  <1>4. front[11] * 256 + front[12] = n - 13
    BY <1>1 DEF CanUnpack, HEADER_SIZE
  <1> HIDE DEF front
  <1> QED
    BY <1>1, <1>2, <1>3, <1>4

(* A number at a place of a packet.                                          *)
HoldsFour(bytes, m, n) ==
  /\ m + 3 <= Len(bytes) /\ bytes[m] = 0 /\ bytes[m + 1] = 0
  /\ bytes[m + 2] = n \div 256 /\ bytes[m + 3] = n % 256

LEMMA FourBytesOf ==
  ASSUME NEW bytes \in Seq(Int), NEW m \in Nat \ {0}, NEW n \in Int, HoldsFour(bytes, m, n)
  PROVE  SubSeq(bytes, m, m + 3) = FourBytes(n)
  <1> DEFINE part == SubSeq(bytes, m, m + 3)
  <1>1. m \in 1..(Len(bytes) + 1) /\ m + 3 \in (m - 1)..Len(bytes) /\ (m + 3) - m + 1 = 4
    BY DEF HoldsFour
  <1>2. /\ part \in Seq(Int) /\ Len(part) = (m + 3) - m + 1
        /\ \A i \in 1..((m + 3) - m + 1) : part[i] = bytes[m + i - 1]
    BY <1>1, Slice
  <1> HIDE DEF part
  <1>3. /\ part \in Seq(Int) /\ Len(part) = 4
        /\ part[1] = bytes[m] /\ part[2] = bytes[m + 1]
        /\ part[3] = bytes[m + 2] /\ part[4] = bytes[m + 3]
    <2>1. \A i \in 1..4 : part[i] = bytes[m + i - 1]
      BY <1>1, <1>2
    <2>2. m + 1 - 1 = m /\ m + 2 - 1 = m + 1 /\ m + 3 - 1 = m + 2 /\ m + 4 - 1 = m + 3
      OBVIOUS
    <2>3. part[1] = bytes[m + 1 - 1] /\ part[2] = bytes[m + 2 - 1]
          /\ part[3] = bytes[m + 3 - 1] /\ part[4] = bytes[m + 4 - 1]
      BY <2>1
    <2> QED
      BY <1>1, <1>2, <2>2, <2>3
  <1>4. /\ FourBytes(n) \in Seq(Int) /\ Len(FourBytes(n)) = 4
        /\ FourBytes(n)[1] = 0 /\ FourBytes(n)[2] = 0
        /\ FourBytes(n)[3] = n \div 256 /\ FourBytes(n)[4] = n % 256
    BY DEF FourBytes
  <1> DEFINE four == FourBytes(n)
  <1>5. four \in Seq(Int) /\ Len(part) = Len(four)
    BY <1>3, <1>4
  <1>6. \A i \in 1..Len(part) : part[i] = four[i]
    <2>1. part[1] = four[1] /\ part[2] = four[2] /\ part[3] = four[3] /\ part[4] = four[4]
      BY <1>3, <1>4 DEF HoldsFour
    <2>2. \A i \in 1..4 : i = 1 \/ i = 2 \/ i = 3 \/ i = 4
      OBVIOUS
    <2> HIDE DEF four
    <2> QED
      BY <1>3, <2>1, <2>2
  <1> HIDE DEF four
  <1>7. part = four
    BY <1>3, <1>5, <1>6, SeqEqual
  <1> QED
    BY <1>7 DEF part, four

(* A packet is unpacked to what was packed.                                  *)
LEMMA Unpacked ==
  ASSUME NEW seq \in Int, NEW ack \in Int, NEW c, NEW flags, NEW data \in Seq(Int),
         NEW packet, PacketBytes(packet, seq, ack, c, flags, data)
  PROVE  unpack_packet(packet) =
           [seq |-> FourBytes(seq), ack |-> FourBytes(ack), flags |-> flags, payload |-> data]
  <1>0. packet \in Seq(Int) /\ Len(packet) = 13 + Len(data) /\ Len(data) \in Nat
    BY DEF PacketBytes
  <1>1. SubSeq(packet, 1, 4) = FourBytes(seq)
    <2>1. packet[1] = 0 /\ packet[2] = 0 /\ packet[3] = seq \div 256 /\ packet[4] = seq % 256
      BY DEF PacketBytes, HeaderBytes
    <2>2. 1 \in Nat \ {0} /\ 1 + 3 <= Len(packet) /\ 1 + 1 = 2 /\ 1 + 2 = 3 /\ 1 + 3 = 4
      BY <1>0
    <2>3. HoldsFour(packet, 1, seq)
      BY <2>1, <2>2 DEF HoldsFour
    <2>4. SubSeq(packet, 1, 1 + 3) = FourBytes(seq)
      BY <1>0, <2>2, <2>3, FourBytesOf
    <2> QED
      BY <2>2, <2>4
  <1>2. SubSeq(packet, 5, 8) = FourBytes(ack)
    <2>1. packet[5] = 0 /\ packet[6] = 0 /\ packet[7] = ack \div 256 /\ packet[8] = ack % 256
      BY DEF PacketBytes, HeaderBytes
    <2>2. 5 \in Nat \ {0} /\ 5 + 3 <= Len(packet) /\ 5 + 1 = 6 /\ 5 + 2 = 7 /\ 5 + 3 = 8
      BY <1>0
    <2>3. HoldsFour(packet, 5, ack)
      BY <2>1, <2>2 DEF HoldsFour
    <2>4. SubSeq(packet, 5, 5 + 3) = FourBytes(ack)
      BY <1>0, <2>2, <2>3, FourBytesOf
    <2> QED
      BY <2>2, <2>4
  <1>3. SubSeq(packet, 14, Len(packet)) = data
    <2>1. /\ SubSeq(packet, 14, Len(packet)) \in Seq(Int)
          /\ Len(SubSeq(packet, 14, Len(packet))) = Len(data)
      <3>1. \A i \in 14..Len(packet) : packet[i] \in Int
        BY <1>0, ElementOfSeq
      <3>2. 14 \in Int /\ Len(packet) \in Int
        BY <1>0
      <3>3. /\ SubSeq(packet, 14, Len(packet)) \in Seq(Int)
            /\ Len(SubSeq(packet, 14, Len(packet))) =
                 IF 14 <= Len(packet) THEN Len(packet) - 14 + 1 ELSE 0
        BY <3>1, <3>2, SubSeqProperties
      <3> QED
        BY <3>3, <1>0
    <2>2. ASSUME NEW i \in 1..Len(data) PROVE SubSeq(packet, 14, Len(packet))[i] = data[i]
      <3>1. packet[13 + i] = data[i]
        BY DEF PacketBytes
      <3>2. SubSeq(packet, 14, Len(packet))[i] = packet[14 + i - 1] /\ 14 + i - 1 = 13 + i
        BY <1>0
      <3> QED
        BY <3>1, <3>2
    <2> QED
      BY <2>1, <2>2, SeqEqual
  <1>4. packet[13] = flags
    BY DEF PacketBytes, HeaderBytes
  <1> QED
    BY <1>1, <1>2, <1>3, <1>4 DEF unpack_packet

LEMMA PackedLayout ==
  ASSUME NEW seq \in Int, NEW ack \in Int, NEW flags \in Int, NEW data \in Seq(Int)
  PROVE  \E c \in Int : PacketBytes(pack_packet(seq, ack, flags, data), seq, ack, c, flags, data)
  <1> DEFINE c == compute_checksum(Header(seq, ack, 0, Len(data), flags) \o data)
             packet == pack_packet(seq, ack, flags, data)
  <1>1. c \in Int
    BY ChecksumType
  <1>2. packet = Header(seq, ack, c, Len(data), flags) \o data
    BY DEF pack_packet
  <1> HIDE DEF packet, c
  <1>3. PacketBytes(packet, seq, ack, c, flags, data)
    BY <1>1, <1>2, PacketLayout
  <1> QED
    BY <1>1, <1>3 DEF packet

LEMMA BitsOfBytes == BitsFlipped \subseteq Bits
  BY PathAssumption DEF Bits

(* What the network may make of a packet and the receiver may still take.    *)
LEMMA Taken ==
  ASSUME NEW seq \in Int, NEW data \in Seq(Int),
         NEW packet, packet = pack_packet(seq, 0, FLAG_DATA, data),
         NEW bytes \in {packet} \cup Damaged(packet),
         verify_checksum(bytes), CanUnpack(bytes)
  PROVE  unpack_packet(bytes) = [seq |-> FourBytes(seq), ack |-> FourBytes(0),
                                 flags |-> FLAG_DATA, payload |-> data]
  <1>0. 0 \in Int /\ FLAG_DATA \in Int
    BY DEF FLAG_DATA
  <1>1. OnesSum(Words(packet)) \in Multiples
    BY <1>0, PackedSum
  <1>2. PICK c \in Int : PacketBytes(packet, seq, 0, c, FLAG_DATA, data)
    BY <1>0, PackedLayout
  <1>3. packet \in Seq(Int)
    BY <1>2 DEF PacketBytes
  <1>4. ASSUME NEW i \in 1..Len(packet), NEW bit \in BitsFlipped,
               bytes = [packet EXCEPT ![i] = FlipBit(@, bit)]
        PROVE  FALSE
    <2>1. bit \in Bits
      BY BitsOfBytes
    <2>2. ~verify_checksum([packet EXCEPT ![i] = FlipBit(@, bit)])
      BY <1>1, <1>3, <2>1, FlipNoticed
    <2> QED
      BY <1>4, <2>2
  <1>5. ASSUME NEW n \in 0..(Len(packet) - 1), bytes = SubSeq(packet, 1, n) PROVE FALSE
    <2>1. ~CanUnpack(SubSeq(packet, 1, n))
      BY <1>2, FrontNoticed
    <2> QED
      BY <1>5, <2>1
  <1>6. bytes = packet
    BY <1>4, <1>5 DEF Damaged
  <1> QED
    BY <1>0, <1>2, <1>6, Unpacked

-----------------------------------------------------------------------------
(* Chunks *)

LEMMA Products ==
  ASSUME NEW a \in Nat, NEW b \in Nat, NEW m \in Nat
  PROVE  /\ a * m \in Nat /\ (a + 1) * m = a * m + m
         /\ a <= b => a * m <= b * m
  <1>1. ASSUME a <= b PROVE a * m <= b * m
    <2>1. b - a \in Nat
      BY <1>1
    <2>2. (b - a) * m \in Nat /\ (b - a) * m = b * m - a * m
      BY <2>1, SMT
    <2> QED
      BY <2>2, SMT
  <1> QED
    BY <1>1, SMT

LEMMA UpperBoundCovers ==
  ASSUME NEW n \in Nat, NEW size \in Nat \ {0}
  PROVE  /\ UpperBound(n, size) \in Nat
         /\ n <= UpperBound(n, size) * size
         /\ n # 0 => UpperBound(n, size) # 0 /\ (UpperBound(n, size) - 1) * size <= n
  <1> DEFINE u == (n + size - 1) \div size
             r == (n + size - 1) % size
  <1>1. u \in Int /\ r \in 0..(size - 1) /\ n + size - 1 = size * u + r
    BY SMT
  <1> HIDE DEF u, r
  <1>2. u \in Nat
    <2>1. size * u > -size
      BY <1>1, SMT
    <2> SUFFICES ASSUME u <= -1 PROVE FALSE
      BY <1>1
    <2>2. -u - 1 \in Nat
      BY <1>1
    <2>3. size * (-u - 1) \in Nat /\ size * (-u - 1) = -(size * u) - size
      BY <2>2, <1>1, SMT
    <2> QED
      BY <2>1, <2>3, <1>1, SMT
  <1>3. n <= u * size
    BY <1>1, <1>2, SMT
  <1>4. ASSUME n # 0 PROVE u # 0 /\ (u - 1) * size <= n
    <2>1. u # 0
      BY <1>1, <1>4, SMT
    <2>2. (u - 1) * size = size * u - size
      BY <1>1, SMT
    <2> QED
      BY <1>1, <2>1, <2>2, SMT
  <1> QED
    BY <1>2, <1>3, <1>4 DEF UpperBound, u

(* The place at which the k-th chunk ends.                                   *)
Cut(n, size, k) == IF k * size < n THEN k * size ELSE n

LEMMA ChunkSlice ==
  ASSUME NEW S, NEW data \in Seq(S), NEW size \in Nat \ {0}, NEW k \in Nat \ {0}
  PROVE  /\ Chunk(data, size, k) \in Seq(S) /\ Len(Chunk(data, size, k)) <= size
         /\ (k - 1) * size <= Len(data) =>
              /\ Chunk(data, size, k) = SubSeq(data, Cut(Len(data), size, k - 1) + 1, Cut(Len(data), size, k))
              /\ Cut(Len(data), size, k - 1) \in 0..Cut(Len(data), size, k)
              /\ Cut(Len(data), size, k) \in 0..Len(data)
  <1> DEFINE n == Len(data)  lo == (k - 1) * size  hi == k * size
  <1>1. n \in Nat /\ lo \in Nat /\ hi = lo + size
    <2>1. k - 1 \in Nat /\ (k - 1) + 1 = k
      OBVIOUS
    <2> QED
      BY <2>1, Products
  <1>2. /\ Chunk(data, size, k) = SubSeq(data, lo + 1, IF hi < n THEN hi ELSE n)
        /\ Cut(n, size, k - 1) = (IF lo < n THEN lo ELSE n)
        /\ Cut(n, size, k) = (IF hi < n THEN hi ELSE n)
    BY DEF Chunk, Cut
  <1> HIDE DEF lo, hi
  <1>3. CASE lo <= n
    <2>1. /\ lo + 1 \in 1..(n + 1)
          /\ (IF hi < n THEN hi ELSE n) \in ((lo + 1) - 1)..n
      BY <1>1, <1>3
    <2>2. Chunk(data, size, k) \in Seq(S) /\ Len(Chunk(data, size, k)) <= size
      <3> DEFINE b == IF hi < n THEN hi ELSE n
      <3>1. b \in ((lo + 1) - 1)..n /\ b - (lo + 1) + 1 <= size
        BY <1>1, <2>1
      <3> HIDE DEF b
      <3>2. SubSeq(data, lo + 1, b) \in Seq(S) /\ Len(SubSeq(data, lo + 1, b)) = b - (lo + 1) + 1
        BY <2>1, <3>1, Slice
      <3> QED
        BY <1>2, <3>1, <3>2 DEF b
    <2>3. (IF lo < n THEN lo ELSE n) = lo
      BY <1>1, <1>3
    <2>4. /\ Cut(n, size, k - 1) = lo /\ Cut(n, size, k - 1) \in 0..Cut(n, size, k)
          /\ Cut(n, size, k) \in 0..n
      BY <1>1, <1>2, <1>3, <2>3
    <2> QED
      BY <1>2, <2>2, <2>4
  <1>4. CASE ~(lo <= n)
    <2>1. lo + 1 \in Int /\ (IF hi < n THEN hi ELSE n) \in Int /\ (IF hi < n THEN hi ELSE n) < lo + 1
      BY <1>1, <1>4
    <2>2. Chunk(data, size, k) = <<>>
      BY <1>2, <2>1, SubSeqEmpty
    <2> QED
      BY <1>4, <2>2 DEF lo
  <1> QED
    BY <1>3, <1>4

(* The chunks, one after the other, are the data again.                      *)
LEMMA ChunksFlatten ==
  ASSUME NEW S, NEW data \in Seq(S), NEW size \in Nat \ {0}, NEW n \in Nat \ {0},
         (n - 1) * size <= Len(data), Len(data) <= n * size
  PROVE  /\ Pieces(S, n, [k \in 1..n |-> Chunk(data, size, k)])
         /\ FlattenSeq([k \in 1..n |-> Chunk(data, size, k)]) = data
  <1> DEFINE ss == [k \in 1..n |-> Chunk(data, size, k)]
             l == Len(data)
             f == [k \in 0..n |-> SubSeq(data, 1, Cut(l, size, k))]
  <1>0. l \in Nat /\ n \in Nat /\ n \in 0..n
    OBVIOUS
  <1>1. ASSUME NEW k \in 1..n
        PROVE  /\ Chunk(data, size, k) \in Seq(S)
               /\ Chunk(data, size, k) = SubSeq(data, Cut(l, size, k - 1) + 1, Cut(l, size, k))
               /\ Cut(l, size, k - 1) \in 0..Cut(l, size, k)
               /\ Cut(l, size, k) \in 0..l
    <2>1. k - 1 \in Nat /\ n - 1 \in Nat /\ k - 1 <= n - 1 /\ k \in Nat \ {0}
      OBVIOUS
    <2>2. (k - 1) * size \in Nat /\ (n - 1) * size \in Nat /\ (k - 1) * size <= (n - 1) * size
      BY <2>1, Products
    <2>3. (k - 1) * size <= l
      BY <1>0, <2>2
    <2> QED
      BY <2>1, <2>3, ChunkSlice
  <1>2. Cut(l, size, 0) = 0 /\ Cut(l, size, n) = l
    <2>1. 0 * size = 0 /\ n * size \in Nat
      BY Products, SMT
    <2> QED
      BY <1>0, <2>1 DEF Cut
  <1>3. Pieces(S, n, ss)
    BY <1>0, <1>1 DEF Pieces
  <1>4. Partial(S, n, ss, f)
    <2>1. f[0] = <<>>
      <3>1. SubSeq(data, 1, 0) = <<>>
        BY SubSeqEmpty
      <3> QED
        BY <1>2, <3>1
    <2>2. ASSUME NEW k \in 1..n PROVE f[k] = f[k - 1] \o ss[k]
      <3> DEFINE a == Cut(l, size, k - 1)  b == Cut(l, size, k)
      <3>1. a \in 0..b /\ b \in 0..l /\ ss[k] = SubSeq(data, a + 1, b)
        BY <1>1
      <3>2. k \in 0..n /\ k - 1 \in 0..n
        OBVIOUS
      <3>3. f[k] = SubSeq(data, 1, b) /\ f[k - 1] = SubSeq(data, 1, a)
        BY <3>2
      <3> HIDE DEF a, b
      <3>4. SubSeq(data, 1, a) \o SubSeq(data, a + 1, b) = SubSeq(data, 1, b)
        <4>1. 1 \in 1..(l + 1) /\ a \in (1 - 1)..l /\ b \in a..l
          BY <1>0, <3>1
        <4> QED
          BY <4>1, ConcatAdjacentSubSeq
      <3> QED
        BY <3>1, <3>3, <3>4
    <2>3. ASSUME NEW k \in 0..n PROVE f[k] \in Seq(S)
      <3>1. Cut(l, size, k) \in 0..l
        <4>1. CASE k = 0
          <5>1. 0 \in 0..l
            BY <1>0
          <5> QED
            BY <1>2, <4>1, <5>1
        <4>2. CASE k \in 1..n
          BY <1>1, <4>2
        <4> QED
          BY <4>1, <4>2
      <3>2. 1 \in 1..(l + 1) /\ Cut(l, size, k) \in (1 - 1)..l
        BY <1>0, <3>1
      <3> QED
        BY <3>2, Slice
    <2> QED
      BY <2>1, <2>2, <2>3 DEF Partial
  <1>5. f[n] = data
    <2>1. f[n] = SubSeq(data, 1, l)
      BY <1>0, <1>2
    <2> QED
      BY <2>1, SubSeqFull
  <1> HIDE DEF ss, f, l
  <1>6. FlattenSeq(ss) = f[n]
    BY <1>3, <1>4, FlattenIsPartial
  <1> QED
    BY <1>3, <1>5, <1>6 DEF ss

-----------------------------------------------------------------------------
(* MODE B *)

Byte == 0..255

LEMMA Bytes ==
  /\ \A b \in Byte : b \in Nat /\ b \in Int
  /\ \A a, b \in Byte : a * 256 + b \in Nat
  <1>1. ASSUME NEW a \in Byte, NEW b \in Byte PROVE a \in Nat /\ b \in Nat /\ a * 256 + b \in Nat
    BY SMT DEF Byte
  <1> QED
    BY <1>1

LEMMA NotInvalid ==
  ASSUME NEW data \in Seq(Byte)
  PROVE  data # Invalid
  <1> SUFFICES ASSUME data = Invalid PROVE FALSE
    OBVIOUS
  <1>1. Len(data) = 1 /\ data[1] = -1
    BY DEF Invalid
  <1>2. data[1] \in Byte
    BY <1>1, ElementOfSeq
  <1> QED
    BY <1>1, <1>2 DEF Byte

(* The length fits the two bytes of a block's header.                        *)
Short(block) == Len(block) \div 256 <= 255

LEMMA LengthBytes ==
  ASSUME NEW c \in Seq(Byte), Short(c)
  PROVE  /\ Len(c) \div 256 \in Byte /\ Len(c) % 256 \in Byte
         /\ (Len(c) \div 256) * 256 + (Len(c) % 256) = Len(c)
  <1> DEFINE n == Len(c)
  <1>1. n \in Nat /\ n \in Int /\ n \div 256 <= 255
    BY DEF Short
  <1> HIDE DEF n
  <1>2. n \div 256 \in 0..255 /\ n % 256 \in 0..255
    BY <1>1, SMT
  <1>3. n \div 256 \in Byte /\ n % 256 \in Byte
    BY <1>2 DEF Byte
  <1> QED
    BY <1>1, <1>3, HighAndLow DEF n

(* What the loop of decode_blocks returns from an offset.                    *)
DecodeFrom(framed, from, offset) ==
  IF Len(framed) - offset < 3 THEN Invalid
  ELSE LET descriptor == framed[offset + 1]
           length == framed[offset + 2] * 256 + framed[offset + 3]
           end == offset + 3 + length
           block == SubSeq(framed, offset + 4, end)
           ending == {BLOCK_DESCRIPTOR_EOF, BLOCK_DESCRIPTOR_EOF + BLOCK_DESCRIPTOR_EOR}
       IN IF descriptor \notin {0} \cup ending \cup {BLOCK_DESCRIPTOR_EOR} \/ end > Len(framed)
            THEN Invalid
          ELSE IF descriptor \in ending
            THEN IF end = Len(framed) THEN block ELSE Invalid
          ELSE IF from[end] = Invalid THEN Invalid ELSE block \o from[end]

Decodes(framed, first, from) ==
  \A offset \in first..Len(framed) : from[offset] = DecodeFrom(framed, from, offset)

(* Only what follows the offset matters.                                     *)
LEMMA DecodeFromLater ==
  ASSUME NEW framed \in Seq(Byte), NEW f, NEW g, NEW offset \in 0..Len(framed),
         \A x \in (offset + 1)..Len(framed) : f[x] = g[x]
  PROVE  DecodeFrom(framed, f, offset) = DecodeFrom(framed, g, offset)
  <1> DEFINE end == offset + 3 + (framed[offset + 2] * 256 + framed[offset + 3])
  <1>1. ASSUME ~(Len(framed) - offset < 3), ~(end > Len(framed)) PROVE f[end] = g[end]
    <2>1. offset + 2 \in 1..Len(framed) /\ offset + 3 \in 1..Len(framed)
      BY <1>1
    <2>2. framed[offset + 2] \in Byte /\ framed[offset + 3] \in Byte
      BY <2>1, ElementOfSeq
    <2>3. framed[offset + 2] * 256 + framed[offset + 3] \in Nat
      BY <2>2, Bytes
    <2>4. end \in (offset + 1)..Len(framed)
      BY <1>1, <2>3
    <2> QED
      BY <2>4
  <1> QED
    BY <1>1 DEF DecodeFrom

LEMMA DecodeExists ==
  ASSUME NEW framed \in Seq(Byte)
  PROVE  \E from : Decodes(framed, 0, from) /\ DecodeBlocks(framed) = from[0]
  <1> DEFINE n == Len(framed)
             T == {k \in 0..n : \E f : Decodes(framed, n - k, f)}
             Loop(f) == [offset \in 0..n |-> DecodeFrom(framed, f, offset)]
  <1>0. n \in Nat
    OBVIOUS
  <1>1. 0 \in T
    <2> DEFINE f == [x \in {n} |-> Invalid]
    <2>1. DecodeFrom(framed, f, n) = Invalid
      BY <1>0 DEF DecodeFrom
    <2>2. Decodes(framed, n - 0, f)
      BY <1>0, <2>1 DEF Decodes
    <2> HIDE DEF f
    <2> QED
      BY <1>0, <2>2
  <1>2. ASSUME NEW k \in 0..(n - 1), k \in T PROVE k + 1 \in T
    <2> DEFINE m == n - (k + 1)
    <2>1. m \in 0..n /\ m + 1 = n - k /\ k + 1 \in 0..n
      BY <1>0
    <2>2. PICK f : Decodes(framed, m + 1, f)
      BY <1>2, <2>1
    <2> HIDE DEF m
    <2> DEFINE g == [x \in m..n |-> IF x = m THEN DecodeFrom(framed, f, m) ELSE f[x]]
    <2>3. \A x \in (m + 1)..n : g[x] = f[x]
      BY <1>0, <2>1
    <2>4. g[m] = DecodeFrom(framed, f, m)
      BY <1>0, <2>1
    <2> HIDE DEF g
    <2>5. ASSUME NEW x \in m..n PROVE g[x] = DecodeFrom(framed, g, x)
      <3>1. x \in 0..Len(framed) /\ \A y \in (x + 1)..n : y \in (m + 1)..n
        BY <1>0, <2>1
      <3>2. \A y \in (x + 1)..n : g[y] = f[y]
        BY <2>3, <3>1
      <3>3. DecodeFrom(framed, g, x) = DecodeFrom(framed, f, x)
        BY <3>1, <3>2, DecodeFromLater
      <3>4. x = m \/ x \in (m + 1)..n
        BY <1>0, <2>1
      <3>5. f[x] = DecodeFrom(framed, f, x) \/ x = m
        BY <2>2, <3>4 DEF Decodes
      <3> QED
        BY <2>3, <2>4, <3>3, <3>4, <3>5
    <2>6. Decodes(framed, m, g)
      BY <2>5 DEF Decodes
    <2> QED
      BY <2>1, <2>6 DEF m
  <1> HIDE DEF T
  <1>3. \A k \in 0..n : k \in T
    BY <1>0, <1>1, <1>2, Upwards
  <1>4. PICK f : Decodes(framed, 0, f)
    <2>1. n \in T /\ n - n = 0
      BY <1>0, <1>3
    <2> QED
      BY <2>1 DEF T
  <1> DEFINE h == [x \in 0..n |-> f[x]]
             from == CHOOSE g : g = Loop(g)
  <1>5. h = Loop(h)
    <2>1. ASSUME NEW x \in 0..n PROVE h[x] = DecodeFrom(framed, h, x)
      <3>1. \A y \in (x + 1)..n : h[y] = f[y]
        BY <1>0
      <3>2. h[x] = f[x] /\ f[x] = DecodeFrom(framed, f, x)
        BY <1>4 DEF Decodes
      <3> HIDE DEF h
      <3>3. DecodeFrom(framed, h, x) = DecodeFrom(framed, f, x)
        BY <3>1, DecodeFromLater
      <3> QED
        BY <3>2, <3>3
    <2> QED
      BY <2>1
  <1>6. from = Loop(from)
    <2> HIDE DEF h, Loop
    <2> QED
      BY <1>5
  <1> HIDE DEF from
  <1>7. Decodes(framed, 0, from)
    BY <1>6 DEF Decodes
  <1>8. DecodeBlocks(framed) = from[0]
    BY DEF DecodeBlocks, DecodeFrom, from
  <1> QED
    BY <1>7, <1>8

(* A file in blocks, each a header and a payload; the last one has EOF.      *)
Blocks(n, cc, ss) ==
  /\ n \in Nat \ {0} /\ Pieces(Byte, n, cc)
  /\ \A k \in 1..n : Short(cc[k])
  /\ ss = [k \in 1..n |->
       BlockHeader(IF k = n THEN BLOCK_DESCRIPTOR_EOF ELSE 0, Len(cc[k])) \o cc[k]]

LEMMA BlockBytes ==
  ASSUME NEW d \in {0, BLOCK_DESCRIPTOR_EOF}, NEW c \in Seq(Byte), Short(c)
  PROVE  LET b == BlockHeader(d, Len(c)) \o c
         IN /\ b \in Seq(Byte) /\ Len(b) = 3 + Len(c)
            /\ b[1] = d /\ b[2] * 256 + b[3] = Len(c)
            /\ \A i \in 1..Len(c) : b[3 + i] = c[i]
  <1> DEFINE l == Len(c)  h == BlockHeader(d, l)  b == h \o c
  <1>0. Len(c) = l
    OBVIOUS
  <1>1. l \div 256 \in Byte /\ l % 256 \in Byte /\ (l \div 256) * 256 + (l % 256) = l
    BY LengthBytes
  <1> HIDE DEF l
  <1>2. d \in Byte
    BY DEF Byte, BLOCK_DESCRIPTOR_EOF
  <1>3. /\ h \in Seq(Byte) /\ Len(h) = 3
        /\ h[1] = d /\ h[2] = l \div 256 /\ h[3] = l % 256
    BY <1>1, <1>2 DEF BlockHeader
  <1> HIDE DEF h
  <1>4. b \in Seq(Byte) /\ Parts(b, h, c, 3, l)
    BY <1>0, <1>3, ConcatParts
  <1>5. /\ b[1] = d /\ b[2] = l \div 256 /\ b[3] = l % 256 /\ Len(b) = 3 + l
        /\ \A i \in 1..l : b[3 + i] = c[i]
    <2>1. Len(b) = 3 + l /\ (\A i \in 1..3 : b[i] = h[i]) /\ \A i \in 1..l : b[3 + i] = c[i]
      BY <1>4 DEF Parts
    <2>2. b[1] = h[1] /\ b[2] = h[2] /\ b[3] = h[3]
      <3>1. 1 \in 1..3 /\ 2 \in 1..3 /\ 3 \in 1..3
        OBVIOUS
      <3> QED
        BY <2>1, <3>1
    <2> QED
      BY <1>3, <2>1, <2>2
  <1> HIDE DEF b
  <1>6. b[2] * 256 + b[3] = l
    BY <1>1, <1>5
  <1> QED
    BY <1>4, <1>5, <1>6 DEF b, h, l

LEMMA BlocksType ==
  ASSUME NEW n, NEW cc, NEW ss, Blocks(n, cc, ss)
  PROVE  /\ Pieces(Byte, n, cc) /\ Pieces(Byte, n, ss)
         /\ \A k \in 1..n : /\ cc[k] \in Seq(Byte) /\ Len(ss[k]) = 3 + Len(cc[k])
                            /\ ss[k][1] = (IF k = n THEN BLOCK_DESCRIPTOR_EOF ELSE 0)
                            /\ ss[k][2] * 256 + ss[k][3] = Len(cc[k])
                            /\ \A i \in 1..Len(cc[k]) : ss[k][3 + i] = cc[k][i]
  <1>1. ASSUME NEW k \in 1..n
        PROVE  /\ cc[k] \in Seq(Byte) /\ ss[k] \in Seq(Byte) /\ Len(ss[k]) = 3 + Len(cc[k])
               /\ ss[k][1] = (IF k = n THEN BLOCK_DESCRIPTOR_EOF ELSE 0)
               /\ ss[k][2] * 256 + ss[k][3] = Len(cc[k])
               /\ \A i \in 1..Len(cc[k]) : ss[k][3 + i] = cc[k][i]
    <2> DEFINE d == IF k = n THEN BLOCK_DESCRIPTOR_EOF ELSE 0
               c == cc[k]
    <2>1. d \in {0, BLOCK_DESCRIPTOR_EOF} /\ c \in Seq(Byte) /\ Short(c)
      BY DEF Blocks, Pieces
    <2>2. ss[k] = BlockHeader(d, Len(c)) \o c
      BY DEF Blocks
    <2> HIDE DEF d, c
    <2> DEFINE b == BlockHeader(d, Len(c)) \o c
    <2>3. /\ b \in Seq(Byte) /\ Len(b) = 3 + Len(c)
          /\ b[1] = d /\ b[2] * 256 + b[3] = Len(c)
          /\ \A i \in 1..Len(c) : b[3 + i] = c[i]
      BY <2>1, BlockBytes
    <2> HIDE DEF b
    <2>4. ss[k] = b
      BY <2>2 DEF b
    <2> QED
      BY <2>1, <2>3, <2>4 DEF c, d
  <1>2. Pieces(Byte, n, ss)
    <2>1. n \in Nat /\ ss = [k \in 1..n |-> ss[k]]
      BY Zenon DEF Blocks
    <2> QED
      BY <1>1, <2>1 DEF Pieces
  <1>3. Pieces(Byte, n, cc)
    BY Zenon DEF Blocks
  <1> QED
    BY <1>1, <1>2, <1>3

(* Where a block lies in the stream.                                         *)
LiesAt(n, cc, f, k) ==
  LET o == Len(f[k])
      e == Len(f[k + 1])
      c == cc[k + 1]
  IN /\ o \in Nat /\ e \in Nat /\ c \in Seq(Byte)
     /\ e = o + 3 + Len(c) /\ e <= Len(f[n])
     /\ f[n][o + 1] = (IF k + 1 = n THEN BLOCK_DESCRIPTOR_EOF ELSE 0)
     /\ f[n][o + 2] * 256 + f[n][o + 3] = Len(c)
     /\ SubSeq(f[n], o + 4, e) = c

LEMMA BlocksLie ==
  ASSUME NEW n, NEW cc, NEW ss, NEW f, Blocks(n, cc, ss), Partial(Byte, n, ss, f),
         NEW k \in 0..(n - 1)
  PROVE  LiesAt(n, cc, f, k)
  <1> DEFINE a == f[k]  b == f[k + 1]  w == f[n]  s == ss[k + 1]  c == cc[k + 1]
             o == Len(a)  e == Len(b)
  <1>0. Pieces(Byte, n, ss) /\ n \in Nat /\ k + 1 \in 1..n /\ k + 1 \in 0..n
    <2>1. n \in Nat \ {0}
      BY Zenon DEF Blocks
    <2>2. Pieces(Byte, n, ss)
      BY BlocksType
    <2> QED
      BY <2>1, <2>2
  <1>1. Grows(Byte, ss, f, k)
    BY <1>0, PartialStep
  <1>2. a \in Seq(Byte) /\ b \in Seq(Byte) /\ s \in Seq(Byte) /\ Parts(b, a, s, o, Len(s))
    BY <1>1 DEF Grows
  <1>3. w \in Seq(Byte)
    BY <1>0, FlattenIsPartial
  <1>4. e <= Len(w) /\ \A i \in 1..e : w[i] = b[i]
    BY <1>0, PartialGrows
  <1>5. /\ c \in Seq(Byte) /\ Len(s) = 3 + Len(c)
        /\ s[1] = (IF k + 1 = n THEN BLOCK_DESCRIPTOR_EOF ELSE 0)
        /\ s[2] * 256 + s[3] = Len(c)
        /\ \A i \in 1..Len(c) : s[3 + i] = c[i]
    BY <1>0, BlocksType
  <1> HIDE DEF a, b, w, s, c
  <1>6. o \in Nat /\ e \in Nat /\ Len(c) \in Nat /\ Len(w) \in Nat
    BY <1>2, <1>3, <1>5
  <1>7. e = o + Len(s) /\ \A i \in 1..Len(s) : b[o + i] = s[i]
    BY <1>2 DEF Parts
  <1> HIDE DEF o, e
  <1>8. ASSUME NEW i \in 1..Len(s) PROVE w[o + i] = s[i]
    <2>1. o + i \in 1..e
      BY <1>5, <1>6, <1>7
    <2> QED
      BY <1>4, <1>7, <2>1
  <1>9. /\ w[o + 1] = s[1] /\ w[o + 2] = s[2] /\ w[o + 3] = s[3]
    <2>1. 1 \in 1..Len(s) /\ 2 \in 1..Len(s) /\ 3 \in 1..Len(s)
      BY <1>5, <1>6
    <2> QED
      BY <1>8, <2>1
  <1>10. SubSeq(w, o + 4, e) = c
    <2> DEFINE p == SubSeq(w, o + 4, e)
    <2>1. /\ o + 4 \in 1..(Len(w) + 1) /\ e \in ((o + 4) - 1)..Len(w)
          /\ e - (o + 4) + 1 = Len(c)
      BY <1>4, <1>5, <1>6, <1>7
    <2>2. /\ p \in Seq(Byte) /\ Len(p) = e - (o + 4) + 1
          /\ \A i \in 1..(e - (o + 4) + 1) : p[i] = w[o + 4 + i - 1]
      BY <1>3, <2>1, Slice
    <2> HIDE DEF p
    <2>3. ASSUME NEW i \in 1..Len(c) PROVE p[i] = c[i]
      <3>1. o + 4 + i - 1 = o + (3 + i) /\ 3 + i \in 1..Len(s)
        BY <1>5, <1>6
      <3>2. w[o + (3 + i)] = s[3 + i]
        BY <1>8, <3>1
      <3> QED
        BY <1>5, <2>1, <2>2, <3>1, <3>2
    <2>4. p = c
      BY <1>5, <2>1, <2>2, <2>3, SeqEqual
    <2> QED
      BY <2>4 DEF p
  <1>11. e = o + 3 + Len(c)
    BY <1>5, <1>6, <1>7
  <1> QED
    BY <1>4, <1>5, <1>6, <1>9, <1>10, <1>11 DEF a, b, w, c, o, e, LiesAt

LEMMA BlockSize == BLOCK_MAX_PAYLOAD \in Nat \ {0} /\ BLOCK_MAX_PAYLOAD \div 256 <= 255
  <1> DEFINE M == BLOCK_MAX_PAYLOAD
  <1>1. M \in Nat \ {0} /\ M <= 65535
    BY PathAssumption
  <1> HIDE DEF M
  <1>2. M \div 256 <= 255
    BY <1>1, SMT
  <1> QED
    BY <1>1, <1>2 DEF M

LEMMA BlocksOf ==
  ASSUME NEW data \in Seq(Byte)
  PROVE  \E n, cc, ss : /\ Blocks(n, cc, ss)
                        /\ FlattenSeq(cc) = data /\ FlattenSeq(ss) = EncodeBlocks(data)
  <1> DEFINE M == BLOCK_MAX_PAYLOAD
             n == IF data = <<>> THEN 1 ELSE UpperBound(Len(data), M)
             cc == [k \in 1..n |-> Chunk(data, M, k)]
             ss == [k \in 1..n |->
                     BlockHeader(IF k = n THEN BLOCK_DESCRIPTOR_EOF ELSE 0, Len(cc[k])) \o cc[k]]
  <1>1. M \in Nat \ {0} /\ M \div 256 <= 255
    BY BlockSize
  <1> HIDE DEF M
  <1>2. Len(data) \in Nat /\ (data = <<>> <=> Len(data) = 0)
    OBVIOUS
  <1>3. n \in Nat \ {0} /\ (n - 1) * M <= Len(data) /\ Len(data) <= n * M
    <2>1. CASE data = <<>>
      <3>1. n = 1 /\ Len(data) = 0
        BY <1>2, <2>1
      <3>2. 0 * M = 0 /\ 1 * M = M
        BY <1>1, SMT
      <3> QED
        BY <1>1, <3>1, <3>2
    <2>2. CASE data # <<>>
      <3>1. n = UpperBound(Len(data), M) /\ Len(data) # 0
        BY <1>2, <2>2
      <3> QED
        BY <1>1, <1>2, <3>1, UpperBoundCovers
    <2> QED
      BY <2>1, <2>2
  <1> HIDE DEF n
  <1>4. Pieces(Byte, n, cc) /\ FlattenSeq(cc) = data
    BY <1>1, <1>3, ChunksFlatten
  <1>5. \A k \in 1..n : cc[k] = Chunk(data, M, k)
    OBVIOUS
  <1>6. ASSUME NEW k \in 1..n PROVE Short(cc[k])
    <2>1. k \in Nat \ {0}
      BY <1>3
    <2>2. Chunk(data, M, k) \in Seq(Byte) /\ Len(Chunk(data, M, k)) <= M
      BY <1>1, <2>1, ChunkSlice
    <2> DEFINE l == Len(Chunk(data, M, k))
    <2>3. l \in Nat /\ l <= M
      BY <2>2
    <2> HIDE DEF l
    <2>4. l \div 256 <= 255
      BY <1>1, <2>3, SMT
    <2> QED
      BY <1>5, <2>4 DEF Short, l
  <1>7. FlattenSeq(ss) = EncodeBlocks(data)
    <2>1. CASE data = <<>>
      <3>1. n = 1
        BY <2>1 DEF n
      <3>2. Chunk(data, M, 1) = <<>>
        <4>1. Pieces(Byte, 1, cc)
          BY <1>4, <3>1
        <4>2. FlattenSeq(cc) = cc[1]
          BY <4>1, FlattenOne
        <4> QED
          BY <1>4, <1>5, <2>1, <3>1, <4>2
      <3>3. Pieces(Byte, 1, ss) /\ ss[1] = BlockHeader(BLOCK_DESCRIPTOR_EOF, 0)
        <4> DEFINE h == BlockHeader(BLOCK_DESCRIPTOR_EOF, 0)
        <4>1. h \in Seq(Byte) /\ Len(<<>>) = 0
          BY DEF BlockHeader, BLOCK_DESCRIPTOR_EOF, Byte
        <4>2. cc[1] = <<>> /\ 1 \in 1..n
          BY <3>1, <3>2, <1>5
        <4>3. ss[1] = BlockHeader(BLOCK_DESCRIPTOR_EOF, Len(cc[1])) \o cc[1]
          <5> HIDE DEF cc
          <5> QED
            BY <3>1, <4>2
        <4>4. DOMAIN ss = 1..1 /\ ss = [k \in 1..1 |-> ss[k]]
          <5> HIDE DEF cc
          <5> QED
            BY <3>1
        <4> HIDE DEF ss, cc, h
        <4>5. ss[1] = h
          <5>1. ss[1] = h \o <<>>
            BY <4>1, <4>2, <4>3 DEF h
          <5> QED
            BY <4>1, <5>1, ConcatEmptySeq
        <4> QED
          BY <4>1, <4>4, <4>5 DEF Pieces, h
      <3> HIDE DEF ss
      <3>4. FlattenSeq(ss) = ss[1]
        BY <3>3, FlattenOne
      <3> QED
        BY <2>1, <3>3, <3>4 DEF EncodeBlocks
    <2>2. CASE data # <<>>
      <3>1. n = UpperBound(Len(data), M)
        BY <2>2 DEF n
      <3> DEFINE tt == [k \in 1..n |->
                         BlockHeader(IF k = n THEN BLOCK_DESCRIPTOR_EOF ELSE 0, Len(Chunk(data, M, k)))
                           \o Chunk(data, M, k)]
      <3>2. ss = tt
        OBVIOUS
      <3>3. EncodeBlocks(data) = FlattenSeq(tt)
        BY <2>2, <3>1 DEF EncodeBlocks, M
      <3> HIDE DEF ss, tt
      <3> QED
        BY <3>2, <3>3
    <2> QED
      BY <2>1, <2>2
  <1>8. Blocks(n, cc, ss)
    BY <1>3, <1>4, <1>6 DEF Blocks
  <1> QED
    BY <1>4, <1>7, <1>8

(* A block that is read from its header.                                     *)
FromBlock(n, cc, f, from, k) ==
  IF k + 1 = n THEN cc[k + 1]
  ELSE IF from[Len(f[k + 1])] = Invalid THEN Invalid
  ELSE cc[k + 1] \o from[Len(f[k + 1])]

LEMMA DecodeBlock ==
  ASSUME NEW n, NEW cc, NEW ss, NEW f, Blocks(n, cc, ss), Partial(Byte, n, ss, f),
         NEW k \in 0..(n - 1), NEW from
  PROVE  DecodeFrom(f[n], from, Len(f[k])) = FromBlock(n, cc, f, from, k)
  <1> DEFINE o == Len(f[k])  e == Len(f[k + 1])  c == cc[k + 1]  w == f[n]  last == k + 1 = n
  <1>1. /\ o \in Nat /\ e \in Nat /\ c \in Seq(Byte)
        /\ e = o + 3 + Len(c) /\ e <= Len(w)
        /\ w[o + 1] = (IF last THEN BLOCK_DESCRIPTOR_EOF ELSE 0)
        /\ w[o + 2] * 256 + w[o + 3] = Len(c)
        /\ SubSeq(w, o + 4, e) = c
    <2>1. LiesAt(n, cc, f, k)
      BY BlocksLie
    <2> QED
      BY <2>1 DEF LiesAt
  <1>2. last => e = Len(w)
    OBVIOUS
  <1>3. w \in Seq(Byte)
    BY BlocksType, FlattenIsPartial
  <1> HIDE DEF o, e, c, w, last
  <1>4. Len(c) \in Nat /\ Len(w) \in Nat /\ ~(Len(w) - o < 3) /\ ~(e > Len(w))
    BY <1>1, <1>3
  <1>5. DecodeFrom(w, from, o) =
          IF last THEN c ELSE IF from[e] = Invalid THEN Invalid ELSE c \o from[e]
    <2>1. BLOCK_DESCRIPTOR_EOF # 0 /\ BLOCK_DESCRIPTOR_EOF + BLOCK_DESCRIPTOR_EOR # 0
      BY DEF BLOCK_DESCRIPTOR_EOF, BLOCK_DESCRIPTOR_EOR
    <2>2. o + 3 + (w[o + 2] * 256 + w[o + 3]) = e
      BY <1>1
    <2>3. w[o + 1] \in {0} \cup {BLOCK_DESCRIPTOR_EOF} /\ (last <=> w[o + 1] = BLOCK_DESCRIPTOR_EOF)
      BY <1>1, <2>1
    <2> DEFINE d == w[o + 1]
               E == BLOCK_DESCRIPTOR_EOF
               R == BLOCK_DESCRIPTOR_EOR
               x == o + 3 + (w[o + 2] * 256 + w[o + 3])
    <2>a. DecodeFrom(w, from, o) =
            IF Len(w) - o < 3 THEN Invalid
            ELSE IF d \notin {0} \cup {E, E + R} \cup {R} \/ x > Len(w) THEN Invalid
            ELSE IF d \in {E, E + R} THEN IF x = Len(w) THEN SubSeq(w, o + 4, x) ELSE Invalid
            ELSE IF from[x] = Invalid THEN Invalid ELSE SubSeq(w, o + 4, x) \o from[x]
      BY DEF DecodeFrom
    <2>b. x = e
      BY <2>2
    <2> HIDE DEF x
    <2>4. DecodeFrom(w, from, o) =
            IF d \notin {0} \cup {E, E + R} \cup {R} \/ e > Len(w) THEN Invalid
            ELSE IF d \in {E, E + R} THEN IF e = Len(w) THEN c ELSE Invalid
            ELSE IF from[e] = Invalid THEN Invalid ELSE c \o from[e]
      BY <1>1, <1>4, <2>a, <2>b
    <2> HIDE DEF d, E, R
    <2>5. E # 0 /\ E + R # 0 /\ d \in {0} \cup {E} /\ (last <=> d = E)
      BY <2>1, <2>3 DEF d, E, R
    <2>6. CASE last
      BY <1>2, <1>4, <2>4, <2>5, <2>6
    <2>7. CASE ~last
      <3>1. d = 0
        BY <2>5, <2>7
      <3> QED
        BY <1>4, <2>4, <2>5, <2>7, <3>1
    <2> QED
      BY <2>6, <2>7
  <1> QED
    BY <1>5 DEF o, e, c, w, last, FromBlock

(* The receiver decodes what the sender encoded.                             *)
LEMMA Decoded ==
  ASSUME NEW n, NEW cc, NEW ss, Blocks(n, cc, ss)
  PROVE  DecodeBlocks(FlattenSeq(ss)) = FlattenSeq(cc)
  <1>1. n \in Nat \ {0} /\ Pieces(Byte, n, cc) /\ Pieces(Byte, n, ss)
    <2>1. n \in Nat \ {0}
      BY Zenon DEF Blocks
    <2> QED
      BY <2>1, BlocksType
  <1>2. PICK f : Partial(Byte, n, ss, f)
    BY <1>1, PartialExists
  <1>3. PICK g : Partial(Byte, n, cc, g)
    BY <1>1, PartialExists
  <1>4. /\ FlattenSeq(ss) = f[n] /\ FlattenSeq(cc) = g[n]
        /\ f[n] \in Seq(Byte) /\ g[n] \in Seq(Byte)
    BY <1>1, <1>2, <1>3, FlattenIsPartial
  <1>5. PICK from : Decodes(f[n], 0, from) /\ DecodeBlocks(f[n]) = from[0]
    BY <1>4, DecodeExists
  <1> DEFINE Rest(k) == from[Len(f[k])] \in Seq(Byte) /\ g[k] \o from[Len(f[k])] = g[n]
             T == {j \in 0..(n - 1) : Rest(n - 1 - j)}
  <1>6. ASSUME NEW k \in 0..(n - 1)
        PROVE  /\ from[Len(f[k])] =
                    IF k + 1 = n THEN cc[k + 1]
                    ELSE IF from[Len(f[k + 1])] = Invalid THEN Invalid
                    ELSE cc[k + 1] \o from[Len(f[k + 1])]
               /\ g[k + 1] = g[k] \o cc[k + 1] /\ g[k] \in Seq(Byte) /\ cc[k + 1] \in Seq(Byte)
    <2>1. Len(f[k]) \in 0..Len(f[n])
      <3>1. k \in 0..n
        BY <1>1
      <3>2. Len(f[k]) <= Len(f[n])
        BY <1>1, <1>2, <3>1, PartialGrows
      <3>3. f[k] \in Seq(Byte)
        BY <1>1, <1>2, <3>1, PartialFront
      <3> QED
        BY <1>4, <3>2, <3>3
    <2>2. from[Len(f[k])] = DecodeFrom(f[n], from, Len(f[k]))
      BY <1>5, <2>1 DEF Decodes
    <2>3. Grows(Byte, cc, g, k)
      BY <1>1, <1>3, PartialStep
    <2>4. DecodeFrom(f[n], from, Len(f[k])) = FromBlock(n, cc, f, from, k)
      BY <1>2, DecodeBlock
    <2> QED
      BY <2>2, <2>3, <2>4 DEF Grows, FromBlock
  <1>7. 0 \in T
    <2>1. n - 1 - 0 = n - 1 /\ n - 1 \in 0..(n - 1) /\ (n - 1) + 1 = n /\ 0 \in 0..(n - 1)
      BY <1>1
    <2>2. from[Len(f[n - 1])] = cc[n] /\ g[n] = g[n - 1] \o cc[n] /\ cc[n] \in Seq(Byte)
      BY <1>6, <2>1
    <2>3. Rest(n - 1)
      BY <2>2
    <2> QED
      BY <2>1, <2>3
  <1>8. ASSUME NEW j \in 0..(n - 1 - 1), j \in T PROVE j + 1 \in T
    <2> DEFINE k == n - 1 - (j + 1)
    <2>1. k \in 0..(n - 1) /\ k + 1 = n - 1 - j /\ k + 1 # n /\ j + 1 \in 0..(n - 1)
      BY <1>1
    <2>2. Rest(k + 1)
      BY <1>8, <2>1
    <2> HIDE DEF k, T
    <2> DEFINE x == from[Len(f[k + 1])]  y == from[Len(f[k])]  c == cc[k + 1]  a == g[k]
    <2>3. x \in Seq(Byte) /\ g[k + 1] \o x = g[n]
      BY <2>2
    <2>4. /\ y = (IF x = Invalid THEN Invalid ELSE c \o x)
          /\ g[k + 1] = a \o c /\ a \in Seq(Byte) /\ c \in Seq(Byte)
      BY <1>6, <2>1
    <2> HIDE DEF x, y, c, a
    <2>5. x # Invalid
      BY <2>3, NotInvalid
    <2>6. (a \o c) \o x = a \o (c \o x) /\ c \o x \in Seq(Byte)
      BY <2>3, <2>4, ConcatAssociative, ConcatProperties
    <2>7. y \in Seq(Byte) /\ a \o y = g[n]
      BY <2>3, <2>4, <2>5, <2>6
    <2>8. Rest(k)
      BY <2>7 DEF y, a
    <2> QED
      BY <2>1, <2>8 DEF k, T
  <1> HIDE DEF T
  <1>9. \A j \in 0..(n - 1) : j \in T
    <2>1. n - 1 \in Nat
      BY <1>1
    <2> QED
      BY <2>1, <1>7, <1>8, Upwards
  <1>10. Rest(0)
    <2>1. n - 1 \in T /\ n - 1 - (n - 1) = 0
      BY <1>1, <1>9
    <2> QED
      BY <2>1 DEF T
  <1>11. f[0] = <<>> /\ g[0] = <<>>
    BY <1>2, <1>3 DEF Partial
  <1>12. from[0] \in Seq(Byte) /\ <<>> \o from[0] = g[n]
    <2>1. Len(<<>>) = 0
      OBVIOUS
    <2> QED
      BY <1>10, <1>11, <2>1
  <1>13. <<>> \o from[0] = from[0]
    BY <1>12, ConcatEmptySeq
  <1> QED
    BY <1>4, <1>5, <1>12, <1>13

(* A stream of blocks that is cut short is not taken for a file: the loop    *)
(* ends at its end, inside a header or before the end of a block.            *)
LEMMA DecodedFront ==
  ASSUME NEW n, NEW cc, NEW ss, Blocks(n, cc, ss), NEW m \in 0..(Len(FlattenSeq(ss)) - 1)
  PROVE  DecodeBlocks(SubSeq(FlattenSeq(ss), 1, m)) = Invalid
  <1>1. n \in Nat \ {0} /\ Pieces(Byte, n, cc) /\ Pieces(Byte, n, ss)
    <2>1. n \in Nat \ {0}
      BY Zenon DEF Blocks
    <2> QED
      BY <2>1, BlocksType
  <1>2. PICK f : Partial(Byte, n, ss, f)
    BY <1>1, PartialExists
  <1>3. FlattenSeq(ss) = f[n] /\ f[n] \in Seq(Byte)
    BY <1>1, <1>2, FlattenIsPartial
  <1> DEFINE w == f[n]  framed == SubSeq(w, 1, m)
  <1>4. /\ framed \in Seq(Byte) /\ Len(framed) = m /\ m \in Nat /\ Len(w) \in Nat /\ m < Len(w)
        /\ \A i \in 1..m : framed[i] = w[i]
    <2>1. Len(w) \in Nat /\ m \in 0..(Len(w) - 1)
      BY <1>3
    <2>2. 1 \in 1..(Len(w) + 1) /\ m \in (1 - 1)..Len(w) /\ m - 1 + 1 = m /\ m \in Nat /\ m < Len(w)
      BY <2>1
    <2>3. /\ framed \in Seq(Byte) /\ Len(framed) = m - 1 + 1
          /\ \A i \in 1..(m - 1 + 1) : framed[i] = w[1 + i - 1]
      BY <1>3, <2>2, Slice
    <2>4. \A i \in 1..m : 1 + i - 1 = i
      OBVIOUS
    <2> QED
      BY <2>1, <2>2, <2>3, <2>4
  <1>5. ASSUME NEW k \in 0..(n - 1) PROVE LiesAt(n, cc, f, k)
    BY <1>2, BlocksLie
  <1>6. f[0] = <<>>
    BY <1>2 DEF Partial
  <1> HIDE DEF w, framed
  <1>7. PICK from : Decodes(framed, 0, from) /\ DecodeBlocks(framed) = from[0]
    BY <1>4, DecodeExists
  <1> DEFINE T == {k \in 0..(n - 1) : Len(f[k]) <= m => from[Len(f[k])] = Invalid}
  <1>8. ASSUME NEW k \in 0..(n - 1), \A j \in (k + 1)..(n - 1) : j \in T PROVE k \in T
    <2> DEFINE o == Len(f[k])  e == Len(f[k + 1])  c == cc[k + 1]  E == BLOCK_DESCRIPTOR_EOF
    <2>1. /\ o \in Nat /\ e \in Nat /\ e = o + 3 + Len(c)
          /\ w[o + 1] = (IF k + 1 = n THEN E ELSE 0)
          /\ w[o + 2] * 256 + w[o + 3] = Len(c)
      BY <1>5 DEF LiesAt, w
    <2>2. k + 1 = n => e = Len(w)
      BY DEF w
    <2>3. k + 1 # n /\ e <= m => from[e] = Invalid
      <3>1. k + 1 # n => k + 1 \in (k + 1)..(n - 1)
        BY <1>1
      <3> QED
        BY <1>8, <3>1
    <2> HIDE DEF o, e, c, E
    <2> SUFFICES ASSUME o <= m PROVE from[o] = Invalid
      BY DEF o
    <2>4. from[o] = DecodeFrom(framed, from, o)
      BY <1>4, <1>7, <2>1 DEF Decodes
    <2>5. CASE m - o < 3
      BY <1>4, <2>4, <2>5 DEF DecodeFrom
    <2>6. CASE ~(m - o < 3)
      <3>1. framed[o + 1] = w[o + 1] /\ framed[o + 2] = w[o + 2] /\ framed[o + 3] = w[o + 3]
        <4>1. o + 1 \in 1..m /\ o + 2 \in 1..m /\ o + 3 \in 1..m
          BY <1>4, <2>1, <2>6
        <4> QED
          BY <1>4, <4>1
      <3>2. o + 3 + (framed[o + 2] * 256 + framed[o + 3]) = e
        BY <2>1, <3>1
      <3>3. CASE e > m
        BY <1>4, <2>4, <2>6, <3>2, <3>3 DEF DecodeFrom
      <3>4. CASE ~(e > m)
        <4>1. k + 1 # n /\ e <= m
          BY <1>4, <2>1, <2>2, <3>4
        <4>2. framed[o + 1] = 0 /\ from[e] = Invalid
          BY <2>1, <2>3, <3>1, <4>1
        <4>3. E # 0 /\ E + BLOCK_DESCRIPTOR_EOR # 0
          BY DEF E, BLOCK_DESCRIPTOR_EOF, BLOCK_DESCRIPTOR_EOR
        <4> QED
          BY <1>4, <2>4, <2>6, <3>2, <3>4, <4>2, <4>3 DEF DecodeFrom, E
      <3> QED
        BY <3>3, <3>4
    <2> QED
      BY <2>5, <2>6
  <1> HIDE DEF T
  <1>9. 0 \in T
    <2>1. n - 1 \in Nat /\ 0 \in 0..(n - 1)
      BY <1>1
    <2> QED
      BY <1>8, <2>1, Downwards
  <1>10. from[0] = Invalid
    <2>1. Len(f[0]) = 0
      BY <1>6
    <2> QED
      BY <1>4, <1>9, <2>1 DEF T
  <1> QED
    BY <1>3, <1>7, <1>10 DEF framed, w

-----------------------------------------------------------------------------
(* TYPE A *)

(* What Normalized and WithBreaks put in the place of a byte.                *)
NormalizedByte(data, i) ==
  IF data[i] = 10 /\ i > 1 /\ data[i - 1] = 13 THEN <<>>
  ELSE IF data[i] = 13 THEN <<10>> ELSE <<data[i]>>
NormalizedBytes(data) == [i \in 1..Len(data) |-> NormalizedByte(data, i)]

ByteWithBreak(data, break, i) == IF data[i] = 10 THEN break ELSE <<data[i]>>
BytesWithBreaks(data, break) == [i \in 1..Len(data) |-> ByteWithBreak(data, break, i)]

LEMMA NormalizedType ==
  ASSUME NEW S, 10 \in S, NEW data \in Seq(S)
  PROVE  /\ Normalized(data) = FlattenSeq(NormalizedBytes(data))
         /\ Pieces(S, Len(data), NormalizedBytes(data)) /\ Normalized(data) \in Seq(S)
  <1>1. Normalized(data) = FlattenSeq(NormalizedBytes(data))
    BY DEF Normalized, NormalizedBytes, NormalizedByte
  <1>2. ASSUME NEW i \in 1..Len(data) PROVE NormalizedByte(data, i) \in Seq(S)
    <2>1. data[i] \in S
      BY ElementOfSeq
    <2> DEFINE d == data[i]
    <2>2. <<d>> \in Seq(S) /\ <<10>> \in Seq(S) /\ <<>> \in Seq(S)
      BY <2>1
    <2> HIDE DEF d
    <2> QED
      BY <2>2 DEF NormalizedByte, d
  <1>3. Pieces(S, Len(data), NormalizedBytes(data))
    BY <1>2 DEF Pieces, NormalizedBytes
  <1> QED
    BY <1>1, <1>3, FlattenType

LEMMA WithBreaksType ==
  ASSUME NEW S, NEW break \in Seq(S), NEW data \in Seq(S)
  PROVE  /\ WithBreaks(data, break) = FlattenSeq(BytesWithBreaks(data, break))
         /\ Pieces(S, Len(data), BytesWithBreaks(data, break))
         /\ WithBreaks(data, break) \in Seq(S)
  <1>1. WithBreaks(data, break) = FlattenSeq(BytesWithBreaks(data, break))
    BY DEF WithBreaks, BytesWithBreaks, ByteWithBreak
  <1>2. ASSUME NEW i \in 1..Len(data) PROVE ByteWithBreak(data, break, i) \in Seq(S)
    <2>1. data[i] \in S
      BY ElementOfSeq
    <2> QED
      BY <2>1 DEF ByteWithBreak
  <1>3. Pieces(S, Len(data), BytesWithBreaks(data, break))
    BY <1>2 DEF Pieces, BytesWithBreaks
  <1> QED
    BY <1>1, <1>3, FlattenType

(* A CRLF is not cut in two.                                                 *)
Apart(x, y) == ~(Len(x) > 0 /\ Len(y) > 0 /\ x[Len(x)] = 13 /\ y[1] = 10)

LEMMA NormalizedConcat ==
  ASSUME NEW S, 10 \in S, NEW x \in Seq(S), NEW y \in Seq(S), Apart(x, y)
  PROVE  Normalized(x \o y) = Normalized(x) \o Normalized(y)
  <1> DEFINE m == Len(x)  n == Len(y)  u == x \o y
  <1>0. Len(x) = m /\ Len(y) = n /\ m \in Nat /\ n \in Nat
    OBVIOUS
  <1> HIDE DEF m, n
  <1>1. u \in Seq(S) /\ Parts(u, x, y, m, n)
    BY <1>0, ConcatParts
  <1> HIDE DEF u
  <1>2. Len(u) = m + n /\ (\A i \in 1..m : u[i] = x[i]) /\ \A i \in 1..n : u[m + i] = y[i]
    BY <1>1 DEF Parts
  <1>3. ASSUME NEW i \in 1..m PROVE NormalizedByte(u, i) = NormalizedByte(x, i)
    <2>1. u[i] = x[i] /\ (i > 1 => u[i - 1] = x[i - 1])
      BY <1>0, <1>2
    <2> QED
      BY <2>1 DEF NormalizedByte
  <1>4. ASSUME NEW i \in 1..n PROVE NormalizedByte(u, m + i) = NormalizedByte(y, i)
    <2>1. u[m + i] = y[i]
      BY <1>2
    <2>2. CASE i > 1
      <3>1. i - 1 \in 1..n /\ (m + i) - 1 = m + (i - 1) /\ m + i > 1
        BY <1>0, <2>2
      <3>2. u[(m + i) - 1] = y[i - 1]
        BY <1>2, <3>1
      <3> QED
        BY <2>1, <2>2, <3>1, <3>2 DEF NormalizedByte
    <2>3. CASE ~(i > 1)
      <3>1. i = 1 /\ n > 0 /\ (m + i) - 1 = m
        BY <1>0, <2>3
      <3>2. ~(u[m + i] = 10 /\ m + i > 1 /\ u[(m + i) - 1] = 13)
        <4>1. CASE m = 0
          BY <3>1, <4>1
        <4>2. CASE m # 0
          <5>1. m \in 1..m /\ m > 0
            BY <1>0, <4>2
          <5>2. u[m] = x[m]
            BY <1>2, <5>1
          <5>3. ~(x[m] = 13 /\ y[1] = 10)
            BY <1>0, <3>1, <5>1 DEF Apart
          <5> QED
            BY <2>1, <3>1, <5>2, <5>3
        <4> QED
          BY <4>1, <4>2
      <3> QED
        BY <2>1, <2>3, <3>2 DEF NormalizedByte
    <2> QED
      BY <2>2, <2>3
  <1>5. Parts(NormalizedBytes(u), NormalizedBytes(x), NormalizedBytes(y), m, n)
    <2>1. Len(NormalizedBytes(u)) = m + n
      BY <1>0, <1>2 DEF NormalizedBytes
    <2>2. \A i \in 1..m : i \in 1..(m + n)
      BY <1>0
    <2>3. \A i \in 1..n : m + i \in 1..(m + n)
      BY <1>0
    <2> QED
      BY <1>0, <1>2, <1>3, <1>4, <2>1, <2>2, <2>3 DEF Parts, NormalizedBytes
  <1>6. /\ Pieces(S, m, NormalizedBytes(x)) /\ Pieces(S, n, NormalizedBytes(y))
        /\ Pieces(S, m + n, NormalizedBytes(u))
    BY <1>0, <1>1, <1>2, NormalizedType
  <1>7. FlattenSeq(NormalizedBytes(u)) = FlattenSeq(NormalizedBytes(x)) \o FlattenSeq(NormalizedBytes(y))
    BY <1>5, <1>6, FlattenConcat
  <1>8. /\ Normalized(u) = FlattenSeq(NormalizedBytes(u))
        /\ Normalized(x) = FlattenSeq(NormalizedBytes(x))
        /\ Normalized(y) = FlattenSeq(NormalizedBytes(y))
    BY <1>1, NormalizedType
  <1> QED
    BY <1>7, <1>8 DEF u

LEMMA WithBreaksConcat ==
  ASSUME NEW S, NEW break \in Seq(S), NEW x \in Seq(S), NEW y \in Seq(S)
  PROVE  WithBreaks(x \o y, break) = WithBreaks(x, break) \o WithBreaks(y, break)
  <1> DEFINE m == Len(x)  n == Len(y)  u == x \o y
             a == BytesWithBreaks(x, break)  b == BytesWithBreaks(y, break)
             c == BytesWithBreaks(u, break)
  <1>0. Len(x) = m /\ Len(y) = n /\ m \in Nat /\ n \in Nat
    OBVIOUS
  <1> HIDE DEF m, n
  <1>1. u \in Seq(S) /\ Parts(u, x, y, m, n)
    BY <1>0, ConcatParts
  <1> HIDE DEF u
  <1>2. Len(u) = m + n /\ (\A i \in 1..m : u[i] = x[i]) /\ \A i \in 1..n : u[m + i] = y[i]
    BY <1>1 DEF Parts
  <1>5. Parts(c, a, b, m, n)
    <2>1. Len(c) = m + n
      BY <1>0, <1>2 DEF BytesWithBreaks
    <2>2. \A i \in 1..m : i \in 1..(m + n)
      BY <1>0
    <2>3. \A i \in 1..n : m + i \in 1..(m + n)
      BY <1>0
    <2> QED
      BY <1>0, <1>2, <2>1, <2>2, <2>3 DEF Parts, BytesWithBreaks, ByteWithBreak
  <1>6. /\ Pieces(S, m, a) /\ Pieces(S, n, b) /\ Pieces(S, m + n, c)
        /\ WithBreaks(u, break) = FlattenSeq(c)
        /\ WithBreaks(x, break) = FlattenSeq(a) /\ WithBreaks(y, break) = FlattenSeq(b)
    BY <1>0, <1>1, <1>2, WithBreaksType
  <1> HIDE DEF a, b, c
  <1>7. FlattenSeq(c) = FlattenSeq(a) \o FlattenSeq(b)
    BY <1>5, <1>6, FlattenConcat
  <1> QED
    BY <1>6, <1>7 DEF u

(* A line without breaks, with or without one at its end.                    *)
PlainLines(S) == {line \in Seq(S) : \A i \in 1..Len(line) : line[i] \notin {10, 13}}

LEMMA PlainUnchanged ==
  ASSUME NEW S, 10 \in S, NEW line \in PlainLines(S), NEW break \in Seq(S)
  PROVE  Normalized(line) = line /\ WithBreaks(line, break) = line
  <1>1. line \in Seq(S) /\ \A i \in 1..Len(line) : line[i] # 10 /\ line[i] # 13
    BY DEF PlainLines
  <1>2. NormalizedBytes(line) = [i \in 1..Len(line) |-> <<line[i]>>]
    BY <1>1 DEF NormalizedBytes, NormalizedByte
  <1>3. BytesWithBreaks(line, break) = [i \in 1..Len(line) |-> <<line[i]>>]
    BY <1>1 DEF BytesWithBreaks, ByteWithBreak
  <1>4. FlattenSeq([i \in 1..Len(line) |-> <<line[i]>>]) = line
    BY <1>1, FlattenSingletons
  <1>5. Normalized(line) = FlattenSeq(NormalizedBytes(line))
    BY <1>1, NormalizedType
  <1>6. WithBreaks(line, break) = FlattenSeq(BytesWithBreaks(line, break))
    BY <1>1, WithBreaksType
  <1> QED
    BY <1>2, <1>3, <1>4, <1>5, <1>6

LEMMA FlattenPair ==
  ASSUME NEW S, NEW a \in Seq(S), NEW b \in Seq(S)
  PROVE  FlattenSeq(<<a, b>>) = a \o b
  <1> DEFINE ss == <<a, b>>  front == [i \in 1..1 |-> ss[i]]
  <1>1. Pieces(S, 1 + 1, ss) /\ Pieces(S, 1, front) /\ ss[1 + 1] = b /\ front[1] = a
    BY DEF Pieces
  <1> HIDE DEF ss
  <1>2. FlattenSeq(ss) = FlattenSeq(front) \o ss[1 + 1]
    <2>1. 1 \in Nat
      OBVIOUS
    <2> QED
      BY <1>1, <2>1, FlattenLast
  <1>3. FlattenSeq(front) = front[1]
    BY <1>1, FlattenOne
  <1> QED
    BY <1>1, <1>2, <1>3 DEF ss

(* Every break becomes LF, and LF any break.                                 *)
LEMMA BreaksNormalized ==
  ASSUME NEW break \in Breaks, NEW other \in Seq(Byte)
  PROVE  /\ Normalized(break) = <<10>> /\ Normalized(<<>>) = <<>>
         /\ WithBreaks(<<10>>, other) = other /\ WithBreaks(<<>>, other) = <<>>
  <1>0. 10 \in Byte /\ 13 \in Byte
    BY SMT DEF Byte
  <1>1. <<10>> \in Seq(Byte) /\ <<13>> \in Seq(Byte) /\ <<13, 10>> \in Seq(Byte) /\ <<>> \in Seq(Byte)
    BY <1>0
  <1>2. Normalized(<<10>>) = <<10>> /\ Normalized(<<13>>) = <<10>> /\ WithBreaks(<<10>>, other) = other
    <2>1. /\ NormalizedBytes(<<10>>) = <<<<10>>>> /\ NormalizedBytes(<<13>>) = <<<<10>>>>
          /\ BytesWithBreaks(<<10>>, other) = <<other>>
      BY DEF NormalizedBytes, NormalizedByte, BytesWithBreaks, ByteWithBreak
    <2>2. ASSUME NEW s \in Seq(Byte) PROVE FlattenSeq(<<s>>) = s
      <3>1. Pieces(Byte, 1, <<s>>) /\ <<s>>[1] = s
        BY DEF Pieces
      <3> QED
        BY <3>1, FlattenOne
    <2>3. FlattenSeq(<<<<10>>>>) = <<10>> /\ FlattenSeq(<<other>>) = other
      BY <1>1, <2>2
    <2>4. /\ Normalized(<<10>>) = FlattenSeq(NormalizedBytes(<<10>>))
          /\ Normalized(<<13>>) = FlattenSeq(NormalizedBytes(<<13>>))
      BY <1>0, <1>1, NormalizedType
    <2>5. WithBreaks(<<10>>, other) = FlattenSeq(BytesWithBreaks(<<10>>, other))
      BY <1>1, WithBreaksType
    <2> QED
      BY <2>1, <2>3, <2>4, <2>5
  <1>3. Normalized(<<13, 10>>) = <<10>>
    <2>1. NormalizedBytes(<<13, 10>>) = <<<<10>>, <<>>>>
      BY DEF NormalizedBytes, NormalizedByte
    <2>2. FlattenSeq(<<<<10>>, <<>>>>) = <<10>> \o <<>>
      BY <1>1, FlattenPair
    <2>3. <<10>> \o <<>> = <<10>>
      BY <1>1, ConcatEmptySeq
    <2>4. Normalized(<<13, 10>>) = FlattenSeq(NormalizedBytes(<<13, 10>>))
      BY <1>0, <1>1, NormalizedType
    <2> QED
      BY <2>1, <2>2, <2>3, <2>4
  <1>4. Normalized(<<>>) = <<>> /\ WithBreaks(<<>>, other) = <<>>
    <2>1. <<>> \in PlainLines(Byte)
      BY <1>1 DEF PlainLines
    <2> QED
      BY <1>0, <2>1, PlainUnchanged
  <1> QED
    BY <1>2, <1>3, <1>4 DEF Breaks

(* A file: its lines with the breaks between them.                           *)
LinePiece(ls, bs, k) == ls[k] \o (IF k < Len(ls) THEN bs[k] ELSE <<>>)
JoinedPieces(ls, bs) == [k \in 1..Len(ls) |-> LinePiece(ls, bs, k)]

TextFile(n, ls, bs) ==
  n \in Nat \ {0} /\ ls \in [1..n -> PlainLines(Byte)] /\ bs \in [1..(n - 1) -> Breaks]

(* No CR, empty line and LF, which would be one break.                       *)
Unmerged(n, ls, bs) ==
  \A k \in 1..(n - 2) : ~(bs[k] = <<13>> /\ ls[k + 1] = <<>> /\ bs[k + 1][1] = 10)

LEMMA BreakBytes ==
  /\ \A break \in Breaks : /\ break \in Seq(Byte) /\ Len(break) > 0
                           /\ break[Len(break)] = 13 => break = <<13>>
  /\ <<10>> \in Breaks /\ <<13, 10>> \in Breaks
  <1>0. 10 \in Byte /\ 13 \in Byte
    BY SMT DEF Byte
  <1>1. <<10>> \in Seq(Byte) /\ <<13>> \in Seq(Byte) /\ <<13, 10>> \in Seq(Byte)
    BY <1>0
  <1>2. /\ Len(<<10>>) = 1 /\ Len(<<13>>) = 1 /\ Len(<<13, 10>>) = 2
        /\ <<10>>[1] = 10 /\ <<13, 10>>[2] = 10
    OBVIOUS
  <1> QED
    BY <1>1, <1>2 DEF Breaks

JoinedParts(n, ls, bs, pp) ==
  /\ n \in Nat \ {0} /\ Pieces(Byte, n, pp) /\ Joined(ls, bs) = FlattenSeq(pp)
  /\ \A k \in 1..n : ls[k] \in PlainLines(Byte) /\ ls[k] \in Seq(Byte)
  /\ \A k \in 1..(n - 1) : bs[k] \in Breaks /\ pp[k] = ls[k] \o bs[k]
  /\ pp[n] = ls[n]

LEMMA JoinedType ==
  ASSUME NEW n, NEW ls, NEW bs, TextFile(n, ls, bs)
  PROVE  JoinedParts(n, ls, bs, JoinedPieces(ls, bs))
  <1>1. /\ n \in Nat \ {0} /\ Len(ls) = n /\ \A k \in 1..n : ls[k] \in PlainLines(Byte)
        /\ \A k \in 1..(n - 1) : bs[k] \in Breaks
    BY DEF TextFile
  <1>2. Joined(ls, bs) = FlattenSeq(JoinedPieces(ls, bs))
    BY DEF Joined, JoinedPieces, LinePiece
  <1>3. \A k \in 1..n : ls[k] \in Seq(Byte)
    BY <1>1 DEF PlainLines
  <1>4. ASSUME NEW k \in 1..(n - 1)
        PROVE  LinePiece(ls, bs, k) = ls[k] \o bs[k] /\ LinePiece(ls, bs, k) \in Seq(Byte)
    <2>1. k < n /\ k \in 1..n
      BY <1>1
    <2>2. LinePiece(ls, bs, k) = ls[k] \o bs[k]
      BY <1>1, <2>1 DEF LinePiece
    <2>3. ls[k] \in Seq(Byte) /\ bs[k] \in Seq(Byte)
      BY <1>1, <1>3, <2>1, BreakBytes
    <2>4. ls[k] \o bs[k] \in Seq(Byte)
      BY <2>3, ConcatProperties
    <2> QED
      BY <2>2, <2>4
  <1>5. LinePiece(ls, bs, n) = ls[n] /\ n \in 1..n
    <2>1. ~(n < n) /\ n \in 1..n
      BY <1>1
    <2>2. ls[n] \o <<>> = ls[n]
      BY <1>3, <2>1, ConcatEmptySeq
    <2>3. LinePiece(ls, bs, n) = ls[n] \o <<>>
      BY <1>1, <2>1 DEF LinePiece
    <2> QED
      BY <2>1, <2>2, <2>3
  <1>6. ASSUME NEW k \in 1..n PROVE LinePiece(ls, bs, k) \in Seq(Byte)
    <2>1. k \in 1..(n - 1) \/ k = n
      BY <1>1
    <2> QED
      BY <1>3, <1>4, <1>5, <2>1
  <1>7. Pieces(Byte, n, JoinedPieces(ls, bs))
    BY <1>1, <1>6 DEF Pieces, JoinedPieces
  <1>8. ASSUME NEW k \in 1..n PROVE JoinedPieces(ls, bs)[k] = LinePiece(ls, bs, k)
    BY <1>1 DEF JoinedPieces
  <1>9. ASSUME NEW k \in 1..(n - 1) PROVE JoinedPieces(ls, bs)[k] = ls[k] \o bs[k]
    <2>1. k \in 1..n
      BY <1>1
    <2> QED
      BY <1>4, <1>8, <2>1
  <1>10. JoinedPieces(ls, bs)[n] = ls[n]
    BY <1>5, <1>8
  <1> QED
    BY <1>1, <1>2, <1>3, <1>7, <1>9, <1>10 DEF JoinedParts

LEMMA LastOfConcat ==
  ASSUME NEW S, NEW s \in Seq(S), NEW t \in Seq(S), Len(t) > 0
  PROVE  (s \o t)[Len(s \o t)] = t[Len(t)]
  <1>1. Parts(s \o t, s, t, Len(s), Len(t))
    BY ConcatParts
  <1>2. Len(s \o t) = Len(s) + Len(t) /\ \A i \in 1..Len(t) : (s \o t)[Len(s) + i] = t[i]
    BY <1>1 DEF Parts
  <1>3. Len(t) \in 1..Len(t)
    OBVIOUS
  <1> QED
    BY <1>2, <1>3

LEMMA NormalizedPiece ==
  ASSUME NEW line \in PlainLines(Byte), NEW break \in Breaks
  PROVE  Normalized(line \o break) = line \o <<10>>
  <1>0. 10 \in Byte
    BY SMT DEF Byte
  <1>1. line \in Seq(Byte) /\ \A i \in 1..Len(line) : line[i] # 13
    BY DEF PlainLines
  <1>2. break \in Seq(Byte)
    BY BreakBytes
  <1>3. Apart(line, break)
    <2>1. Len(line) > 0 => Len(line) \in 1..Len(line)
      BY <1>1
    <2> QED
      BY <1>1, <2>1 DEF Apart
  <1>4. Normalized(line \o break) = Normalized(line) \o Normalized(break)
    BY <1>0, <1>1, <1>2, <1>3, NormalizedConcat
  <1>5. Normalized(line) = line
    BY <1>0, <1>2, PlainUnchanged
  <1>6. Normalized(break) = <<10>>
    BY <1>2, BreaksNormalized
  <1> QED
    BY <1>4, <1>5, <1>6

(* What precedes a line and its break does not end in CR if they begin with  *)
(* LF.                                                                       *)
LEMMA PiecesApart ==
  ASSUME NEW n, NEW ls, NEW bs, TextFile(n, ls, bs), Unmerged(n, ls, bs),
         NEW front \in Seq(Byte), NEW k \in 1..(n - 1)
  PROVE  Apart(front \o JoinedPieces(ls, bs)[k], JoinedPieces(ls, bs)[k + 1])
  <1> DEFINE pp == JoinedPieces(ls, bs)
             p == pp[k]  q == pp[k + 1]  b == bs[k]  l == ls[k + 1]  cr == <<13>>
  <1>0. JoinedParts(n, ls, bs, pp)
    BY JoinedType
  <1> HIDE DEF pp
  <1>1. /\ n \in Nat \ {0} /\ b \in Breaks /\ p = ls[k] \o b /\ ls[k] \in Seq(Byte)
        /\ l \in PlainLines(Byte) /\ k \in Nat \ {0} /\ k <= n - 1
    <2>1. n \in Nat \ {0}
      BY <1>0 DEF JoinedParts
    <2>2. k \in 1..n /\ k + 1 \in 1..n /\ k \in Nat \ {0} /\ k <= n - 1
      BY <2>1
    <2> QED
      BY <1>0, <2>1, <2>2 DEF JoinedParts
  <1>2. k + 1 # n => k + 1 \in 1..(n - 1) /\ k \in 1..(n - 2)
    BY <1>1
  <1>3. k + 1 = n => q = l
    BY <1>0 DEF JoinedParts
  <1>4. k + 1 # n => q = l \o bs[k + 1] /\ bs[k + 1] \in Breaks
    BY <1>0, <1>2 DEF JoinedParts
  <1>5. k + 1 # n => ~(b = <<13>> /\ l = <<>> /\ bs[k + 1][1] = 10)
    BY <1>2 DEF Unmerged
  <1> HIDE DEF p, q, b, l
  <1>6. b \in Seq(Byte) /\ Len(b) > 0 /\ (b[Len(b)] = 13 => b = <<13>>)
    BY <1>1, BreakBytes
  <1>7. (front \o p)[Len(front \o p)] = b[Len(b)]
    <2>1. p \in Seq(Byte) /\ p[Len(p)] = b[Len(b)] /\ Len(p) > 0
      <3>1. Parts(ls[k] \o b, ls[k], b, Len(ls[k]), Len(b)) /\ ls[k] \o b \in Seq(Byte)
        BY <1>1, <1>6, ConcatParts
      <3>2. Len(ls[k] \o b) = Len(ls[k]) + Len(b)
        BY <3>1 DEF Parts
      <3>3. Len(ls[k]) \in Nat /\ Len(b) \in Nat
        BY <1>1, <1>6
      <3>4. (ls[k] \o b)[Len(ls[k] \o b)] = b[Len(b)]
        BY <1>1, <1>6, LastOfConcat
      <3> QED
        BY <1>1, <1>6, <3>1, <3>2, <3>3, <3>4
    <2>2. (front \o p)[Len(front \o p)] = p[Len(p)]
      BY <2>1, LastOfConcat
    <2> QED
      BY <2>1, <2>2
  <1>8. l \in Seq(Byte) /\ \A i \in 1..Len(l) : l[i] # 10
    BY <1>1 DEF PlainLines
  <1>9. ASSUME b = cr, Len(q) > 0, q[1] = 10 PROVE FALSE
    <2>1. CASE k + 1 = n
      <3>1. 1 \in 1..Len(l) /\ l[1] = 10
        BY <1>3, <1>8, <1>9, <2>1
      <3> QED
        BY <1>8, <3>1
    <2>2. CASE k + 1 # n
      <3> DEFINE c == bs[k + 1]
      <3>1. c \in Seq(Byte) /\ q = l \o c
        BY <1>4, <2>2, BreakBytes
      <3>2. Parts(l \o c, l, c, Len(l), Len(c))
        BY <1>8, <3>1, ConcatParts
      <3>3. CASE l = <<>>
        <4>1. l \o c = c
          BY <3>1, <3>3, ConcatEmptySeq
        <4> QED
          BY <1>5, <1>9, <2>2, <3>1, <3>3, <4>1
      <3>4. CASE l # <<>>
        <4>1. 1 \in 1..Len(l)
          BY <1>8, <3>4
        <4>2. (l \o c)[1] = l[1]
          BY <3>2, <4>1 DEF Parts
        <4> QED
          BY <1>8, <1>9, <3>1, <4>1, <4>2
      <3> QED
        BY <3>3, <3>4
    <2> QED
      BY <2>1, <2>2
  <1>10. Apart(front \o p, q)
    BY <1>6, <1>7, <1>9 DEF Apart
  <1> QED
    BY <1>10 DEF p, q, pp

(* replace CRLF by LF, then CR by LF leaves the lines as they are.           *)
LEMMA NormalizedJoined ==
  ASSUME NEW n, NEW ls, NEW bs, TextFile(n, ls, bs), Unmerged(n, ls, bs)
  PROVE  Normalized(Joined(ls, bs)) = Joined(ls, [k \in 1..(n - 1) |-> <<10>>])
  <1> DEFINE lf == [k \in 1..(n - 1) |-> <<10>>]
             pp == JoinedPieces(ls, bs)  qq == JoinedPieces(ls, lf)
  <1>0. 10 \in Byte
    BY SMT DEF Byte
  <1>1. JoinedParts(n, ls, bs, pp)
    BY JoinedType
  <1>2. TextFile(n, ls, lf)
    BY BreakBytes DEF TextFile
  <1>3. JoinedParts(n, ls, lf, qq)
    BY <1>2, JoinedType
  <1>4. \A k \in 1..(n - 1) : lf[k] = <<10>>
    OBVIOUS
  <1>5. \A front \in Seq(Byte) : \A k \in 1..(n - 1) : Apart(front \o pp[k], pp[k + 1])
    BY PiecesApart
  <1> HIDE DEF lf, pp, qq
  <1>6. n \in Nat /\ Pieces(Byte, n, pp) /\ Pieces(Byte, n, qq)
    BY <1>1, <1>3 DEF JoinedParts
  <1>7. ASSUME NEW k \in 1..n PROVE Normalized(pp[k]) = qq[k]
    <2>1. CASE k = n
      <3>1. pp[k] = ls[k] /\ qq[k] = ls[k] /\ ls[k] \in PlainLines(Byte)
        BY <1>1, <1>3, <2>1 DEF JoinedParts
      <3>2. <<>> \in Seq(Byte)
        OBVIOUS
      <3> QED
        BY <1>0, <3>1, <3>2, PlainUnchanged
    <2>2. CASE k # n
      <3>1. k \in 1..(n - 1)
        BY <1>6, <2>2
      <3>2. /\ pp[k] = ls[k] \o bs[k] /\ qq[k] = ls[k] \o lf[k]
            /\ ls[k] \in PlainLines(Byte) /\ bs[k] \in Breaks
        BY <1>1, <1>3, <3>1 DEF JoinedParts
      <3>3. Normalized(ls[k] \o bs[k]) = ls[k] \o <<10>>
        BY <3>2, NormalizedPiece
      <3> QED
        BY <1>4, <3>1, <3>2, <3>3
    <2> QED
      BY <2>1, <2>2
  <1>8. PICK f : Partial(Byte, n, pp, f)
    BY <1>6, PartialExists
  <1> DEFINE h == [k \in 0..n |-> Normalized(f[k])]
  <1>9. ASSUME NEW k \in 0..(n - 1)
        PROVE  Normalized(f[k + 1]) = Normalized(f[k]) \o qq[k + 1] /\ Normalized(f[k]) \in Seq(Byte)
    <2>1. Grows(Byte, pp, f, k)
      BY <1>6, <1>8, PartialStep
    <2>2. f[k + 1] = f[k] \o pp[k + 1] /\ f[k] \in Seq(Byte) /\ pp[k + 1] \in Seq(Byte)
      BY <2>1 DEF Grows
    <2>3. Apart(f[k], pp[k + 1])
      <3>1. CASE k = 0
        <4>1. Len(f[0]) = 0
          BY <1>8 DEF Partial
        <4> QED
          BY <3>1, <4>1 DEF Apart
      <3>2. CASE k # 0
        <4>1. k \in 1..(n - 1) /\ k \in 1..n /\ k - 1 \in 0..n
          BY <1>6, <3>2
        <4>2. f[k] = f[k - 1] \o pp[k] /\ f[k - 1] \in Seq(Byte)
          BY <1>8, <4>1 DEF Partial
        <4> QED
          BY <1>5, <4>1, <4>2
      <3> QED
        BY <3>1, <3>2
    <2>4. Normalized(f[k] \o pp[k + 1]) = Normalized(f[k]) \o Normalized(pp[k + 1])
      BY <1>0, <2>2, <2>3, NormalizedConcat
    <2>5. Normalized(f[k]) \in Seq(Byte)
      BY <1>0, <2>2, NormalizedType
    <2>6. k + 1 \in 1..n
      BY <1>6
    <2> QED
      BY <1>7, <2>2, <2>4, <2>5, <2>6
  <1>10. f[0] = <<>> /\ Normalized(<<>>) = <<>> /\ f[n] \in Seq(Byte)
    <2>1. <<10>> \in Seq(Byte)
      BY <1>0
    <2>2. Normalized(<<>>) = <<>>
      BY <2>1, BreakBytes, BreaksNormalized
    <2> QED
      BY <1>6, <1>8, <2>2 DEF Partial
  <1>11. Partial(Byte, n, qq, h)
    <2>1. ASSUME NEW k \in 0..n PROVE h[k] \in Seq(Byte)
      <3>1. f[k] \in Seq(Byte)
        BY <1>8 DEF Partial
      <3> QED
        BY <1>0, <3>1, NormalizedType
    <2>2. h[0] = <<>>
      BY <1>6, <1>10
    <2>3. ASSUME NEW k \in 1..n PROVE h[k] = h[k - 1] \o qq[k]
      <3>1. k - 1 \in 0..(n - 1) /\ (k - 1) + 1 = k /\ k \in 0..n /\ k - 1 \in 0..n
        BY <1>6
      <3>2. Normalized(f[k]) = Normalized(f[k - 1]) \o qq[k]
        BY <1>9, <3>1
      <3> QED
        BY <3>1, <3>2
    <2> QED
      BY <2>1, <2>2, <2>3 DEF Partial
  <1>12. FlattenSeq(qq) = h[n] /\ h[n] = Normalized(f[n])
    <2>1. h[n] = Normalized(f[n])
      BY <1>6
    <2> HIDE DEF h
    <2> QED
      BY <1>6, <1>11, <2>1, FlattenIsPartial
  <1>13. FlattenSeq(pp) = f[n]
    BY <1>6, <1>8, FlattenIsPartial
  <1>14. Joined(ls, bs) = FlattenSeq(pp) /\ Joined(ls, lf) = FlattenSeq(qq)
    BY <1>1, <1>3 DEF JoinedParts
  <1> QED
    BY <1>12, <1>13, <1>14 DEF lf

(* replace LF by a break.                                                    *)
AllBreaks(n, break) == [k \in 1..(n - 1) |-> break]
AllLF(n) == AllBreaks(n, <<10>>)

LEMMA WithBreaksJoined ==
  ASSUME NEW n, NEW ls, TextFile(n, ls, AllLF(n)), NEW break \in Breaks
  PROVE  WithBreaks(Joined(ls, AllLF(n)), break) = Joined(ls, AllBreaks(n, break))
  <1> DEFINE bs == AllLF(n)
             to == AllBreaks(n, break)
             pp == JoinedPieces(ls, bs)  qq == JoinedPieces(ls, to)
             W(s) == WithBreaks(s, break)
  <1>0. 10 \in Byte /\ break \in Seq(Byte)
    <2>1. 10 \in Byte
      BY SMT DEF Byte
    <2> QED
      BY <2>1, BreakBytes
  <1>1. JoinedParts(n, ls, bs, pp)
    BY JoinedType
  <1>2. TextFile(n, ls, to)
    BY DEF TextFile, AllBreaks
  <1>3. JoinedParts(n, ls, to, qq)
    BY <1>2, JoinedType
  <1>4. \A k \in 1..(n - 1) : to[k] = break /\ bs[k] = <<10>>
    BY DEF AllBreaks, AllLF
  <1> HIDE DEF bs, to, pp, qq
  <1>6. n \in Nat /\ Pieces(Byte, n, pp) /\ Pieces(Byte, n, qq)
    BY <1>1, <1>3 DEF JoinedParts
  <1>7. ASSUME NEW k \in 1..n PROVE W(pp[k]) = qq[k]
    <2>1. CASE k = n
      <3>1. pp[k] = ls[k] /\ qq[k] = ls[k] /\ ls[k] \in PlainLines(Byte)
        BY <1>1, <1>3, <2>1 DEF JoinedParts
      <3> QED
        BY <1>0, <3>1, PlainUnchanged
    <2>2. CASE k # n
      <3>1. k \in 1..(n - 1)
        BY <1>6, <2>2
      <3>2. /\ pp[k] = ls[k] \o <<10>> /\ qq[k] = ls[k] \o break
            /\ ls[k] \in PlainLines(Byte) /\ ls[k] \in Seq(Byte)
        BY <1>1, <1>3, <1>4, <2>2, <3>1 DEF JoinedParts
      <3>3. WithBreaks(ls[k] \o <<10>>, break) = WithBreaks(ls[k], break) \o WithBreaks(<<10>>, break)
        <4>1. <<10>> \in Seq(Byte)
          BY <1>0
        <4> QED
          BY <1>0, <3>2, <4>1, WithBreaksConcat
      <3>4. WithBreaks(ls[k], break) = ls[k]
        BY <1>0, <3>2, PlainUnchanged
      <3>5. WithBreaks(<<10>>, break) = break
        BY <1>0, BreaksNormalized
      <3> QED
        BY <3>2, <3>3, <3>4, <3>5
    <2> QED
      BY <2>1, <2>2
  <1> HIDE DEF W
  <1>8. PICK f : Partial(Byte, n, pp, f)
    BY <1>6, PartialExists
  <1> DEFINE h == [k \in 0..n |-> W(f[k])]
  <1>9. ASSUME NEW k \in 0..(n - 1) PROVE W(f[k + 1]) = W(f[k]) \o qq[k + 1]
    <2>1. Grows(Byte, pp, f, k)
      BY <1>6, <1>8, PartialStep
    <2>2. f[k + 1] = f[k] \o pp[k + 1] /\ f[k] \in Seq(Byte) /\ pp[k + 1] \in Seq(Byte)
      BY <2>1 DEF Grows
    <2>3. W(f[k] \o pp[k + 1]) = W(f[k]) \o W(pp[k + 1])
      BY <1>0, <2>2, WithBreaksConcat DEF W
    <2>4. k + 1 \in 1..n
      BY <1>6
    <2> QED
      BY <1>7, <2>2, <2>3, <2>4
  <1>10. f[0] = <<>> /\ W(<<>>) = <<>>
    BY <1>0, <1>6, <1>8, BreaksNormalized DEF Partial, W
  <1>11. Partial(Byte, n, qq, h)
    <2>1. ASSUME NEW k \in 0..n PROVE h[k] \in Seq(Byte)
      <3>1. f[k] \in Seq(Byte)
        BY <1>8 DEF Partial
      <3>2. W(f[k]) \in Seq(Byte)
        BY <1>0, <3>1, WithBreaksType DEF W
      <3> QED
        BY <3>2
    <2>2. h[0] = <<>>
      BY <1>6, <1>10
    <2>3. ASSUME NEW k \in 1..n PROVE h[k] = h[k - 1] \o qq[k]
      <3>1. k - 1 \in 0..(n - 1) /\ (k - 1) + 1 = k /\ k \in 0..n /\ k - 1 \in 0..n
        BY <1>6
      <3>2. W(f[k]) = W(f[k - 1]) \o qq[k]
        BY <1>9, <3>1
      <3> QED
        BY <3>1, <3>2
    <2> QED
      BY <2>1, <2>2, <2>3 DEF Partial
  <1>12. FlattenSeq(qq) = h[n] /\ h[n] = W(f[n])
    <2>1. h[n] = W(f[n])
      BY <1>6
    <2> HIDE DEF h
    <2> QED
      BY <1>6, <1>11, <2>1, FlattenIsPartial
  <1>13. FlattenSeq(pp) = f[n]
    BY <1>6, <1>8, FlattenIsPartial
  <1>14. Joined(ls, bs) = FlattenSeq(pp) /\ Joined(ls, to) = FlattenSeq(qq)
    BY <1>1, <1>3 DEF JoinedParts
  <1> QED
    BY <1>12, <1>13, <1>14 DEF bs, to, W

(* Lines that are text arrive as text, with the receiver's breaks.           *)
Text == 0..127

LEMMA TextBytes ==
  ASSUME NEW data \in Seq(Byte)
  PROVE  IsText(data) <=> data \in Seq(Text)
  <1>1. \A i \in 1..Len(data) : data[i] \in Byte
    BY ElementOfSeq
  <1>2. \A b \in Byte : b < 128 <=> b \in Text
    BY SMT DEF Byte, Text
  <1>3. ASSUME IsText(data) PROVE data \in Seq(Text)
    <2>1. \A i \in 1..Len(data) : data[i] \in Text
      BY <1>1, <1>2, <1>3 DEF IsText
    <2> QED
      BY <2>1, IsASeq
  <1>4. ASSUME data \in Seq(Text) PROVE IsText(data)
    <2>1. \A i \in 1..Len(data) : data[i] \in Text
      BY <1>4, ElementOfSeq
    <2> QED
      BY <1>1, <1>2, <2>1 DEF IsText
  <1> QED
    BY <1>3, <1>4

(* os.linesep, and the breaks of TYPE A.                                     *)
LineSeparators == {<<10>>, <<13, 10>>}

LEMMA TextStays ==
  ASSUME NEW data \in Seq(Byte), NEW break \in LineSeparators
  PROVE  /\ WithBreaks(Normalized(data), break) \in Seq(Byte)
         /\ IsText(data) => IsText(WithBreaks(Normalized(data), break))
  <1> DEFINE d == WithBreaks(Normalized(data), break)
  <1>1. ASSUME NEW S, 10 \in S, 13 \in S, data \in Seq(S) PROVE d \in Seq(S)
    <2>1. break \in Seq(S)
      <3>1. <<10>> \in Seq(S) /\ <<13, 10>> \in Seq(S)
        BY <1>1
      <3> QED
        BY <3>1 DEF LineSeparators
    <2>2. Normalized(data) \in Seq(S)
      BY <1>1, NormalizedType
    <2> QED
      BY <2>1, <2>2, WithBreaksType
  <1>2. 10 \in Byte /\ 13 \in Byte /\ 10 \in Text /\ 13 \in Text
    BY SMT DEF Byte, Text
  <1>3. d \in Seq(Byte)
    BY <1>1, <1>2
  <1>4. data \in Seq(Text) => d \in Seq(Text)
    BY <1>1, <1>2
  <1> HIDE DEF d
  <1>5. IsText(data) => IsText(d)
    BY <1>3, <1>4, TextBytes
  <1> QED
    BY <1>3, <1>5 DEF d

LEMMA TextArrives ==
  ASSUME NEW n, NEW ls, NEW bs, TextFile(n, ls, bs), Unmerged(n, ls, bs),
         NEW break \in LineSeparators
  PROVE  WithBreaks(Normalized(WithBreaks(Normalized(Joined(ls, bs)), <<13, 10>>)), break) =
           Joined(ls, AllBreaks(n, break))
  <1> DEFINE lf == [k \in 1..(n - 1) |-> <<10>>]
             crlf == [k \in 1..(n - 1) |-> <<13, 10>>]
  <1>1. TextFile(n, ls, lf) /\ TextFile(n, ls, crlf)
    BY BreakBytes DEF TextFile
  <1>2. Unmerged(n, ls, crlf)
    <2>1. ASSUME NEW k \in 1..(n - 2) PROVE crlf[k] # <<13>>
      <3>1. k \in 1..(n - 1)
        BY DEF TextFile
      <3>2. crlf[k] = <<13, 10>>
        BY <3>1
      <3>3. Len(<<13, 10>>) # Len(<<13>>)
        OBVIOUS
      <3> HIDE DEF crlf
      <3> QED
        BY <3>2, <3>3
    <2> HIDE DEF crlf
    <2> QED
      BY <2>1 DEF Unmerged
  <1>3. Normalized(Joined(ls, bs)) = Joined(ls, lf)
    BY NormalizedJoined
  <1>4. ASSUME NEW to \in Breaks
        PROVE  WithBreaks(Joined(ls, lf), to) = Joined(ls, [k \in 1..(n - 1) |-> to])
    <2>1. TextFile(n, ls, AllLF(n))
      BY <1>1 DEF AllBreaks, AllLF
    <2>2. WithBreaks(Joined(ls, AllLF(n)), to) = Joined(ls, AllBreaks(n, to))
      BY <2>1, WithBreaksJoined
    <2> QED
      BY <2>2 DEF AllBreaks, AllLF
  <1>5. Normalized(Joined(ls, crlf)) = Joined(ls, lf)
    BY <1>1, <1>2, NormalizedJoined
  <1>6. break \in Breaks /\ <<13, 10>> \in Breaks
    BY BreakBytes DEF LineSeparators
  <1>7. WithBreaks(Joined(ls, lf), break) = Joined(ls, [k \in 1..(n - 1) |-> break])
    BY <1>4, <1>6
  <1>8. WithBreaks(Joined(ls, lf), <<13, 10>>) = Joined(ls, crlf)
    BY <1>4, <1>6
  <1> HIDE DEF lf, crlf
  <1> QED
    BY <1>3, <1>5, <1>7, <1>8 DEF AllBreaks

(* MODE: what is encoded is decoded, and a front of blocks is refused.       *)
LEMMA ModeUndone ==
  ASSUME NEW data \in Seq(Byte), NEW mode \in Modes
  PROVE  /\ OutgoingMode(data, mode) \in Seq(Byte)
         /\ IncomingMode(OutgoingMode(data, mode), mode) = data
         /\ mode = "B" => \A m \in 0..(Len(OutgoingMode(data, mode)) - 1) :
                            DecodeBlocks(SubSeq(OutgoingMode(data, mode), 1, m)) = Invalid
  <1>1. CASE mode = "S"
    BY <1>1 DEF OutgoingMode, IncomingMode
  <1>2. CASE mode = "B"
    <2>1. PICK n, cc, ss : /\ Blocks(n, cc, ss)
                           /\ FlattenSeq(cc) = data /\ FlattenSeq(ss) = EncodeBlocks(data)
      BY BlocksOf
    <2>2. DecodeBlocks(FlattenSeq(ss)) = FlattenSeq(cc)
      BY <2>1, Decoded
    <2>3. FlattenSeq(ss) \in Seq(Byte)
      <3>1. Pieces(Byte, n, ss)
        BY <2>1, BlocksType
      <3> QED
        BY <3>1, FlattenType
    <2>4. \A m \in 0..(Len(FlattenSeq(ss)) - 1) : DecodeBlocks(SubSeq(FlattenSeq(ss), 1, m)) = Invalid
      BY <2>1, DecodedFront
    <2>5. /\ OutgoingMode(data, mode) = EncodeBlocks(data)
          /\ IncomingMode(EncodeBlocks(data), mode) = DecodeBlocks(EncodeBlocks(data))
      BY <1>2 DEF OutgoingMode, IncomingMode
    <2> QED
      BY <2>1, <2>2, <2>3, <2>4, <2>5
  <1>3. CASE mode = "C"
    <2>1. 120 \in Byte
      BY SMT DEF Byte
    <2> DEFINE x == <<120>>  c == x \o data
    <2>2. x \in Seq(Byte)
      BY <2>1
    <2>a. Len(x) = 1 /\ x[1] = 120
      OBVIOUS
    <2> HIDE DEF x
    <2>3. c \in Seq(Byte) /\ Parts(c, x, data, Len(x), Len(data))
      BY <2>2, ConcatParts
    <2> HIDE DEF c
    <2>4. Len(c) = 1 + Len(data) /\ c[1] = 120 /\ \A i \in 1..Len(data) : c[1 + i] = data[i]
      BY <2>a, <2>3 DEF Parts
    <2>5. c # <<>>
      BY <2>4
    <2>6. Tail(c) = data
      <3>1. Tail(c) \in Seq(Byte) /\ Len(Tail(c)) = Len(data)
        BY <2>3, <2>4, <2>5
      <3>2. ASSUME NEW i \in 1..Len(data) PROVE Tail(c)[i] = data[i]
        <4>1. Tail(c)[i] = c[i + 1] /\ i + 1 = 1 + i
          BY <2>3, <3>1
        <4> QED
          BY <2>4, <4>1
      <3> QED
        BY <3>1, <3>2, SeqEqual
    <2>7. OutgoingMode(data, mode) = c /\ IncomingMode(c, mode) = Decompress(c)
      BY <1>3 DEF OutgoingMode, IncomingMode, Compress, c, x
    <2>8. Decompress(c) = data
      BY <2>4, <2>5, <2>6 DEF Decompress
    <2> QED
      BY <1>3, <2>3, <2>7, <2>8
  <1> QED
    BY <1>1, <1>2, <1>3 DEF Modes

-----------------------------------------------------------------------------
(* The invariant *)

(* A file is lines of bytes with breaks between them, no two of which are    *)
(* one.                                                                      *)
FileInv ==
  /\ TextFile(Len(lines), lines, breaks) /\ Unmerged(Len(lines), lines, breaks)
  /\ transfer_type \in Types /\ transfer_mode \in Modes /\ linesep \in LineSeparators

(* Nothing is sent before the file is encoded, then its chunks in order.     *)
SentInv ==
  /\ stage \in {"encode", "send", "done", "refused"}
  /\ stage \in {"encode", "refused"} => arrived = <<>> /\ unpacked = NothingYet
  /\ wire \in Seq(Byte) /\ arrived \in Seq(Seq(Byte))
  /\ \A k \in 1..Len(arrived) : arrived[k] = PacketPayload(k)

(* What is sent is the file in its TYPE and MODE; what is refused has none.  *)
EncodedInv ==
  /\ stage = "refused" => OutgoingType(file, transfer_type) = Invalid
  /\ stage \in {"send", "done"} =>
       /\ OutgoingType(file, transfer_type) # Invalid
       /\ wire = OutgoingMode(OutgoingType(file, transfer_type), transfer_mode)
  /\ stage = "done" => result = IncomingType(OutgoingType(file, transfer_type), transfer_type)

PathInv == FileInv /\ SentInv /\ EncodedInv /\ DamageDetected

LEMMA LinesPlain == Lines \subseteq PlainLines(Byte)
  <1>1. /\ \A line \in Lines : line \in Seq(Byte)
        /\ \A line \in Lines : \A i \in 1..Len(line) : line[i] \notin {10, 13}
    BY PathAssumption DEF Byte
  <1> QED
    BY <1>1 DEF PlainLines

LEMMA PacketsCover ==
  ASSUME wire \in Seq(Byte)
  PROVE  /\ TotalPackets \in Nat \ {0}
         /\ FlattenSeq([k \in 1..TotalPackets |-> PacketPayload(k)]) = wire
         /\ \A k \in Nat \ {0} : PacketPayload(k) \in Seq(Byte)
  <1> DEFINE n == TotalPackets  size == MAX_PAYLOAD
  <1>1. size \in Nat \ {0}
    BY PathAssumption
  <1>2. Len(wire) \in Nat /\ (wire = <<>> <=> Len(wire) = 0)
    OBVIOUS
  <1> HIDE DEF size
  <1>3. n \in Nat \ {0} /\ (n - 1) * size <= Len(wire) /\ Len(wire) <= n * size
    <2>1. CASE wire = <<>>
      <3>1. n = 1 /\ Len(wire) = 0
        BY <1>2, <2>1 DEF TotalPackets
      <3>2. 0 * size = 0 /\ 1 * size = size
        BY <1>1, SMT
      <3> QED
        BY <1>1, <3>1, <3>2
    <2>2. CASE wire # <<>>
      <3>1. n = UpperBound(Len(wire), size) /\ Len(wire) # 0
        BY <1>2, <2>2 DEF TotalPackets, size
      <3> HIDE DEF n
      <3> QED
        BY <1>1, <1>2, <3>1, UpperBoundCovers
    <2> QED
      BY <2>1, <2>2
  <1> HIDE DEF n
  <1>4. FlattenSeq([k \in 1..n |-> Chunk(wire, size, k)]) = wire
    BY <1>1, <1>3, ChunksFlatten
  <1>5. \A k \in Nat \ {0} : Chunk(wire, size, k) \in Seq(Byte)
    BY <1>1, ChunkSlice
  <1> QED
    BY <1>3, <1>4, <1>5 DEF n, size, PacketPayload

(* TYPE at the sender, and what the receiver makes of it.                    *)
LEMMA TypeUndone ==
  ASSUME FileInv
  PROVE  LET data == OutgoingType(file, transfer_type) IN
         /\ file \in Seq(Byte)
         /\ data = Invalid => transfer_type = "A" /\ ~IsText(file)
         /\ data # Invalid =>
              /\ data \in Seq(Byte)
              /\ IncomingType(data, transfer_type) =
                   IF transfer_type = "I" THEN file
                   ELSE Joined(lines, [k \in 1..Len(breaks) |-> linesep])
  <1> DEFINE n == Len(lines)  data == OutgoingType(file, transfer_type)
  <1>1. /\ TextFile(n, lines, breaks) /\ Unmerged(n, lines, breaks)
        /\ transfer_type \in {"A", "I"} /\ linesep \in LineSeparators
    BY DEF FileInv, Types
  <1> HIDE DEF n
  <1>2. file \in Seq(Byte)
    <2>1. JoinedParts(n, lines, breaks, JoinedPieces(lines, breaks))
      BY <1>1, JoinedType
    <2>2. /\ Pieces(Byte, n, JoinedPieces(lines, breaks))
          /\ file = FlattenSeq(JoinedPieces(lines, breaks))
      BY <2>1 DEF JoinedParts, file
    <2> QED
      BY <2>2, FlattenType
  <1>3. Len(breaks) = n - 1
    BY <1>1 DEF TextFile
  <1>4. file = Joined(lines, breaks)
    BY DEF file
  <1>5. CASE transfer_type = "I"
    <2>1. data = file /\ IncomingType(data, transfer_type) = data
      BY <1>5 DEF OutgoingType, IncomingType
    <2>2. file # Invalid
      BY <1>2, NotInvalid
    <2> QED
      BY <1>2, <1>5, <2>1, <2>2
  <1>6. CASE transfer_type = "A"
    <2> DEFINE out == WithBreaks(Normalized(file), <<13, 10>>)
    <2>1. data = IF IsText(file) THEN out ELSE Invalid
      BY <1>6 DEF OutgoingType
    <2>2. out \in Seq(Byte) /\ (IsText(file) => IsText(out))
      BY <1>2, TextStays DEF LineSeparators
    <2>3. out # Invalid
      BY <2>2, NotInvalid
    <2>4. WithBreaks(Normalized(out), linesep) = Joined(lines, [k \in 1..(n - 1) |-> linesep])
      <3>1. WithBreaks(Normalized(WithBreaks(Normalized(Joined(lines, breaks)), <<13, 10>>)),
                       linesep) = Joined(lines, AllBreaks(n, linesep))
        <4> HIDE DEF out, data
        <4> QED
          BY <1>1, TextArrives
      <3> QED
        BY <1>4, <3>1 DEF AllBreaks
    <2>5. IncomingType(out, transfer_type) =
            IF IsText(out) THEN WithBreaks(Normalized(out), linesep) ELSE Invalid
      BY <1>6 DEF IncomingType
    <2> HIDE DEF out, data
    <2> QED
      BY <1>2, <1>3, <1>6, <2>1, <2>2, <2>3, <2>4, <2>5 DEF data
  <1> QED
    BY <1>1, <1>5, <1>6

LEMMA InitPathInv == PathInit => PathInv
  <1> SUFFICES ASSUME PathInit PROVE PathInv
    OBVIOUS
  <1>1. PICK n \in 1..MaxLines :
          /\ lines \in [1..n -> Lines] /\ breaks \in [1..(n - 1) -> Breaks]
          /\ \A k \in 1..(n - 2) :
               ~(breaks[k] = <<13>> /\ lines[k + 1] = <<>> /\ breaks[k + 1][1] = 10)
    BY DEF PathInit
  <1>2. n \in Nat \ {0} /\ Len(lines) = n
    <2>1. MaxLines \in Nat
      BY PathAssumption
    <2> QED
      BY <1>1, <2>1
  <1>3. TextFile(n, lines, breaks) /\ Unmerged(n, lines, breaks)
    BY <1>1, <1>2, LinesPlain DEF TextFile, Unmerged
  <1>4. FileInv
    BY <1>2, <1>3 DEF FileInv, PathInit, LineSeparators
  <1>5. SentInv /\ EncodedInv /\ DamageDetected
    BY DEF PathInit, SentInv, EncodedInv, DamageDetected
  <1> QED
    BY <1>4, <1>5 DEF PathInv

LEMMA EncodeKeeps == PathInv /\ Encode => PathInv'
  <1> SUFFICES ASSUME PathInv, Encode PROVE PathInv'
    OBVIOUS
  <1> DEFINE data == OutgoingType(file, transfer_type)
  <1>1. /\ lines' = lines /\ breaks' = breaks /\ transfer_type' = transfer_type
        /\ transfer_mode' = transfer_mode /\ linesep' = linesep /\ arrived' = arrived
        /\ unpacked' = unpacked /\ file' = file /\ data' = data
        /\ arrived = <<>> /\ unpacked = NothingYet
    BY DEF Encode, PathInv, SentInv, file, OutgoingType
  <1>2. FileInv'
    BY <1>1 DEF PathInv, FileInv
  <1>3. data # Invalid => data \in Seq(Byte)
    BY TypeUndone DEF PathInv
  <1>4. transfer_mode \in Modes /\ wire \in Seq(Byte)
    BY DEF PathInv, FileInv, SentInv
  <1>5. /\ data = Invalid => stage' = "refused" /\ wire' = wire
        /\ data # Invalid => stage' = "send" /\ wire' = OutgoingMode(data, transfer_mode)
    BY DEF Encode
  <1> HIDE DEF data
  <1>6. wire' \in Seq(Byte) /\ stage' \in {"send", "refused"}
    BY <1>3, <1>4, <1>5, ModeUndone
  <1>7. SentInv'
    BY <1>1, <1>6 DEF SentInv
  <1>8. EncodedInv'
    BY <1>1, <1>5, <1>6 DEF EncodedInv, data
  <1>9. DamageDetected'
    BY <1>1 DEF DamageDetected, NothingYet
  <1> QED
    BY <1>2, <1>7, <1>8, <1>9 DEF PathInv

LEMMA TransmitKeeps == PathInv /\ Transmit => PathInv'
  <1> SUFFICES ASSUME PathInv, Transmit PROVE PathInv'
    OBVIOUS
  <1> DEFINE k == Len(arrived) + 1  payload == PacketPayload(k)
             packet == pack_packet(k - 1, 0, FLAG_DATA, payload)
  <1>1. /\ lines' = lines /\ breaks' = breaks /\ transfer_type' = transfer_type
        /\ transfer_mode' = transfer_mode /\ linesep' = linesep /\ stage' = stage
        /\ wire' = wire /\ result' = result /\ stage = "send"
    BY DEF Transmit
  <1>2. PICK bytes \in {packet} \cup Damaged(packet) :
          /\ verify_checksum(bytes) /\ CanUnpack(bytes)
          /\ unpacked' = unpack_packet(bytes)
          /\ arrived' = Append(arrived, unpack_packet(bytes).payload)
    BY DEF Transmit
  <1>3. /\ wire \in Seq(Byte) /\ arrived \in Seq(Seq(Byte)) /\ k \in Nat \ {0} /\ k - 1 \in Int
        /\ Len(arrived) = k - 1 /\ \A j \in 1..Len(arrived) : arrived[j] = PacketPayload(j)
    BY DEF PathInv, SentInv
  <1>4. payload \in Seq(Byte) /\ payload \in Seq(Int)
    <2>1. payload \in Seq(Byte)
      BY <1>3, PacketsCover
    <2>2. \A i \in 1..Len(payload) : payload[i] \in Int
      BY <2>1, ElementOfSeq, Bytes
    <2> HIDE DEF payload
    <2>3. payload \in Seq(Int)
      BY <2>1, <2>2, IsASeq
    <2> QED
      BY <2>1, <2>3
  <1> HIDE DEF k, payload
  <1>5. unpack_packet(bytes) = [seq |-> FourBytes(k - 1), ack |-> FourBytes(0),
                                flags |-> FLAG_DATA, payload |-> payload]
    <2>1. packet = pack_packet(k - 1, 0, FLAG_DATA, payload)
      OBVIOUS
    <2> HIDE DEF packet
    <2> QED
      BY <1>2, <1>3, <1>4, <2>1, Taken
  <1> HIDE DEF packet
  <1>6. arrived' = Append(arrived, payload)
    BY <1>2, <1>5
  <1>7. /\ arrived' \in Seq(Seq(Byte)) /\ Len(arrived') = k
        /\ arrived'[k] = payload /\ \A j \in 1..(k - 1) : arrived'[j] = arrived[j]
    <2>1. k = Len(arrived) + 1
      BY <1>3
    <2> QED
      BY <1>3, <1>4, <1>6, <2>1, AppendProperties
  <1>8. \A j : PacketPayload(j)' = PacketPayload(j)
    BY <1>1 DEF PacketPayload
  <1>9. payload = PacketPayload(k)
    BY DEF payload
  <1>10. FileInv'
    BY <1>1 DEF PathInv, FileInv
  <1>11. SentInv'
    <2>1. ASSUME NEW j \in 1..Len(arrived') PROVE arrived'[j] = PacketPayload(j)'
      <3>1. j = k \/ j \in 1..(k - 1)
        BY <1>3, <1>7
      <3> QED
        BY <1>3, <1>7, <1>8, <1>9, <3>1
    <2> QED
      BY <1>1, <1>3, <1>7, <2>1 DEF SentInv
  <1>12. EncodedInv'
    <2>1. file' = file
      BY <1>1 DEF file
    <2>2. OutgoingType(file, transfer_type)' = OutgoingType(file, transfer_type)
      BY <1>1, <2>1 DEF OutgoingType
    <2> QED
      BY <1>1, <2>2 DEF PathInv, EncodedInv
  <1>13. DamageDetected'
    BY <1>2, <1>5, <1>7, <1>8, <1>9 DEF DamageDetected
  <1> QED
    BY <1>10, <1>11, <1>12, <1>13 DEF PathInv

LEMMA DecodeKeeps == PathInv /\ Decode => PathInv'
  <1> SUFFICES ASSUME PathInv, Decode PROVE PathInv'
    OBVIOUS
  <1> DEFINE out == OutgoingType(file, transfer_type)
             data == IncomingMode(FlattenSeq(arrived), transfer_mode)
  <1>1. /\ lines' = lines /\ breaks' = breaks /\ transfer_type' = transfer_type
        /\ transfer_mode' = transfer_mode /\ linesep' = linesep /\ wire' = wire
        /\ arrived' = arrived /\ unpacked' = unpacked /\ stage' = "done" /\ stage = "send"
        /\ Len(arrived) = TotalPackets
        /\ result' = IF data = Invalid THEN Invalid ELSE IncomingType(data, transfer_type)
    BY DEF Decode
  <1>2. /\ out # Invalid /\ wire = OutgoingMode(out, transfer_mode)
        /\ wire \in Seq(Byte) /\ arrived \in Seq(Seq(Byte)) /\ transfer_mode \in Modes
        /\ \A k \in 1..Len(arrived) : arrived[k] = PacketPayload(k)
    BY <1>1 DEF PathInv, FileInv, SentInv, EncodedInv
  <1>3. out \in Seq(Byte)
    BY <1>2, TypeUndone DEF PathInv
  <1>4. FlattenSeq(arrived) = wire
    <2>1. arrived = [k \in 1..TotalPackets |-> PacketPayload(k)]
      <3>1. arrived = [k \in 1..Len(arrived) |-> arrived[k]]
        BY <1>2
      <3> QED
        BY <1>1, <1>2, <3>1
    <2> QED
      BY <1>2, <2>1, PacketsCover
  <1> HIDE DEF out
  <1>5. IncomingMode(OutgoingMode(out, transfer_mode), transfer_mode) = out
    BY <1>2, <1>3, ModeUndone
  <1>6. data = out
    BY <1>2, <1>4, <1>5
  <1> HIDE DEF data
  <1>7. result' = IncomingType(out, transfer_type)
    BY <1>1, <1>2, <1>6
  <1>8. /\ file' = file /\ \A k : PacketPayload(k)' = PacketPayload(k)
        /\ \A d : IncomingType(d, transfer_type)' = IncomingType(d, transfer_type)
    BY <1>1 DEF file, PacketPayload, IncomingType
  <1>9. out' = out
    BY <1>1, <1>8 DEF OutgoingType, out
  <1>10. FileInv' /\ SentInv'
    BY <1>1, <1>8 DEF PathInv, FileInv, SentInv
  <1>11. EncodedInv'
    <2>1. IncomingType(out, transfer_type)' = IncomingType(out, transfer_type)
      BY <1>1, <1>9 DEF IncomingType
    <2> QED
      BY <1>1, <1>2, <1>7, <1>9, <2>1 DEF EncodedInv, out
  <1>12. DamageDetected'
    BY <1>1, <1>8 DEF PathInv, DamageDetected
  <1> QED
    BY <1>10, <1>11, <1>12 DEF PathInv

LEMMA PathInvStep == PathInv /\ [PathNext]_path_vars => PathInv'
  <1> SUFFICES ASSUME PathInv, [PathNext]_path_vars PROVE PathInv'
    OBVIOUS
  <1>1. CASE Encode
    BY <1>1, EncodeKeeps
  <1>2. CASE Transmit
    BY <1>2, TransmitKeeps
  <1>3. CASE Decode
    BY <1>3, DecodeKeeps
  <1>4. CASE UNCHANGED path_vars
    <2>1. /\ file' = file /\ \A k : PacketPayload(k)' = PacketPayload(k)
      BY <1>4 DEF file, PacketPayload, path_vars
    <2>2. /\ OutgoingType(file, transfer_type)' = OutgoingType(file, transfer_type)
          /\ IncomingType(OutgoingType(file, transfer_type), transfer_type)' =
               IncomingType(OutgoingType(file, transfer_type), transfer_type)
      BY <1>4, <2>1 DEF OutgoingType, IncomingType, path_vars
    <2>3. FileInv' /\ SentInv'
      BY <1>4, <2>1 DEF PathInv, FileInv, SentInv, path_vars
    <2>4. EncodedInv' /\ DamageDetected'
      BY <1>4, <2>1, <2>2 DEF PathInv, EncodedInv, DamageDetected, path_vars
    <2> QED
      BY <2>3, <2>4 DEF PathInv
  <1> QED
    BY <1>1, <1>2, <1>3, <1>4 DEF PathNext

LEMMA PathInvHolds == PathSpec => []PathInv
  BY InitPathInv, PathInvStep, PTL DEF PathSpec

-----------------------------------------------------------------------------
(* The theorems *)

(* What the receiver unpacks is what the sender packed, header and payload,  *)
(* for payloads of any size and bits flipped at any place: the sum of the    *)
(* 16-bit words of a packet is a multiple of 65535, and a flipped bit, which *)
(* changes one word by a power of two, leaves none (shared/checksum.py); a   *)
(* front of a packet is shorter than its length field says.                  *)
THEOREM DamageIsDetected == PathSpec => []DamageDetected
  <1>1. PathInv => DamageDetected
    BY DEF PathInv
  <1> QED
    BY <1>1, PathInvHolds, PTL

(* TYPE I brings the bytes of a file of any size in every MODE, TYPE A its   *)
(* lines with the line breaks of the receiver, whatever mixture of CR, LF    *)
(* and CRLF it has; no front of a MODE B stream is taken for a file; and     *)
(* only a file that is not text is refused, in TYPE A (transfer_codec.py,    *)
(* block_mode.py, rdt_sender.py).                                            *)
THEOREM FileAlwaysArrives == PathSpec => []FileArrives
  <1>1. PathInv => FileArrives
    <2> SUFFICES ASSUME PathInv PROVE FileArrives
      OBVIOUS
    <2> DEFINE data == OutgoingType(file, transfer_type)
    <2>1. /\ data = Invalid => transfer_type = "A" /\ ~IsText(file)
          /\ data # Invalid =>
               /\ data \in Seq(Byte)
               /\ IncomingType(data, transfer_type) =
                    IF transfer_type = "I" THEN file
                    ELSE Joined(lines, [k \in 1..Len(breaks) |-> linesep])
      BY TypeUndone DEF PathInv
    <2>2. /\ stage = "refused" => data = Invalid
          /\ stage \in {"send", "done"} => data # Invalid /\ wire = OutgoingMode(data, transfer_mode)
          /\ stage = "done" => result = IncomingType(data, transfer_type)
          /\ transfer_mode \in Modes
      BY DEF PathInv, EncodedInv, FileInv
    <2> HIDE DEF data
    <2>3. ASSUME stage = "send", transfer_mode = "B", NEW m \in 0..(Len(wire) - 1)
          PROVE  DecodeBlocks(SubSeq(wire, 1, m)) = Invalid
      BY <2>1, <2>2, <2>3, ModeUndone
    <2> QED
      BY <2>1, <2>2, <2>3 DEF FileArrives
  <1> QED
    BY <1>1, PathInvHolds, PTL
=============================================================================

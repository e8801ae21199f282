--------------------------- MODULE TcpBufferProofs --------------------------
(***************************************************************************)
(* The answer arrives in order and whole, or the client knows that it did  *)
(* not, for blocks of any size, any output and any length of the query     *)
(* that an int holds.                                                      *)
(***************************************************************************)
EXTENDS TcpBuffer, TLAPS

Slots   == HEADER .. BUFFER_SIZE - 1
Headers == [status : Codes, last : BOOLEAN, b1 : 0 .. Byte - 1, b2 : 0 .. Byte - 1]
Blocks  == [header : Headers, bytes : [Slots -> Nat]]

-----------------------------------------------------------------------------
(* The parts of the invariant.                                              *)

Types ==
  /\ query_length \in QueryLengths /\ query_size \in Int
  /\ buffer \in [Slots -> Nat] /\ header \in Headers /\ current_pos \in Slots
  /\ remaining \in Nat /\ written \in Nat /\ written + remaining <= MaxOutput
  /\ sock \in {"open", "closed", "destroyed"} /\ up \in BOOLEAN
  /\ channel \in Seq(Blocks) /\ out \in Seq(Nat)
  /\ exit \in Codes \cup {"none", "connection_error"}

\* The output before the bytes that are in the buffer.
Sent == written - (current_pos - HEADER)

\* The buffer holds the end of the output.
Buffered ==
  sock = "open" =>
    Sent >= 0 /\ \A i \in HEADER .. current_pos - 1 : buffer[i] = Sent + 1 + (i - HEADER)

\* The block carries the bytes a + 1 .. b of the output, and says how many.
Carries(block, a, b) ==
  /\ a <= b /\ block.header.b1 + block.header.b2 * Byte = HEADER + (b - a)
  /\ HEADER + (b - a) <= BUFFER_SIZE
  /\ \A i \in 1 .. b - a : block.bytes[HEADER - 1 + i] = a + i

\* The blocks on their way carry the output on from what the client printed: block k
\* begins after byte at[k].
Stream(at) ==
  LET n == Len(channel)
  IN  /\ at[1] = Len(out)
      /\ \A k \in 1 .. n + 1 : at[k] <= written
      /\ sock = "open" => at[n + 1] = Sent
      /\ \A k \in 1 .. n :
           /\ Carries(channel[k], at[k], at[k + 1])
           /\ channel[k].header.last => k = n /\ at[k + 1] = written

Printed == \A i \in 1 .. Len(out) : out[i] = i

Streams == Printed /\ \E at \in [1 .. Len(channel) + 1 -> 0 .. MaxOutput] : Stream(at)

\* Only the destructor marks a block, with the status set last.
Marked ==
  /\ sock = "open" => ~header.last
  /\ \A k \in 1 .. Len(channel) :
       channel[k].header.last => sock = "destroyed" /\ channel[k].header.status = header.status

\* The session's int holds the length of the query.
Short == query_length < Lengths \div 2

\* A session that ends on a connection that works leaves a marked block.
Ended ==
  /\ sock = "closed" => ~up
  /\ sock = "destroyed" /\ up /\ Short /\ exit = "none" =>
       channel # << >> /\ channel[Len(channel)].header.last
  /\ exit = "connection_error" /\ Short => ~up
  /\ exit \notin {"none", "connection_error"} =>
       Len(out) = written /\ sock = "destroyed" /\ exit = header.status

TcpInv == Types /\ Buffered /\ Streams /\ Marked /\ Ended
-----------------------------------------------------------------------------
(* Numbers as bytes.                                                        *)

\* Division with remainder.
LEMMA Division ==
  ASSUME NEW n \in Nat, NEW m \in Nat, m > 0
  PROVE  /\ n \div m \in Nat /\ n % m \in 0 .. m - 1
         /\ n = m * (n \div m) + (n % m)
OBVIOUS

\* A product grows with its factor.
LEMMA ProductGrows ==
  ASSUME NEW m \in Nat, NEW a \in Nat, NEW b \in Nat, a <= b
  PROVE  m * a <= m * b
<1>1. b - a \in Nat
  OBVIOUS
<1>2. \A x, y \in Nat : x * y \in Nat
  OBVIOUS
<1>3. m * b = m * a + m * (b - a)
  OBVIOUS
<1> QED
  BY <1>1, <1>2, <1>3

\* The quotient is the only one with a remainder.
LEMMA QuotientUnique ==
  ASSUME NEW n \in Nat, NEW m \in Nat, m > 0, NEW q \in Nat, NEW r \in Nat,
         r < m, n = m * q + r
  PROVE  n \div m = q /\ n % m = r
<1> DEFINE d == n \div m
           e == n % m
<1>1. d \in Nat /\ e \in Nat /\ e < m /\ n = m * d + e
  BY Division
<1> HIDE DEF d, e
<1>2. ~(d < q)
  <2> SUFFICES ASSUME d + 1 <= q PROVE FALSE
    BY <1>1
  <2>1. m * (d + 1) <= m * q
    BY <1>1, ProductGrows
  <2>2. m * (d + 1) = m * d + m
    BY <1>1
  <2>3. m * d \in Nat /\ m * q \in Nat
    BY <1>1
  <2> QED
    BY <1>1, <2>1, <2>2, <2>3
<1>3. ~(q < d)
  <2> SUFFICES ASSUME q + 1 <= d PROVE FALSE
    BY <1>1
  <2>1. m * (q + 1) <= m * d
    BY <1>1, ProductGrows
  <2>2. m * (q + 1) = m * q + m
    BY <1>1
  <2>3. m * d \in Nat /\ m * q \in Nat
    BY <1>1
  <2> QED
    BY <1>1, <2>1, <2>2, <2>3
<1>4. d = q
  BY <1>1, <1>2, <1>3
<1>5. e = r
  BY <1>1, <1>4
<1> QED
  BY <1>4, <1>5 DEF d, e

\* Two bytes hold every length of a block (TcpBuffer::send and the client's
\* reply_length).
LEMMA TwoBytes ==
  ASSUME NEW n \in Nat, n < Byte * Byte
  PROVE  /\ n % Byte \in 0 .. Byte - 1 /\ (n \div Byte) % Byte \in 0 .. Byte - 1
         /\ (n % Byte) + ((n \div Byte) % Byte) * Byte = n
<1>0. Byte \in Nat /\ Byte > 1
  BY TcpAssumption DEF TcpAssumption
<1> DEFINE d == n \div Byte
           e == n % Byte
<1>1. d \in Nat /\ e \in 0 .. Byte - 1 /\ n = Byte * d + e
  BY <1>0, Division
<1> HIDE DEF d, e
<1>2. d < Byte
  <2> SUFFICES ASSUME Byte <= d PROVE FALSE
    BY <1>0, <1>1
  <2>1. Byte * Byte <= Byte * d
    BY <1>0, <1>1, ProductGrows
  <2>2. Byte * Byte \in Nat /\ Byte * d \in Nat
    BY <1>0, <1>1
  <2> QED
    BY <1>1, <2>1, <2>2
<1>3. d = Byte * 0 + d
  BY <1>0, <1>1
<1>4. d % Byte = d
  BY <1>0, <1>1, <1>2, <1>3, QuotientUnique
<1>5. d \in 0 .. Byte - 1
  BY <1>0, <1>1, <1>2
<1>6. e + d * Byte = n
  <2>1. d * Byte = Byte * d /\ Byte * d \in Int
    BY <1>0, <1>1
  <2> QED
    BY <1>1, <2>1
<1>7. n % Byte = e /\ (n \div Byte) % Byte = d
  BY <1>4 DEF d, e
<1> QED
  BY <1>1, <1>5, <1>6, <1>7

\* Dividing twice is dividing by the product.
LEMMA DivideTwice ==
  ASSUME NEW n \in Nat, NEW m \in Nat, m > 0, NEW k \in Nat, k > 0
  PROVE  n \div (m * k) = (n \div m) \div k
<1> DEFINE q == n \div m
           r == n % m
           p == q \div k
           s == q % k
<1>1. q \in Nat /\ r \in Nat /\ r < m /\ n = m * q + r
  BY Division
<1>2. p \in Nat /\ s \in Nat /\ s < k /\ q = k * p + s
  <2> HIDE DEF q
  <2> QED
    BY <1>1, Division
<1> HIDE DEF q, r, p, s
<1>3. m * k \in Nat /\ m * s \in Nat /\ m * k > 0
  BY <1>2
<1>4. n = (m * k) * p + (m * s + r)
  <2>1. m * (k * p + s) = (m * k) * p + m * s
    BY <1>2
  <2>2. n = ((m * k) * p + m * s) + r
    BY <1>1, <1>2, <2>1
  <2>3. (m * k) * p \in Nat
    BY <1>2, <1>3
  <2> QED
    BY <1>1, <1>3, <2>2, <2>3
<1>5. m * s + r < m * k
  <2>1. m * (s + 1) <= m * k
    BY <1>2, ProductGrows
  <2>2. m * (s + 1) = m * s + m
    BY <1>2
  <2> QED
    BY <1>1, <1>3, <2>1, <2>2
<1>6. m * s + r \in Nat
  BY <1>1, <1>3
<1>7. n \div (m * k) = p
  <2> DEFINE x == m * k
             y == m * s + r
  <2>1. x \in Nat /\ x > 0 /\ y \in Nat /\ y < x /\ n = x * p + y
    BY <1>3, <1>4, <1>5, <1>6
  <2> HIDE DEF x, y
  <2>2. n \div x = p
    BY <1>2, <2>1, QuotientUnique
  <2> QED
    BY <2>2 DEF x
<1> QED
  BY <1>7 DEF p, q

\* The client's four bytes are the session's number, as long as an int is not
\* negative (bin/query.cc, and the shifts of bin/server.cc).
LEMMA DecodedLength ==
  ASSUME NEW n \in Nat
  PROVE  /\ DecodeLength(EncodeLength(n)) \in Int
         /\ n < Lengths \div 2 => DecodeLength(EncodeLength(n)) = n
<1> DEFINE B == Byte
           q1 == n \div B
           q2 == q1 \div B
           q3 == q2 \div B
           r0 == n % B
           r1 == q1 % B
           r2 == q2 % B
           r3 == q3 % B
           sum == r0 + r1 * B + r2 * (B * B) + r3 * (B * B * B)
<1>0. B \in Nat /\ B > 1
  BY TcpAssumption DEF TcpAssumption
<1> HIDE DEF B
<1>1. q1 \in Nat /\ r0 \in Nat /\ n = B * q1 + r0
  BY <1>0, Division
<1>2. q2 \in Nat /\ r1 \in Nat /\ q1 = B * q2 + r1
  <2> HIDE DEF q1
  <2> QED
    BY <1>0, <1>1, Division
<1>3. q3 \in Nat /\ r2 \in Nat /\ q2 = B * q3 + r2
  <2> HIDE DEF q2
  <2> QED
    BY <1>0, <1>2, Division
<1>4. q3 \div B \in Nat /\ r3 \in Nat /\ q3 = B * (q3 \div B) + r3
  <2> HIDE DEF q3
  <2> QED
    BY <1>0, <1>3, Division
<1>5. B * B \in Nat /\ B * B > 0 /\ B * B * B \in Nat /\ B * B * B > 0
  BY <1>0
<1>6. n \div (B * B) = q2
  BY <1>0, DivideTwice
<1>7. n \div (B * B * B) = q3
  <2> DEFINE x == B * B
  <2>1. x \in Nat /\ x > 0
    BY <1>5
  <2> HIDE DEF x, q2
  <2>2. n \div (x * B) = (n \div x) \div B
    BY <1>0, <2>1, DivideTwice
  <2>3. n \div x = q2
    BY <1>6 DEF x
  <2> QED
    BY <2>2, <2>3 DEF x
<1>8. n \div (B * B * B * B) = q3 \div B
  <2> DEFINE x == B * B * B
  <2>1. x \in Nat /\ x > 0
    BY <1>5
  <2> HIDE DEF x, q3
  <2>2. n \div (x * B) = (n \div x) \div B
    BY <1>0, <2>1, DivideTwice
  <2>3. n \div x = q3
    BY <1>7 DEF x
  <2> QED
    BY <2>2, <2>3 DEF x
<1>9. DecodeLength(EncodeLength(n)) =
        IF sum < Lengths \div 2 THEN sum ELSE sum - Lengths
  <2> DEFINE b == EncodeLength(n)
  <2>1. b[1] = (n \div 1) % B /\ b[2] = (n \div B) % B
    BY DEF EncodeLength, Place, B
  <2>2. b[3] = (n \div (B * B)) % B /\ b[4] = (n \div (B * B * B)) % B
    BY DEF EncodeLength, Place, B
  <2>3. n \div 1 = n
    OBVIOUS
  <2>4. b[1] = r0 /\ b[2] = r1 /\ b[3] = r2 /\ b[4] = r3
    BY <1>6, <1>7, <2>1, <2>2, <2>3
  <2>5. Place[2] = B /\ Place[3] = B * B /\ Place[4] = B * B * B
    BY DEF Place, B
  <2> HIDE DEF b, r0, r1, r2, r3
  <2>6. DecodeLength(b) =
          LET x == b[1] + b[2] * Place[2] + b[3] * Place[3] + b[4] * Place[4]
          IN  IF x < Lengths \div 2 THEN x ELSE x - Lengths
    BY DEF DecodeLength
  <2> QED
    BY <2>4, <2>5, <2>6 DEF b
<1>10. Lengths = B * B * B * B /\ Lengths \in Nat /\ Lengths > 0
  <2>1. Lengths = B * B * B * B
    BY DEF Lengths, B
  <2> QED
    BY <1>0, <1>5, <2>1
<1>11. sum \in Nat
  <2>1. r1 * B \in Nat /\ r2 * (B * B) \in Nat /\ r3 * (B * B * B) \in Nat
    BY <1>0, <1>2, <1>3, <1>4, <1>5
  <2> HIDE DEF r0, r1, r2, r3
  <2> QED
    BY <1>1, <2>1
<1>12. ASSUME n < Lengths \div 2 PROVE sum = n
  <2>1. n < Lengths
    BY <1>10, <1>12
  <2>2. q3 \div B = 0
    <3>1. n \div Lengths = 0
      <4>1. n = Lengths * 0 + n
        BY <1>10
      <4> QED
        BY <1>10, <2>1, <4>1, QuotientUnique
    <3> HIDE DEF q3
    <3> QED
      BY <1>8, <1>10, <3>1
  <2>3. r3 = q3
    <3> HIDE DEF q3, r3
    <3> QED
      BY <1>0, <1>3, <1>4, <2>2
  <2> HIDE DEF q1, q2, q3, r0, r1, r2, r3
  <2>4. B * q2 + r1 = q1 /\ B * q3 + r2 = q2
    BY <1>2, <1>3
  <2>5. r2 * (B * B) + q3 * (B * B * B) = (B * B) * (B * q3 + r2)
    BY <1>0, <1>3
  <2>6. r1 * B + (B * B) * q2 = B * (B * q2 + r1)
    BY <1>0, <1>2
  <2>7. /\ r1 * B \in Nat /\ r2 * (B * B) \in Nat /\ q3 * (B * B * B) \in Nat
        /\ (B * B) * q2 \in Nat /\ B * q1 \in Nat
    BY <1>0, <1>1, <1>2, <1>3, <1>5
  <2>8. r2 * (B * B) + q3 * (B * B * B) = (B * B) * q2
    BY <2>4, <2>5
  <2>9. r1 * B + (B * B) * q2 = B * q1
    BY <2>4, <2>6
  <2>10. ASSUME NEW x1 \in Nat, NEW x2 \in Nat, NEW x3 \in Nat, NEW y2 \in Nat, NEW y1 \in Nat,
                x2 + x3 = y2, x1 + y2 = y1
         PROVE  r0 + x1 + x2 + x3 = y1 + r0
    BY <1>1, <2>10
  <2>11. r0 + r1 * B + r2 * (B * B) + q3 * (B * B * B) = B * q1 + r0
    BY <2>7, <2>8, <2>9, <2>10
  <2> QED
    BY <1>1, <2>3, <2>11
<1> HIDE DEF sum
<1>13. DecodeLength(EncodeLength(n)) \in Int
  BY <1>9, <1>10, <1>11
<1>14. n < Lengths \div 2 => DecodeLength(EncodeLength(n)) = n
  BY <1>9, <1>12
<1> QED
  BY <1>13, <1>14

-----------------------------------------------------------------------------
(* A block is sent.                                                         *)

\* The number that stands for a length that was not read.
LEMMA UnreadInt == Unread \in Int
<1>1. Byte * Byte * Byte * Byte \in Int
  BY TcpAssumption DEF TcpAssumption
<1> QED
  BY <1>1 DEF Unread, Lengths

LEMMA Sizes ==
  /\ HEADER = 3 /\ BUFFER_SIZE \in Nat /\ BUFFER_SIZE > 3 /\ MaxOutput \in Nat
  /\ Byte \in Nat /\ Byte > 1 /\ BUFFER_SIZE < Byte * Byte
  /\ Slots = 3 .. BUFFER_SIZE - 1
BY TcpAssumption DEF TcpAssumption, HEADER, Slots

\* The header that is sent has the length, and the status and mark that were set.
LEMMA SealedHeader ==
  ASSUME NEW hd \in Headers, NEW pos \in HEADER .. BUFFER_SIZE
  PROVE  LET sealed == [hd EXCEPT !.b1 = pos % Byte, !.b2 = (pos \div Byte) % Byte]
         IN  /\ sealed \in Headers /\ sealed.b1 + sealed.b2 * Byte = pos
             /\ sealed.status = hd.status /\ (sealed.last <=> hd.last)
<1> DEFINE x == pos % Byte
           y == (pos \div Byte) % Byte
           sealed == [hd EXCEPT !.b1 = x, !.b2 = y]
<1>1. pos \in Nat /\ pos < Byte * Byte
  <2>1. pos \in Nat /\ pos <= BUFFER_SIZE
    BY Sizes
  <2>2. Byte * Byte \in Nat
    BY Sizes
  <2> QED
    BY <2>1, <2>2, Sizes
<1>2. x \in 0 .. Byte - 1 /\ y \in 0 .. Byte - 1 /\ x + y * Byte = pos
  BY <1>1, TwoBytes
<1> HIDE DEF x, y
<1>3. /\ sealed \in Headers /\ sealed.b1 = x /\ sealed.b2 = y
      /\ sealed.status = hd.status /\ (sealed.last <=> hd.last)
  BY <1>2 DEF Headers
<1>4. sealed.b1 + sealed.b2 * Byte = pos
  BY <1>2, <1>3
<1> HIDE DEF sealed
<1> QED
  BY <1>3, <1>4 DEF sealed, x, y

\* What send() leaves behind.
LEMMA SendTypes ==
  ASSUME Types, NEW buf \in [Slots -> Nat], NEW hd \in Headers,
         NEW pos \in HEADER .. BUFFER_SIZE, Send(buf, hd, pos)
  PROVE  /\ buffer' = buf /\ current_pos' = HEADER /\ HEADER \in Slots
         /\ header' \in Headers /\ header'.status = hd.status /\ (header'.last <=> hd.last)
         /\ header'.b1 + header'.b2 * Byte = pos
         /\ channel' \in Seq(Blocks)
         /\ channel' = IF up THEN Append(channel, [header |-> header', bytes |-> buf])
                             ELSE channel
<1>1. /\ header' = [hd EXCEPT !.b1 = pos % Byte, !.b2 = (pos \div Byte) % Byte]
      /\ buffer' = buf /\ current_pos' = HEADER
      /\ channel' = IF up THEN Append(channel, [header |-> header', bytes |-> buf])
                          ELSE channel
  BY DEF Send
<1>2. /\ header' \in Headers /\ header'.status = hd.status /\ (header'.last <=> hd.last)
      /\ header'.b1 + header'.b2 * Byte = pos
  BY <1>1, SealedHeader
<1>3. [header |-> header', bytes |-> buf] \in Blocks
  BY <1>2 DEF Blocks
<1>4. channel' \in Seq(Blocks)
  BY <1>1, <1>3 DEF Types
<1>5. HEADER \in Slots
  BY Sizes
<1> QED
  BY <1>1, <1>2, <1>4, <1>5

\* A block with the bytes after those sent continues the stream; when the connection
\* is broken it does not leave, and the socket is not open any more.
LEMMA SendStream ==
  ASSUME TcpInv, sock = "open", NEW buf \in [Slots -> Nat], NEW hd \in Headers,
         NEW pos \in HEADER .. BUFFER_SIZE, Send(buf, hd, pos),
         \A i \in HEADER .. pos - 1 : buf[i] = Sent + 1 + (i - HEADER),
         written' = Sent + (pos - HEADER), written <= written', written' <= MaxOutput,
         UNCHANGED out, sock' = "open" => up
  PROVE  Streams'
<1> USE DEF TcpInv
<1> DEFINE n == Len(channel)
           a == Sent
           b == written'
           block == [header |-> header', bytes |-> buf]
<1>1. n \in Nat /\ channel \in Seq(Blocks) /\ written \in Nat /\ a \in Int
  BY Sizes DEF Types, Sent
<1>2. a >= 0
  BY DEF Buffered
<1>3. /\ header'.b1 + header'.b2 * Byte = pos /\ current_pos' = HEADER
      /\ channel' = IF up THEN Append(channel, block) ELSE channel
  BY SendTypes
<1>4. PICK at \in [1 .. n + 1 -> 0 .. MaxOutput] : Stream(at)
  BY DEF Streams
<1>5. /\ at[1] = Len(out) /\ at[n + 1] = a
      /\ \A k \in 1 .. n : Carries(channel[k], at[k], at[k + 1]) /\ ~channel[k].header.last
  BY <1>4 DEF Stream, Marked
<1>11. \A k \in 1 .. n + 1 : at[k] <= b
  <2> TAKE k \in 1 .. n + 1
  <2>1. at[k] <= written
    BY <1>4 DEF Stream
  <2>2. at[k] \in Nat
    BY <1>4, Sizes
  <2>3. b \in Int
    BY <1>1, Sizes
  <2> HIDE DEF b
  <2>4. written <= b
    BY DEF b
  <2> QED
    BY <1>1, <2>1, <2>2, <2>3, <2>4
<1>6. b \in 0 .. MaxOutput /\ b - a = pos - HEADER /\ a <= b /\ pos \in Nat
  BY <1>1, <1>2, Sizes
<1>7. Carries(block, a, b)
  <2>1. block.header.b1 + block.header.b2 * Byte = HEADER + (b - a) /\ HEADER + (b - a) = pos
    BY <1>3, <1>6, Sizes
  <2>2. HEADER + (b - a) <= BUFFER_SIZE
    BY <2>1, Sizes
  <2>3. \A i \in 1 .. b - a : block.bytes[HEADER - 1 + i] = a + i
    <3> TAKE i \in 1 .. b - a
    <3> HIDE DEF a, b
    <3>1. HEADER - 1 + i \in HEADER .. pos - 1 /\ (HEADER - 1 + i) - HEADER = i - 1
      BY <1>1, <1>6, Sizes
    <3>2. buf[HEADER - 1 + i] = a + 1 + (i - 1)
      BY <3>1 DEF a
    <3> QED
      BY <1>1, <1>6, <3>2
  <2> QED
    BY <1>6, <2>1, <2>2, <2>3 DEF Carries
<1>8. Printed'
  BY DEF Streams, Printed
<1> HIDE DEF n, a, b, block
<1>9. CASE up
  <2>1. channel' = Append(channel, block) /\ Len(channel') = n + 1 /\ channel'[n + 1] = block
    BY <1>1, <1>3, <1>9 DEF n
  <2>2. \A k \in 1 .. n : channel'[k] = channel[k]
    BY <1>1, <2>1 DEF n
  <2>3. PICK bt \in [1 .. Len(channel') + 1 -> 0 .. MaxOutput] :
          /\ bt[1] = at[1] /\ bt[n + 1] = a /\ bt[n + 2] = b
          /\ \A k \in 1 .. n : bt[k] = at[k] /\ bt[k + 1] = at[k + 1]
    <3> DEFINE ct == [k \in 1 .. n + 2 |-> IF k <= n + 1 THEN at[k] ELSE b]
    <3>1. ct \in [1 .. Len(channel') + 1 -> 0 .. MaxOutput]
      BY <1>1, <1>6, <2>1
    <3>2. /\ ct[1] = at[1] /\ ct[n + 1] = a /\ ct[n + 2] = b
          /\ \A k \in 1 .. n : ct[k] = at[k] /\ ct[k + 1] = at[k + 1]
      BY <1>1, <1>5
    <3> HIDE DEF ct
    <3> QED
      BY <3>1, <3>2
  <2>5. Sent' = b
    BY <1>1, <1>3, <1>6, Sizes DEF Sent, b
  <2>6. ASSUME NEW k \in 1 .. n + 1
        PROVE  /\ Carries(channel'[k], bt[k], bt[k + 1])
               /\ channel'[k].header.last => k = n + 1 /\ bt[k + 1] = b
    <3>1. CASE k = n + 1
      <4>1. channel'[k] = block /\ bt[k] = a /\ bt[k + 1] = b
        BY <1>1, <2>1, <2>3, <3>1
      <4> QED
        BY <1>7, <3>1, <4>1
    <3>2. CASE k \in 1 .. n
      BY <1>5, <2>2, <2>3, <3>2
    <3> QED
      BY <1>1, <3>1, <3>2
  <2>7. /\ bt[1] = Len(out') /\ bt[Len(channel') + 1] = b
        /\ sock' = "open" => bt[Len(channel') + 1] = Sent'
    BY <1>1, <1>5, <1>6, <2>1, <2>3, <2>5
  <2>9. \A k \in 1 .. Len(channel') + 1 : bt[k] <= b
    <3> TAKE k \in 1 .. Len(channel') + 1
    <3>1. CASE k = n + 2
      BY <1>6, <2>3, <3>1
    <3>2. CASE k = n + 1
      BY <1>5, <1>11, <2>3, <3>2, <1>6
    <3>3. CASE k \in 1 .. n
      <4>1. bt[k] = at[k] /\ k \in 1 .. n + 1
        BY <1>1, <2>3, <3>3
      <4> QED
        BY <1>11, <4>1
    <3> QED
      BY <1>1, <2>1, <3>1, <3>2, <3>3
  <2>8. Stream(bt)'
    BY <2>1, <2>6, <2>7, <2>9 DEF Stream, Carries, b
  <2> QED
    BY <1>8, <2>3, <2>8 DEF Streams
<1>10. CASE ~up
  <2>1. channel' = channel /\ sock' # "open"
    BY <1>3, <1>10
  <2>3. Stream(at)'
    BY <1>5, <1>11, <2>1 DEF Stream, Carries, n, b
  <2> QED
    BY <1>4, <1>8, <2>1, <2>3 DEF Streams, n
<1> QED
  BY <1>9, <1>10 DEF Types

\* Bytes copied after those in the buffer continue them.
LEMMA FilledFacts ==
  ASSUME TcpInv, sock = "open", NEW n \in Nat, current_pos + n <= BUFFER_SIZE
  PROVE  /\ Filled(n) \in [Slots -> Nat]
         /\ \A i \in HEADER .. current_pos + n - 1 : Filled(n)[i] = Sent + 1 + (i - HEADER)
<1>1. /\ current_pos \in 3 .. BUFFER_SIZE - 1 /\ written \in Nat /\ buffer \in [Slots -> Nat]
      /\ Sent = written - (current_pos - 3)
  BY Sizes DEF TcpInv, Types, Sent
<1>2. \A i \in HEADER .. current_pos - 1 : buffer[i] = Sent + 1 + (i - HEADER)
  BY DEF TcpInv, Buffered
<1>3. \A i \in Slots :
        Filled(n)[i] = IF i \in current_pos .. current_pos + n - 1
                         THEN written + 1 + (i - current_pos) ELSE buffer[i]
  BY DEF Filled, Slots
<1>4. Filled(n) \in [Slots -> Nat]
  <2>1. ASSUME NEW i \in Slots, i \in current_pos .. current_pos + n - 1
        PROVE  written + 1 + (i - current_pos) \in Nat
    BY <1>1, <2>1, Sizes
  <2> QED
    BY <1>1, <2>1 DEF Filled, Slots
<1>5. ASSUME NEW i \in HEADER .. current_pos + n - 1
      PROVE  Filled(n)[i] = Sent + 1 + (i - HEADER)
  <2>1. i \in Int /\ i >= 3 /\ i < current_pos + n /\ i \in Slots
    BY <1>1, Sizes
  <2>2. CASE i < current_pos
    BY <1>1, <1>2, <1>3, <2>1, <2>2, Sizes
  <2>3. CASE i >= current_pos
    <3>1. Filled(n)[i] = written + 1 + (i - current_pos)
      BY <1>1, <1>3, <2>1, <2>3
    <3> QED
      BY <1>1, <2>1, <3>1, Sizes
  <2> QED
    BY <1>1, <2>1, <2>2, <2>3
<1> QED
  BY <1>4, <1>5

-----------------------------------------------------------------------------
(* Every step keeps TcpInv.                                                 *)

LEMMA InitInv == Init => TcpInv
<1> SUFFICES ASSUME Init PROVE TcpInv
  OBVIOUS
<1> USE Sizes
<1>1. Types
  <2>1. header \in Headers
    BY DEF Init, Headers, Codes
  <2>2. QueryLengths \subseteq Nat
    BY TcpAssumption DEF TcpAssumption
  <2>3. channel \in Seq(Blocks) /\ out \in Seq(Nat)
    BY DEF Init
  <2> QED
    BY <2>1, <2>2, <2>3, UnreadInt DEF Init, Types
<1>2. Buffered
  BY DEF Init, Buffered, Sent
<1>3. Streams
  <2> DEFINE at == [k \in 1 .. 1 |-> 0]
  <2>1. Len(channel) = 0 /\ Len(out) = 0
    BY DEF Init
  <2>2. at \in [1 .. Len(channel) + 1 -> 0 .. MaxOutput] /\ at[1] = 0
    BY <2>1
  <2> HIDE DEF at
  <2>3. Stream(at)
    BY <2>1, <2>2 DEF Stream, Init, Sent
  <2> QED
    BY <2>1, <2>2, <2>3 DEF Streams, Printed
<1>4. Marked
  BY DEF Init, Marked
<1>5. Ended
  BY DEF Init, Ended, Short
<1> QED
  BY <1>1, <1>2, <1>3, <1>4, <1>5 DEF TcpInv

\* A session that is open has sent no marked block.
LEMMA NoneMarked ==
  ASSUME TcpInv, sock = "open"
  PROVE  /\ ~header.last /\ \A k \in 1 .. Len(channel) : ~channel[k].header.last
         /\ exit \in {"none", "connection_error"}
BY DEF TcpInv, Marked, Ended, Short

\* send() by a session that goes on, or loses its socket.
LEMMA SendInv ==
  ASSUME TcpInv, sock = "open", NEW buf \in [Slots -> Nat],
         NEW pos \in HEADER .. BUFFER_SIZE, Send(buf, header, pos),
         \A i \in HEADER .. pos - 1 : buf[i] = Sent + 1 + (i - HEADER),
         written' = Sent + (pos - HEADER), written <= written',
         remaining' \in Nat, written' + remaining' <= MaxOutput,
         sock' = SocketAfterSend,
         UNCHANGED <<query_length, query_size, up, out, exit>>
  PROVE  TcpInv'
<1>1. header \in Headers /\ Sent >= 0 /\ Sent \in Int /\ channel \in Seq(Blocks)
  BY Sizes DEF TcpInv, Types, Buffered, Sent
<1>2. /\ buffer' = buf /\ current_pos' = HEADER /\ HEADER \in Slots
      /\ header' \in Headers /\ header'.status = header.status
      /\ (header'.last <=> header.last)
      /\ channel' \in Seq(Blocks)
      /\ channel' = IF up THEN Append(channel, [header |-> header', bytes |-> buf])
                          ELSE channel
  BY <1>1, SendTypes DEF TcpInv
<1>3. written' \in Nat /\ written' <= MaxOutput
  <2>1. pos - HEADER \in Nat
    BY Sizes
  <2>2. written' \in Nat
    BY <1>1, <2>1
  <2> QED
    BY <2>2, Sizes
<1>4. Types'
  BY <1>2, <1>3 DEF TcpInv, Types, SocketAfterSend
<1>5. Streams'
  <2>1. sock' = "open" => up
    BY DEF SocketAfterSend
  <2> QED
    BY <1>1, <1>3, <2>1, SendStream
<1>6. Buffered'
  <2>1. Sent' = written'
    BY <1>2, <1>3, Sizes DEF Sent
  <2> QED
    BY <1>2, <1>3, <2>1, Sizes DEF Buffered
<1>7. Marked'
  <2>1. \A k \in 1 .. Len(channel') : ~channel'[k].header.last
    <3> TAKE k \in 1 .. Len(channel')
    <3>1. CASE up
      <4>1. (channel'[k] = channel[k] /\ k \in 1 .. Len(channel))
             \/ channel'[k] = [header |-> header', bytes |-> buf]
        BY <1>1, <1>2, <3>1
      <4> QED
        BY <1>2, <4>1, NoneMarked
    <3>2. CASE ~up
      BY <1>2, <3>2, NoneMarked
    <3> QED
      BY <3>1, <3>2
  <2> QED
    BY <1>2, <2>1, NoneMarked DEF Marked
<1>8. Ended'
  BY NoneMarked DEF TcpInv, Ended, Short, SocketAfterSend
<1> QED
  BY <1>4, <1>5, <1>6, <1>7, <1>8 DEF TcpInv

\* Bytes are copied and the buffer has room left.
LEMMA CopyInv ==
  ASSUME TcpInv, sock = "open", NEW n \in Nat, current_pos + n < BUFFER_SIZE,
         buffer' = Filled(n), current_pos' = current_pos + n, written' = written + n,
         remaining' \in Nat, written' + remaining' <= MaxOutput,
         UNCHANGED <<query_length, query_size, header, sock, up, channel, out, exit>>
  PROVE  TcpInv'
<1>1. /\ current_pos \in 3 .. BUFFER_SIZE - 1 /\ written \in Nat
      /\ Sent = written - (current_pos - 3) /\ Sent' = written' - (current_pos' - 3)
  BY Sizes DEF TcpInv, Types, Sent
<1>2. Sent' = Sent
  BY <1>1
<1>3. /\ Filled(n) \in [Slots -> Nat]
      /\ \A i \in HEADER .. current_pos + n - 1 : Filled(n)[i] = Sent + 1 + (i - HEADER)
  BY <1>1, FilledFacts, Sizes
<1>4. Types'
  <2>1. written' \in Nat /\ current_pos' \in Slots /\ buffer' \in [Slots -> Nat]
    BY <1>1, <1>3, Sizes
  <2> QED
    BY <2>1 DEF TcpInv, Types
<1>5. Buffered'
  <2>1. Sent >= 0
    BY DEF TcpInv, Buffered
  <2>2. \A i \in HEADER .. current_pos' - 1 : buffer'[i] = Sent + 1 + (i - HEADER)
    <3>1. HEADER .. current_pos' - 1 = HEADER .. current_pos + n - 1
      BY <1>1
    <3> QED
      BY <1>3, <3>1, Zenon
  <2>3. \A i \in HEADER .. current_pos' - 1 : buffer'[i] = Sent' + 1 + (i - HEADER)
    BY <1>2, <2>2
  <2> QED
    BY <1>2, <2>1, <2>3 DEF Buffered
<1>6. Streams'
  <2>1. PICK at \in [1 .. Len(channel) + 1 -> 0 .. MaxOutput] : Stream(at)
    BY DEF TcpInv, Streams
  <2>2. \A k \in 1 .. Len(channel) + 1 : at[k] <= written'
    <3> TAKE k \in 1 .. Len(channel) + 1
    <3> DEFINE x == at[k]
    <3>1. x \in 0 .. MaxOutput
      BY <2>1
    <3>2. x <= written
      BY <2>1 DEF Stream
    <3> HIDE DEF x
    <3>3. x <= written'
      BY <1>1, <3>1, <3>2, Sizes
    <3> QED
      BY <3>3 DEF x
  <2>3. Stream(at)'
    BY <1>2, <2>1, <2>2, NoneMarked DEF Stream, Carries
  <2> QED
    BY <2>1, <2>3 DEF TcpInv, Streams, Printed
<1>7. Marked' /\ Ended'
  BY NoneMarked DEF TcpInv, Marked, Ended, Short
<1> QED
  BY <1>4, <1>5, <1>6, <1>7 DEF TcpInv

\* A character is added, and the block sent when it is full.
LEMMA OverflowInv ==
  ASSUME TcpInv, Overflow
  PROVE  TcpInv'
<1>1. /\ sock = "open" /\ remaining = 0 /\ written < MaxOutput /\ written' = written + 1
      /\ UNCHANGED <<query_length, query_size, remaining, up, out, exit>>
  BY DEF Overflow, Writing, queryVars, clientVars
<1>2. /\ current_pos \in 3 .. BUFFER_SIZE - 1 /\ written \in Nat
      /\ Sent = written - (current_pos - 3)
  BY Sizes DEF TcpInv, Types, Sent
<1>3. CASE current_pos + 1 = BUFFER_SIZE
  <2>1. Send(Filled(1), header, current_pos + 1) /\ sock' = SocketAfterSend
    BY <1>3 DEF Overflow, Full
  <2>2. /\ Filled(1) \in [Slots -> Nat]
        /\ \A i \in HEADER .. (current_pos + 1) - 1 : Filled(1)[i] = Sent + 1 + (i - HEADER)
    BY <1>1, <1>2, <1>3, FilledFacts, Sizes
  <2>3. /\ current_pos + 1 \in HEADER .. BUFFER_SIZE
        /\ written' = Sent + ((current_pos + 1) - HEADER) /\ written <= written'
        /\ remaining' \in Nat /\ written' + remaining' <= MaxOutput
    BY <1>1, <1>2, <1>3, Sizes
  <2> QED
    BY <1>1, <2>1, <2>2, <2>3, SendInv
<1>4. CASE current_pos + 1 # BUFFER_SIZE
  <2>1. buffer' = Filled(1) /\ current_pos' = current_pos + 1 /\ UNCHANGED <<header, channel, sock>>
    BY <1>4 DEF Overflow, Full
  <2>2. /\ current_pos + 1 < BUFFER_SIZE /\ remaining' \in Nat
        /\ written' + remaining' <= MaxOutput
    BY <1>1, <1>2, <1>4, Sizes
  <2> QED
    BY <1>1, <2>1, <2>2, CopyInv
<1> QED
  BY <1>3, <1>4

\* A string starts, and is copied in turns.
LEMMA XsputnInv ==
  ASSUME TcpInv, (\E n \in 0 .. MaxOutput : Xsputn(n)) \/ CopyRest \/ CopyMax
  PROVE  TcpInv'
<1>0. /\ current_pos \in 3 .. BUFFER_SIZE - 1 /\ written \in Nat /\ remaining \in Nat
      /\ written + remaining <= MaxOutput
      /\ Sent = written - (current_pos - 3) /\ Room = BUFFER_SIZE - current_pos
  BY Sizes DEF TcpInv, Types, Sent, Room
<1>1. CASE \E n \in 0 .. MaxOutput : Xsputn(n)
  <2>1. PICK n \in 0 .. MaxOutput : Xsputn(n)
    BY <1>1
  <2>2. /\ remaining' = n /\ written + n <= MaxOutput /\ n \in Nat
        /\ UNCHANGED <<query_length, query_size, buffer, header, current_pos, written, sock, up,
                       channel, out, exit>>
    BY <2>1, Sizes DEF Xsputn, queryVars, clientVars
  <2>3. Types'
    BY <1>0, <2>2 DEF TcpInv, Types
  <2>4. Buffered' /\ Marked'
    BY <2>2 DEF TcpInv, Buffered, Marked, Carries, Sent
  <2>5. Streams'
    <3>1. PICK at \in [1 .. Len(channel) + 1 -> 0 .. MaxOutput] : Stream(at)
      BY DEF TcpInv, Streams
    <3>2. Stream(at)'
      BY <2>2, <3>1 DEF Stream, Carries, Sent
    <3> QED
      BY <2>2, <3>1, <3>2 DEF TcpInv, Streams, Printed
  <2>6. Ended'
    BY <2>2 DEF TcpInv, Ended, Printed, Stream, Sent, Short
  <2> QED
    BY <2>3, <2>4, <2>5, <2>6 DEF TcpInv
<1>2. CASE CopyRest
  <2>1. /\ sock = "open" /\ remaining > 0 /\ remaining < Room /\ buffer' = Filled(remaining)
        /\ current_pos' = current_pos + remaining /\ written' = written + remaining
        /\ remaining' = 0
        /\ UNCHANGED <<query_length, query_size, header, sock, up, channel, out, exit>>
    BY <1>2 DEF CopyRest, Writing, queryVars, clientVars
  <2>2. /\ current_pos + remaining < BUFFER_SIZE /\ remaining' \in Nat
        /\ written' + remaining' <= MaxOutput
    BY <1>0, <2>1, Sizes
  <2> QED
    BY <1>0, <2>1, <2>2, CopyInv
<1>3. CASE CopyMax
  <2>1. /\ sock = "open" /\ remaining >= Room /\ Send(Filled(Room), header, BUFFER_SIZE)
        /\ written' = written + Room /\ remaining' = IF up THEN remaining - Room ELSE 0
        /\ sock' = SocketAfterSend /\ UNCHANGED <<query_length, query_size, up, out, exit>>
    BY <1>3 DEF CopyMax, Writing, queryVars, clientVars
  <2>2. Room \in Nat /\ current_pos + Room = BUFFER_SIZE
    BY <1>0, Sizes
  <2>3. /\ Filled(Room) \in [Slots -> Nat]
        /\ \A i \in HEADER .. BUFFER_SIZE - 1 : Filled(Room)[i] = Sent + 1 + (i - HEADER)
    BY <1>0, <2>1, <2>2, FilledFacts, Sizes
  <2>4. /\ BUFFER_SIZE \in HEADER .. BUFFER_SIZE
        /\ written' = Sent + (BUFFER_SIZE - HEADER) /\ written <= written'
        /\ remaining' \in Nat /\ written' + remaining' <= MaxOutput
    BY <1>0, <2>1, <2>2, Sizes
  <2> QED
    BY <2>1, <2>3, <2>4, SendInv
<1> QED
  BY <1>1, <1>2, <1>3

\* A flush sends the block as it is.
LEMMA SyncInv ==
  ASSUME TcpInv, Sync
  PROVE  TcpInv'
<1>1. /\ sock = "open" /\ Send(buffer, header, current_pos) /\ sock' = SocketAfterSend
      /\ UNCHANGED <<query_length, query_size, remaining, written, up, out, exit>>
  BY DEF Sync, Writing, queryVars, clientVars
<1>2. /\ current_pos \in 3 .. BUFFER_SIZE - 1 /\ written \in Nat /\ buffer \in [Slots -> Nat]
      /\ Sent = written - (current_pos - 3) /\ remaining \in Nat
      /\ written + remaining <= MaxOutput
  BY Sizes DEF TcpInv, Types, Sent
<1>3. /\ current_pos \in HEADER .. BUFFER_SIZE /\ written' = Sent + (current_pos - HEADER)
      /\ written <= written'
  BY <1>1, <1>2, Sizes
<1>4. \A i \in HEADER .. current_pos - 1 : buffer[i] = Sent + 1 + (i - HEADER)
  BY <1>1 DEF TcpInv, Buffered
<1> QED
  BY <1>1, <1>2, <1>3, <1>4, SendInv

\* Nothing of the stream changes.
LEMMA StreamKept ==
  ASSUME Buffered, Streams, UNCHANGED <<buffer, current_pos, written, channel, out>>,
         sock' = "open" => sock = "open"
  PROVE  Buffered' /\ Streams'
<1>1. PICK at \in [1 .. Len(channel) + 1 -> 0 .. MaxOutput] : Stream(at)
  BY DEF Streams
<1>2. Sent' = Sent
  BY DEF Sent
<1>3. Stream(at)'
  BY <1>1, <1>2 DEF Stream, Carries
<1>4. Buffered'
  BY <1>2 DEF Buffered
<1> QED
  BY <1>1, <1>3, <1>4 DEF Streams, Printed

\* A status is set for the blocks to come.
LEMMA StatusInv ==
  ASSUME TcpInv, NEW code \in Codes, SetStatus(code)
  PROVE  TcpInv'
<1>1. /\ sock = "open" /\ header' = [header EXCEPT !.status = code, !.last = FALSE]
      /\ UNCHANGED <<query_length, query_size, buffer, current_pos, remaining, written, sock, up,
                     channel, out, exit>>
  BY DEF SetStatus, Writing, queryVars, clientVars
<1>2. header' \in Headers /\ header'.last = FALSE
  BY <1>1 DEF TcpInv, Types, Headers
<1>3. Types'
  BY <1>1, <1>2 DEF TcpInv, Types
<1>5. Buffered' /\ Streams'
  BY <1>1, StreamKept DEF TcpInv
<1>4. Marked' /\ Ended'
  BY <1>1, <1>2, NoneMarked DEF TcpInv, Marked, Ended, Short
<1> QED
  BY <1>3, <1>4, <1>5 DEF TcpInv

\* The destructor sends what is left, marked, with the status set last.
LEMMA DestroyInv ==
  ASSUME TcpInv, Destroy
  PROVE  TcpInv'
<1>0. /\ sock' = "destroyed"
      /\ UNCHANGED <<query_length, query_size, remaining, written, up, out, exit>>
  BY DEF Destroy, queryVars, clientVars
<1>1. CASE sock = "open"
  <2> DEFINE hd == [header EXCEPT !.last = TRUE]
  <2>1. Send(buffer, hd, current_pos)
    BY <1>1 DEF Destroy, LastBlock, LastLength
  <2>2. hd \in Headers /\ hd.last = TRUE
    BY DEF TcpInv, Types, Headers
  <2> HIDE DEF hd
  <2>3. /\ current_pos \in 3 .. BUFFER_SIZE - 1 /\ written \in Nat
        /\ buffer \in [Slots -> Nat] /\ channel \in Seq(Blocks) /\ remaining \in Nat
        /\ written + remaining <= MaxOutput /\ Sent = written - (current_pos - 3)
    BY Sizes DEF TcpInv, Types, Sent
  <2>4. /\ current_pos \in HEADER .. BUFFER_SIZE /\ written' = Sent + (current_pos - HEADER)
        /\ written <= written' /\ written' <= MaxOutput
    BY <1>0, <2>3, Sizes
  <2>5. \A i \in HEADER .. current_pos - 1 : buffer[i] = Sent + 1 + (i - HEADER)
    BY <1>1 DEF TcpInv, Buffered
  <2>6. /\ buffer' = buffer /\ current_pos' \in Slots /\ header' \in Headers
        /\ header'.last /\ channel' \in Seq(Blocks)
        /\ channel' = IF up THEN Append(channel, [header |-> header', bytes |-> buffer])
                            ELSE channel
    BY <2>1, <2>2, <2>3, <2>4, SendTypes DEF TcpInv
  <2>7. Types'
    BY <1>0, <2>3, <2>6 DEF TcpInv, Types
  <2>8. Streams'
    BY <1>0, <1>1, <2>1, <2>2, <2>3, <2>4, <2>5, SendStream
  <2>9. Marked'
    <3>1. ASSUME NEW k \in 1 .. Len(channel'), channel'[k].header.last
          PROVE  channel'[k].header.status = header'.status
      <4>1. CASE up
        <5>1. (channel'[k] = channel[k] /\ k \in 1 .. Len(channel))
               \/ channel'[k] = [header |-> header', bytes |-> buffer]
          BY <2>3, <2>6, <4>1
        <5> QED
          BY <1>1, <3>1, <5>1, NoneMarked
      <4>2. CASE ~up
        BY <1>1, <2>6, <3>1, <4>2, NoneMarked
      <4> QED
        BY <4>1, <4>2
    <3> QED
      BY <1>0, <3>1 DEF Marked
  <2>10. Ended'
    <3>1. up => channel' # << >> /\ channel'[Len(channel')].header.last
      <4>1. CASE up
        <5>1. Len(channel') = Len(channel) + 1 /\ Len(channel) \in Nat
          BY <2>3, <2>6, <4>1
        <5>2. channel'[Len(channel')] = [header |-> header', bytes |-> buffer]
          BY <2>3, <2>6, <4>1, <5>1
        <5> QED
          BY <2>6, <5>1, <5>2
      <4> QED
        BY <4>1
    <3> QED
      BY <1>0, <1>1, <3>1, NoneMarked DEF TcpInv, Ended, Short
  <2>11. Buffered'
    BY <1>0 DEF Buffered
  <2> QED
    BY <2>7, <2>8, <2>9, <2>10, <2>11 DEF TcpInv
<1>2. CASE sock # "open"
  <2>1. sock = "closed" /\ UNCHANGED <<buffer, header, current_pos, channel>>
    BY <1>2 DEF Destroy
  <2>2. Types' /\ Buffered'
    BY <1>0, <2>1 DEF TcpInv, Types, Buffered
  <2>3. Streams'
    <3>1. PICK at \in [1 .. Len(channel) + 1 -> 0 .. MaxOutput] : Stream(at)
      BY DEF TcpInv, Streams
    <3>2. Stream(at)'
      BY <1>0, <2>1, <3>1 DEF Stream, Carries
    <3> QED
      BY <1>0, <2>1, <3>1, <3>2 DEF TcpInv, Streams, Printed
  <2>4. Marked' /\ Ended'
    BY <1>0, <2>1 DEF TcpInv, Marked, Ended, Short
  <2> QED
    BY <2>2, <2>3, <2>4 DEF TcpInv
<1> QED
  BY <1>1, <1>2

\* The client prints the next block.
LEMMA ReadInv ==
  ASSUME TcpInv, Read
  PROVE  TcpInv'
<1> DEFINE n == Len(channel)
           block == channel[1]
<1>0. /\ exit = "none" /\ channel # << >> /\ channel' = Tail(channel)
      /\ UNCHANGED <<query_length, query_size, buffer, header, current_pos, remaining, written,
                     sock, up>>
  BY DEF Read, queryVars, serverVars
<1>1. channel \in Seq(Blocks) /\ out \in Seq(Nat) /\ written \in Nat
  BY DEF TcpInv, Types
<1>2. n \in Nat /\ n >= 1 /\ block \in Blocks /\ Head(channel) = block
  BY <1>0, <1>1
<1>3. PICK at \in [1 .. n + 1 -> 0 .. MaxOutput] : Stream(at)
  BY DEF TcpInv, Streams
<1> DEFINE m == at[2] - at[1]
           new == [i \in 1 .. m |-> block.bytes[HEADER - 1 + i]]
<1>4. /\ at[1] = Len(out) /\ Carries(block, at[1], at[2])
      /\ (\A k \in 1 .. n + 1 : at[k] <= written) /\ (sock = "open" => at[n + 1] = Sent)
      /\ block.header.last => n = 1 /\ at[2] = written
      /\ \A k \in 1 .. n : /\ Carries(channel[k], at[k], at[k + 1])
                           /\ channel[k].header.last => k = n /\ at[k + 1] = written
  <2>1. /\ at[1] = Len(out) /\ (\A k \in 1 .. n + 1 : at[k] <= written)
        /\ (sock = "open" => at[n + 1] = Sent)
        /\ \A k \in 1 .. n : /\ Carries(channel[k], at[k], at[k + 1])
                             /\ channel[k].header.last => k = n /\ at[k + 1] = written
    BY <1>3 DEF Stream
  <2>2. 1 \in 1 .. n /\ 1 + 1 = 2
    BY <1>2
  <2>3. Carries(channel[1], at[1], at[1 + 1])
    BY <2>1, <2>2
  <2>4. channel[1].header.last => 1 = n /\ at[1 + 1] = written
    BY <2>1, <2>2
  <2> QED
    BY <2>1, <2>2, <2>3, <2>4
<1>5. at[1] \in Nat /\ at[2] \in Nat /\ m \in Nat
  <2>1. at[1] \in 0 .. MaxOutput /\ at[2] \in 0 .. MaxOutput
    BY <1>2, <1>3
  <2>2. at[1] <= at[2]
    BY <1>4 DEF Carries
  <2> QED
    BY <2>1, <2>2, Sizes
<1>6. /\ out' = out \o new /\ exit' = IF block.header.last THEN block.header.status ELSE "none"
  <2>1. (block.header.b1 + block.header.b2 * Byte) - HEADER = m
    <3>1. block.header.b1 + block.header.b2 * Byte = HEADER + m
      BY <1>4 DEF Carries
    <3>2. ASSUME NEW x, x = HEADER + m PROVE x - HEADER = m
      <4> HIDE DEF m
      <4> QED
        BY <1>5, <3>2, Sizes
    <3> QED
      BY <3>1, <3>2
  <2>2. /\ out' = out \o [i \in 1 .. (block.header.b1 + block.header.b2 * Byte) - HEADER |->
                            block.bytes[HEADER - 1 + i]]
        /\ exit' = IF block.header.last THEN block.header.status ELSE "none"
    <3>1. /\ out' = out \o [i \in 1 .. (Head(channel).header.b1
                                            + Head(channel).header.b2 * Byte) - HEADER |->
                              Head(channel).bytes[HEADER - 1 + i]]
          /\ exit' = IF Head(channel).header.last THEN Head(channel).header.status ELSE "none"
      BY Zenon DEF Read
    <3>2. Head(channel) = block
      BY <1>2
    <3> HIDE DEF block
    <3> QED
      BY <3>1, <3>2, Zenon
  <2> HIDE DEF m, block
  <2> QED
    BY <2>1, <2>2
<1>7. /\ \A i \in 1 .. m : block.bytes[HEADER - 1 + i] \in Nat
      /\ \A i \in 1 .. m : block.bytes[HEADER - 1 + i] = Len(out) + i
      /\ block.header.status \in Codes
  <2>1. HEADER + m <= BUFFER_SIZE /\ \A i \in 1 .. m : block.bytes[HEADER - 1 + i] = at[1] + i
    BY <1>4 DEF Carries
  <2>2. block.bytes \in [Slots -> Nat] /\ block.header \in Headers
    BY <1>2 DEF Blocks
  <2>3. block.header.status \in Codes
    BY <2>2 DEF Headers
  <2> HIDE DEF m, block
  <2>4. \A i \in 1 .. m : HEADER - 1 + i \in Slots
    BY <1>5, <2>1, Sizes
  <2> QED
    BY <1>4, <2>1, <2>2, <2>3, <2>4
<1>8. new \in Seq(Nat) /\ Len(new) = m /\ \A i \in 1 .. m : new[i] = Len(out) + i
  <2> HIDE DEF m, block
  <2>1. ASSUME NEW x \in Nat, NEW F(_), \A i \in 1 .. x : F(i) \in Nat
        PROVE  [i \in 1 .. x |-> F(i)] \in Seq(Nat) /\ Len([i \in 1 .. x |-> F(i)]) = x
    BY <2>1
  <2> QED
    BY <1>5, <1>7, <2>1
<1> HIDE DEF m, new, block
<1>9. /\ out' \in Seq(Nat) /\ Len(out') = Len(out) + m /\ Len(out) \in Nat
      /\ \A i \in 1 .. Len(out) : out'[i] = out[i]
      /\ \A i \in 1 .. m : out'[Len(out) + i] = new[i]
  <2>1. ASSUME NEW x \in Seq(Nat), NEW y \in Seq(Nat)
        PROVE  /\ x \o y \in Seq(Nat) /\ Len(x \o y) = Len(x) + Len(y) /\ Len(x) \in Nat
               /\ \A i \in 1 .. Len(x) : (x \o y)[i] = x[i]
               /\ \A i \in 1 .. Len(y) : (x \o y)[Len(x) + i] = y[i]
    OBVIOUS
  <2> QED
    BY <1>1, <1>6, <1>8, <2>1
<1>10. Len(out') = at[2]
  BY <1>4, <1>5, <1>9 DEF m
<1>11. Printed'
  <2> SUFFICES ASSUME NEW i \in 1 .. Len(out') PROVE out'[i] = i
    BY DEF Printed
  <2>1. CASE i <= Len(out)
    BY <1>9, <2>1 DEF TcpInv, Streams, Printed
  <2>2. CASE i > Len(out)
    <3>1. i - Len(out) \in 1 .. m /\ i = Len(out) + (i - Len(out))
      BY <1>5, <1>9, <2>2
    <3>2. out'[Len(out) + (i - Len(out))] = Len(out) + (i - Len(out))
      BY <1>8, <1>9, <3>1
    <3> QED
      BY <3>1, <3>2
  <2> QED
    BY <1>9, <2>1, <2>2
<1>12. Len(channel') = n - 1 /\ \A k \in 1 .. n - 1 : channel'[k] = channel[k + 1]
  BY <1>0, <1>1, <1>2
<1>13. Streams'
  <2>1. PICK bt \in [1 .. Len(channel') + 1 -> 0 .. MaxOutput] :
          \A k \in 1 .. n : bt[k] = at[k + 1]
    <3> DEFINE ct == [k \in 1 .. n |-> at[k + 1]]
    <3>1. ct \in [1 .. Len(channel') + 1 -> 0 .. MaxOutput] /\ \A k \in 1 .. n : ct[k] = at[k + 1]
      BY <1>2, <1>3, <1>12
    <3> HIDE DEF ct
    <3> QED
      BY <3>1
  <2>2. bt[1] = Len(out') /\ bt[n] = at[n + 1]
    BY <1>2, <1>10, <2>1
  <2>3. Len(channel') + 1 = n
    BY <1>2, <1>12
  <2>4. ASSUME NEW k \in 1 .. n - 1
        PROVE  /\ Carries(channel'[k], bt[k], bt[k + 1])
               /\ channel'[k].header.last => k = n - 1 /\ bt[k + 1] = written
    <3>1. /\ channel'[k] = channel[k + 1] /\ bt[k] = at[k + 1] /\ bt[k + 1] = at[(k + 1) + 1]
          /\ k + 1 \in 1 .. n
      BY <1>2, <1>12, <2>1
    <3>2. /\ Carries(channel[k + 1], at[k + 1], at[(k + 1) + 1])
          /\ channel[k + 1].header.last => k + 1 = n /\ at[(k + 1) + 1] = written
      BY <1>4, <3>1
    <3> QED
      BY <1>2, <3>1, <3>2
  <2>5. Sent' = Sent
    BY <1>0 DEF Sent
  <2>7. \A k \in 1 .. n : bt[k] <= written
    BY <1>2, <1>4, <2>1
  <2>6. Stream(bt)'
    BY <1>0, <1>4, <1>12, <2>2, <2>3, <2>4, <2>5, <2>7 DEF Stream, Carries
  <2> QED
    BY <1>11, <2>1, <2>6 DEF Streams
<1>14. Types'
  <2>1. channel' \in Seq(Blocks)
    BY <1>0, <1>1
  <2>2. exit' \in Codes \cup {"none", "connection_error"}
    BY <1>6, <1>7
  <2> QED
    BY <1>0, <1>9, <2>1, <2>2 DEF TcpInv, Types
<1>15. Buffered'
  BY <1>0 DEF TcpInv, Buffered, Sent
<1>16. Marked'
  <2>1. \A k \in 1 .. n - 1 : k + 1 \in 1 .. n
    BY <1>2
  <2> QED
    BY <1>0, <1>12, <2>1 DEF TcpInv, Marked
<1>17. Ended'
  <2>1. CASE block.header.last
    <3>1. exit' = header.status /\ sock = "destroyed" /\ Len(out') = written
      BY <1>2, <1>4, <1>6, <1>10, <2>1 DEF TcpInv, Marked, block, n
    <3>2. exit' \in Codes
      BY <1>6, <1>7, <2>1
    <3>3. exit' # "none" /\ exit' # "connection_error"
      BY <3>2 DEF Codes
    <3> QED
      BY <1>0, <3>1, <3>3 DEF TcpInv, Ended, Short
  <2>2. CASE ~block.header.last
    <3>1. exit' = "none"
      BY <1>6, <2>2
    <3>2. ASSUME sock = "destroyed", up, Short
          PROVE  channel' # << >> /\ channel'[Len(channel')].header.last
      <4>1. channel[n].header.last
        BY <1>0, <3>2 DEF TcpInv, Ended, Short
      <4>2. n # 1
        <5> SUFFICES ASSUME n = 1 PROVE FALSE
          OBVIOUS
        <5>1. channel[1].header.last
          BY <4>1
        <5> QED
          BY <2>2, <5>1 DEF block
      <4>3. n - 1 \in 1 .. n - 1 /\ (n - 1) + 1 = n
        <5> HIDE DEF n
        <5> QED
          BY <1>2, <4>2
      <4>4. channel'[n - 1] = channel[n]
        BY <1>12, <4>3
      <4> QED
        BY <1>12, <4>1, <4>3, <4>4
    <3> QED
      BY <1>0, <3>1, <3>2 DEF TcpInv, Ended, Short
  <2> QED
    BY <2>1, <2>2
<1> QED
  BY <1>11, <1>13, <1>14, <1>15, <1>16, <1>17 DEF TcpInv

\* The connection breaks, or the client finds that it did; also when the session
\* closed it, which it never does without a marked block.
LEMMA BreakInv ==
  ASSUME TcpInv, Break \/ ReadFails
  PROVE  TcpInv'
<1>1. CASE Break
  <2>1. up' = FALSE /\ UNCHANGED <<queryVars, serverVars, channel, clientVars>>
    BY <1>1 DEF Break
  <2> USE DEF queryVars, serverVars, clientVars
  <2>2. Types' /\ Buffered' /\ Streams'
    BY <2>1, StreamKept DEF TcpInv, Types
  <2>3. Marked' /\ Ended'
    BY <2>1 DEF TcpInv, Marked, Ended, Short
  <2> QED
    BY <2>2, <2>3 DEF TcpInv
<1>2. CASE ReadFails
  <2>1. /\ exit = "none" /\ (~up \/ (sock = "destroyed" /\ channel = << >>))
        /\ exit' = "connection_error"
        /\ UNCHANGED <<queryVars, serverVars, up, channel, out>>
    BY <1>2 DEF ReadFails
  <2> USE DEF queryVars, serverVars
  <2>2. Types' /\ Buffered' /\ Streams'
    BY <2>1, StreamKept DEF TcpInv, Types
  <2>3. Short => ~up
    BY <2>1 DEF TcpInv, Ended, Short, Types
  <2>4. Marked' /\ Ended'
    BY <2>1, <2>3 DEF TcpInv, Marked, Ended, Short
  <2> QED
    BY <2>2, <2>4 DEF TcpInv
<1> QED
  BY <1>1, <1>2

\* Every step keeps TcpInv.
LEMMA NextInv == TcpInv /\ [Next]_vars => TcpInv'
<1> SUFFICES ASSUME TcpInv, [Next]_vars PROVE TcpInv'
  OBVIOUS
<1>1. CASE ReadQuery
  <2> DEFINE size == DecodeLength(EncodeLength(query_length))
  <2>1. /\ sock = "open"
        /\ \/ query_size' = size /\ sock' = IF size < 0 THEN "destroyed" ELSE sock
           \/ ~up /\ sock' = "destroyed" /\ UNCHANGED query_size
        /\ UNCHANGED <<query_length, buffer, header, current_pos, remaining, written, up,
                       channel, out, exit>>
    BY <1>1 DEF ReadQuery, clientVars
  <2>2. query_length \in Nat
    BY TcpAssumption DEF TcpAssumption, TcpInv, Types
  <2>3. size \in Int /\ (Short => size = query_length)
    BY <2>2, DecodedLength DEF Short
  <2> HIDE DEF size
  <2>4. sock' = "open" \/ (sock' = "destroyed" /\ (Short => ~up))
    BY <2>1, <2>2, <2>3
  <2>5. Types'
    BY <2>1, <2>3, <2>4 DEF TcpInv, Types
  <2>6. Buffered' /\ Streams'
    BY <2>1, <2>4, StreamKept DEF TcpInv
  <2>7. Marked' /\ Ended'
    BY <2>1, <2>4, NoneMarked DEF TcpInv, Marked, Ended, Short
  <2> QED
    BY <2>5, <2>6, <2>7 DEF TcpInv
<1>2. CASE UNCHANGED vars
  <2>1. UNCHANGED <<query_length, query_size, buffer, header, current_pos, remaining, written,
                    sock, up, channel, out, exit>>
    BY <1>2 DEF vars, queryVars, serverVars, clientVars
  <2> QED
    BY <2>1, StreamKept DEF TcpInv, Types, Marked, Ended, Short
<1>3. CASE \E code \in Codes : SetStatus(code)
  BY <1>3, StatusInv
<1>4. CASE Done
  BY <1>2, <1>4 DEF Done
<1> QED
  BY <1>1, <1>2, <1>3, <1>4, OverflowInv, XsputnInv, SyncInv, DestroyInv, ReadInv, BreakInv
     DEF Next

-----------------------------------------------------------------------------
(* The theorems.                                                            *)

\* The types and the way of every byte from xsputn to the client's output.
THEOREM TcpInvariant == Spec => []TcpInv
  BY InitInv, NextInv, PTL DEF Spec

\* The client prints a prefix of the output, in order and nothing twice, whatever
\* mixture of overflow, xsputn and sync wrote it and wherever blocks end.
THEOREM PrefixPrinted == Spec => []PrintsPrefix
<1>1. TcpInv => PrintsPrefix
  <2> SUFFICES ASSUME TcpInv PROVE PrintsPrefix
    OBVIOUS
  <2>1. PICK at \in [1 .. Len(channel) + 1 -> 0 .. MaxOutput] : Stream(at)
    BY DEF TcpInv, Streams
  <2>2. Len(out) <= written
    <3>1. 1 \in 1 .. Len(channel) + 1
      BY DEF TcpInv, Types
    <3> QED
      BY <2>1, <3>1 DEF Stream
  <2>3. TypeOK
    BY Sizes DEF TcpInv, Types, TypeOK, Headers, Slots, HEADER
  <2> QED
    BY <2>2, <2>3 DEF PrintsPrefix, TcpInv, Streams, Printed
<1> QED
  BY <1>1, TcpInvariant, PTL

\* An exit status other than of a broken connection comes with the whole output and
\* is the status that the session set last: the block that ~TcpBuffer marks is behind
\* all the others.
THEOREM AnswerWhole == Spec => []CompleteOrError
<1>1. TcpInv => CompleteOrError
  BY DEF TcpInv, Ended, Short, CompleteOrError
<1> QED
  BY <1>1, TcpInvariant, PTL

\* The client never reports a connection that works as broken: a session that ends
\* leaves a marked block, also when it wrote nothing (~TcpBuffer).
THEOREM LastBlockLeft == Spec => []LastBlockArrives
<1>1. TcpInv => LastBlockArrives
  BY DEF TcpInv, Ended, Short, LastBlockArrives
<1> QED
  BY <1>1, TcpInvariant, PTL

\* The length of a query that fits in an int arrives as it was sent.
THEOREM QueryArrives == Spec => []ShortQueryArrives
<1>1. Init => ShortQueryArrives
  BY DEF Init, ShortQueryArrives
<1>2. TcpInv /\ ShortQueryArrives /\ [Next]_vars => ShortQueryArrives'
  <2> SUFFICES ASSUME TcpInv, ShortQueryArrives, [Next]_vars PROVE ShortQueryArrives'
    OBVIOUS
  <2>1. CASE ReadQuery
    <3>1. query_length \in Nat
      BY TcpAssumption DEF TcpAssumption, TcpInv, Types
    <3> QED
      BY <2>1, <3>1, DecodedLength DEF ReadQuery, ShortQueryArrives
  <2>2. CASE ~ReadQuery
    <3>1. UNCHANGED <<query_length, query_size>>
      BY <2>2 DEF Next, Overflow, Xsputn, CopyRest, CopyMax, Sync, SetStatus, Destroy, Break,
                  Read, ReadFails, Done, vars, queryVars
    <3> QED
      BY <3>1 DEF ShortQueryArrives
  <2> QED
    BY <2>1, <2>2
<1> QED
  BY <1>1, <1>2, TcpInvariant, PTL DEF Spec

=============================================================================

----------------------------- MODULE WireProofs -----------------------------
(***************************************************************************)
(* What the two decoders make of the bytes of a package, whatever its      *)
(* payload, whatever follows it and wherever TCP has cut it; and what that *)
(* says of the console and the server that talk over a stream of packages, *)
(* for every command, every field, every buffer and every way the reads    *)
(* and the writes cut the bytes.                                           *)
(*                                                                         *)
(* The argument: the bytes on their way are always the end of a stream of  *)
(* packages, and the reads so far have found some of those packages, in    *)
(* order (Received).  A read is a window of that stream: it may begin in   *)
(* the middle of a package, and even then what it finds is a package that  *)
(* was sent (FoundIsPackage), because a START in a text is never followed  *)
(* by a length (FalseStart).                                               *)
(***************************************************************************)
EXTENDS Wire, Lemmas, FiniteSetTheorems, SequenceTheorems, TLAPS

-----------------------------------------------------------------------------
(* The two decoders and one package. *)

\* The type and the payload of a package the console or a handler can make.
Fits(type, payload) ==
    /\ type \in Byte
    /\ payload \in Seq(Byte)
    /\ Len(payload) <= MaxBuffer - Overhead

\* The assumption on the constants, as inequalities.
LEMMA Constants ==
    /\ MaxBuffer \in Nat /\ 7 <= MaxBuffer /\ MaxBuffer < 65536
    /\ START \in Byte /\ START # 0 /\ MaxBuffer < 256 * START
    /\ END \in Byte /\ END # 0 /\ END # START
<1>1. MaxBuffer \in Nat /\ 7 <= MaxBuffer /\ MaxBuffer < 65536
  <2> DEFINE top == 65535
  <2>1. MaxBuffer \in Overhead..top
    BY FramingAssumption DEF FramingAssumption
  <2>2. top \in Nat
    OBVIOUS
  <2> HIDE DEF top
  <2>3. MaxBuffer \in 7..top
    BY <2>1 DEF Overhead
  <2>4. MaxBuffer \in Nat /\ 7 <= MaxBuffer /\ MaxBuffer <= top
    BY <2>2, <2>3
  <2> QED
    BY <2>4 DEF top
<1>2. START \in Nat /\ START < 256 /\ MaxBuffer < 256 * START
  BY SMT, <1>1, FramingAssumption DEF FramingAssumption, Byte
<1>3. START # 0
  BY SMT, <1>1, <1>2
<1>4. END \in Byte /\ END # 0 /\ END # START
  BY SMT, FramingAssumption DEF FramingAssumption, Byte
<1> QED
  BY SMT, <1>1, <1>2, <1>3, <1>4 DEF Byte

\* A number below 2^16 is its high and its low byte.
LEMMA HighAndLow ==
    ASSUME NEW n \in Nat, n < 65536
    PROVE  /\ n \div 256 \in Nat /\ n \div 256 < 256
           /\ n % 256 \in Nat /\ n % 256 < 256
           /\ n = 256 * (n \div 256) + (n % 256)
           /\ (n \div 256) % 256 = n \div 256
<1> DEFINE q == n \div 256
           r == n - 256 * q
<1>1. q \in Nat /\ 256 * q <= n /\ n < 256 * (q + 1)
  BY SMT
<1> HIDE DEF q
<1>2. r \in Nat /\ r < 256 /\ n = 256 * q + r
  BY SMT, <1>1
<1>3. q < 256
  BY SMT, <1>1
<1> HIDE DEF r
<1>4. n % 256 = r
  BY SMT, <1>1, <1>2
<1>5. q % 256 = q
  BY SMT, <1>1, <1>3
<1> QED
  BY SMT, <1>1, <1>2, <1>3, <1>4, <1>5 DEF q

\* The four bytes of a length are bytes, the first two are 0 and only the last
\* may be START.
LEMMA LengthBytes ==
    ASSUME NEW n \in Nat, n <= MaxBuffer
    PROVE  /\ BigEndian(n) \in Seq(Byte)
           /\ Len(BigEndian(n)) = 4
           /\ BigEndian(n)[1] = 0 /\ BigEndian(n)[2] = 0
           /\ BigEndian(n)[3] # START
           /\ n = 256 * BigEndian(n)[3] + BigEndian(n)[4]
<1> DEFINE h == n \div 256
           l == n % 256
<1>1. n < 65536
  BY SMT, Constants
<1>2. /\ h \in Nat /\ h < 256 /\ l \in Nat /\ l < 256
      /\ n = 256 * h + l /\ h % 256 = h
  BY <1>1, HighAndLow
<1>3. n \div 65536 = 0 /\ n \div 16777216 = 0
  BY SMT, <1>1
<1>4. 0 % 256 = 0
  BY SMT
<1> HIDE DEF h, l
<1>5. BigEndian(n) = <<0, 0, h, l>>
  BY SMT, <1>2, <1>3, <1>4 DEF BigEndian, h, l
<1>6. h # START
  BY SMT, <1>2, Constants DEF Byte
<1> DEFINE four == <<0, 0, h, l>>
<1>7. four \in Seq(Byte) /\ Len(four) = 4
  BY SMT, <1>2 DEF Byte
<1>8. four[1] = 0 /\ four[2] = 0 /\ four[3] = h /\ four[4] = l
  OBVIOUS
<1> HIDE DEF four
<1>9. n = 256 * four[3] + four[4]
  BY <1>2, <1>8
<1>10. BigEndian(n) = four
  BY <1>5 DEF four
<1> QED
  BY <1>6, <1>7, <1>8, <1>9, <1>10

\* A package byte for byte, with what follows it.
PackageThen(data, type, payload, after) ==
    LET n == Len(payload)
    IN  /\ n \in Nat /\ n <= MaxBuffer
        /\ data \in Seq(Byte) /\ Len(data) = n + 7 + Len(after)
        /\ data[1] = START /\ data[2] = type
        /\ \A i \in 1..4 : data[2 + i] = BigEndian(n)[i]
        /\ \A i \in 1..n : data[6 + i] = payload[i]
        /\ data[n + 7] = END
        /\ \A i \in 1..Len(after) : data[n + 7 + i] = after[i]

\* What build_package makes, followed by anything, is laid out like that.
LEMMA PackageBytes ==
    ASSUME NEW type, NEW payload, Fits(type, payload), NEW after \in Seq(Byte)
    PROVE  PackageThen(build_package(type, payload) \o after, type, payload, after)
<1> DEFINE n == Len(payload)
           big == BigEndian(n)
           head == <<START, type>>
           pkg == build_package(type, payload)
<1>1. payload \in Seq(Byte) /\ n \in Nat /\ n <= MaxBuffer
  BY SMT, Constants DEF Fits, Overhead
<1>2. big \in Seq(Byte) /\ Len(big) = 4
  BY <1>1, LengthBytes
<1>3. /\ head \in Seq(Byte) /\ Len(head) = 2
      /\ head[1] = START /\ head[2] = type
  BY Constants DEF Fits
<1>4. <<END>> \in Seq(Byte) /\ Len(<<END>>) = 1 /\ <<END>>[1] = END
  BY Constants
<1>5. pkg = ((head \o big) \o payload) \o <<END>>
  BY SMT, Constants DEF build_package, Fits, Overhead
<1> HIDE DEF big, head, pkg
<1> DEFINE front == head \o big
           most == front \o payload
<1>6. /\ front \in Seq(Byte) /\ Len(front) = 6
      /\ \A i \in 1..2 : front[i] = head[i]
      /\ \A i \in 1..4 : front[2 + i] = big[i]
  <2>1. head \in Seq(Byte) /\ big \in Seq(Byte)
    BY <1>2, <1>3
  <2>2. front \in Seq(Byte) /\ Len(front) = Len(head) + Len(big)
    BY <2>1, Joined
  <2>3. \A i \in 1..Len(head) : front[i] = head[i]
    BY <2>1, Joined
  <2>4. \A i \in 1..Len(big) : front[Len(head) + i] = big[i]
    BY <2>1, Joined
  <2> HIDE DEF front
  <2> QED
    BY <2>2, <2>3, <2>4, <1>2, <1>3
<1> HIDE DEF front
<1>7. /\ most \in Seq(Byte) /\ Len(most) = 6 + n
      /\ \A i \in 1..6 : most[i] = front[i]
      /\ \A i \in 1..n : most[6 + i] = payload[i]
  <2>1. front \in Seq(Byte) /\ payload \in Seq(Byte)
    BY <1>1, <1>6
  <2>2. most \in Seq(Byte) /\ Len(most) = Len(front) + n
    BY <2>1, Joined
  <2>3. \A i \in 1..Len(front) : most[i] = front[i]
    BY <2>1, Joined
  <2>4. \A i \in 1..n : most[Len(front) + i] = payload[i]
    BY <2>1, Joined
  <2> HIDE DEF most
  <2> QED
    BY <2>2, <2>3, <2>4, <1>6
<1> HIDE DEF most
<1>8. /\ pkg \in Seq(Byte) /\ Len(pkg) = n + 7
      /\ \A i \in 1..6 + n : pkg[i] = most[i]
      /\ pkg[6 + n + 1] = END
  <2>1. pkg = most \o <<END>>
    BY <1>5 DEF most, front
  <2>2. Len(pkg) = 6 + n + 1 /\ pkg \in Seq(Byte)
    BY <2>1, <1>4, <1>7, Joined
  <2>3. \A i \in 1..6 + n : pkg[i] = most[i]
    BY <2>1, <1>4, <1>7, Joined
  <2>4. 1 \in 1..Len(<<END>>)
    BY <1>4
  <2>5. pkg[6 + n + 1] = END
    BY <2>1, <2>4, <1>4, <1>7, Joined
  <2> QED
    BY <2>2, <2>3, <2>5, <1>1
<1> DEFINE data == pkg \o after
<1>9. /\ data \in Seq(Byte) /\ Len(data) = n + 7 + Len(after)
      /\ \A i \in 1..n + 7 : data[i] = pkg[i]
      /\ \A i \in 1..Len(after) : data[n + 7 + i] = after[i]
  <2>1. data \in Seq(Byte) /\ Len(data) = Len(pkg) + Len(after)
    BY <1>8, Joined
  <2>2. \A i \in 1..Len(pkg) : data[i] = pkg[i]
    BY <1>8, Joined
  <2>3. \A i \in 1..Len(after) : data[Len(pkg) + i] = after[i]
    BY <1>8, Joined
  <2> QED
    BY <2>1, <2>2, <2>3, <1>8
<1> HIDE DEF data, n
<1>10. \A i \in 1..6 : data[i] = front[i]
  BY SMT, <1>1, <1>7, <1>8, <1>9
<1>11. data[1] = START /\ data[2] = type
  BY SMT, <1>3, <1>6, <1>10
<1>12. \A i \in 1..4 : data[2 + i] = big[i]
  BY SMT, <1>6, <1>10
<1>13. \A i \in 1..n : data[6 + i] = payload[i]
  BY SMT, <1>1, <1>7, <1>8, <1>9
<1>14. data[n + 7] = END
  BY SMT, <1>1, <1>8, <1>9
<1> QED
  BY <1>1, <1>9, <1>11, <1>12, <1>13, <1>14 DEF PackageThen, n, big, pkg, data

-----------------------------------------------------------------------------

\* The scan finds at most one START, with room for a package after it.
LEMMA StartFound ==
    ASSUME NEW data \in Seq(Byte), NEW p \in StartAt(data)
    PROVE  /\ p \in Nat /\ 1 <= p /\ p + 6 <= Len(data) /\ data[p] = START
           /\ StartAt(data) = {p}
<1>1. Len(data) \in Nat
  OBVIOUS
<1>2. p \in 1..Len(data) - 7 + 1 /\ data[p] = START
  BY DEF StartAt, Overhead
<1>3. ASSUME NEW q \in StartAt(data)
      PROVE  q = p
  <2>1. q \in 1..Len(data) - 7 + 1
    BY <1>3 DEF StartAt, Overhead
  <2>2. q <= p /\ p <= q
    BY <1>3 DEF StartAt
  <2> QED
    BY SMT, <1>1, <1>2, <2>1, <2>2
<1>4. StartAt(data) = {p}
  BY <1>3
<1>5. p \in Nat /\ 1 <= p /\ p + 6 <= Len(data)
  BY SMT, <1>1, <1>2
<1> QED
  BY <1>2, <1>4, <1>5

\* Four bytes are a number.
LEMMA NumberIsNat ==
    ASSUME NEW a \in Byte, NEW b \in Byte, NEW c \in Byte, NEW d \in Byte
    PROVE  Number(a, b, c, d) \in Nat
<1>1. a \in Nat /\ b \in Nat /\ c \in Nat /\ d \in Nat
  BY SMT DEF Byte
<1> QED
  BY SMT, <1>1 DEF Number

\* The length after a START is one.
LEMMA LengthFound ==
    ASSUME NEW data \in Seq(Byte), NEW p \in StartAt(data)
    PROVE  LengthAt(data, p + 2) \in Nat
<1>1. /\ data[p + 2] \in Byte /\ data[p + 2 + 1] \in Byte
      /\ data[p + 2 + 2] \in Byte /\ data[p + 2 + 3] \in Byte
  BY SMT, StartFound
<1> QED
  BY <1>1, NumberIsNat DEF LengthAt

\* EpollWorker.cpp, parse_sockpackage, and TCPClient.cpp, get_start_payload: the
\* two scan the same format with code of their own, and agree on every string:
\* whether there is a package in it, and where its payload is.
THEOREM DecodersAgree ==
    ASSUME NEW data \in Seq(Byte)
    PROVE  /\ get_start_payload(data) = {} <=> parse_sockpackage(data) = {}
           /\ \A p \in get_start_payload(data), r \in parse_sockpackage(data) :
                 /\ r.payload = SubSeq(data, p, p + Len(r.payload) - 1)
                 /\ data[p + Len(r.payload)] = END
<1> DEFINE nLen(q) == LengthAt(data, q + 2)
           Parsed == {q \in StartAt(data) :
                         /\ nLen(q) <= MaxBuffer
                         /\ q + 6 + nLen(q) <= Len(data)
                         /\ data[q + 6 + nLen(q)] = END}
           Got == {q \in StartAt(data) :
                      /\ nLen(q) <= MaxBuffer
                      /\ ~(q + 5 + nLen(q) + 1 > Len(data)
                             \/ data[q + 5 + nLen(q) + 1] # END)}
<1>1. ASSUME NEW q \in StartAt(data)
      PROVE  /\ q \in Nat /\ nLen(q) \in Nat /\ Len(data) \in Nat
             /\ q + 5 + nLen(q) + 1 = q + 6 + nLen(q)
  BY SMT, StartFound, LengthFound
<1>2. Parsed = Got
  <2>1. ASSUME NEW q \in StartAt(data)
        PROVE  q \in Parsed <=> q \in Got
    BY <2>1, <1>1
  <2> QED
    BY <2>1
<1>3. get_start_payload(data) = {q + 6 : q \in Got}
  BY DEF get_start_payload
<1>4. parse_sockpackage(data) =
        {[cType |-> data[q + 1],
          payload |-> SubSeq(data, q + 6, q + 5 + nLen(q))] : q \in Parsed}
  BY DEF parse_sockpackage
<1>5. get_start_payload(data) = {} <=> parse_sockpackage(data) = {}
  <2> HIDE DEF Parsed, Got, nLen
  <2>1. get_start_payload(data) = {} <=> Got = {}
    BY <1>3
  <2>2. parse_sockpackage(data) = {} <=> Parsed = {}
    BY <1>4
  <2> QED
    BY <1>2, <2>1, <2>2
<1>6. ASSUME NEW p \in get_start_payload(data), NEW r \in parse_sockpackage(data)
      PROVE  /\ r.payload = SubSeq(data, p, p + Len(r.payload) - 1)
             /\ data[p + Len(r.payload)] = END
  <2>1. PICK q \in Got : p = q + 6
    BY <1>3, <1>6
  <2>2. PICK o \in Parsed : r.payload = SubSeq(data, o + 6, o + 5 + nLen(o))
    BY <1>4, <1>6
  <2>3. q = o
    BY StartFound
  <2>4. q \in Nat /\ nLen(q) \in Nat /\ Len(data) \in Nat
    BY <1>1
  <2>5. q + 6 + nLen(q) <= Len(data) /\ data[q + 6 + nLen(q)] = END
    BY <2>2, <2>3
  <2> HIDE DEF nLen
  <2>6. \A i \in q + 6..q + 5 + nLen(q) : data[i] \in Byte
    BY SMT, <2>4, <2>5
  <2>7. q + 6 \in Int /\ q + 5 + nLen(q) \in Int
    BY SMT, <2>4
  <2> DEFINE first == q + 6
             last == q + 5 + nLen(q)
  <2>8. Len(SubSeq(data, first, last)) =
          IF first <= last THEN last - first + 1 ELSE 0
    <3> HIDE DEF first, last
    <3>1. /\ first \in Int /\ last \in Int
          /\ \A i \in first..last : data[i] \in Byte
      BY <2>6, <2>7 DEF first, last
    <3> QED
      BY <3>1, SubSeqProperties
  <2>9. Len(r.payload) = nLen(q)
    BY SMT, <2>2, <2>3, <2>4, <2>8
  <2>10. p + Len(r.payload) - 1 = q + 5 + nLen(q)
    BY SMT, <2>1, <2>4, <2>9
  <2>11. p + Len(r.payload) = q + 6 + nLen(q)
    BY SMT, <2>1, <2>4, <2>9
  <2> QED
    BY <2>1, <2>2, <2>3, <2>5, <2>10, <2>11
<1> QED
  BY <1>5, <1>6

-----------------------------------------------------------------------------

\* A length with nothing in its first two bytes, and one with its first byte.
LEMMA Numbers ==
    /\ \A c, d \in Byte : Number(0, 0, c, d) = 256 * c + d
    /\ \A a, b, c, d \in Byte : a # 0 => Number(a, b, c, d) > MaxBuffer
<1>1. ASSUME NEW c \in Byte, NEW d \in Byte
      PROVE  Number(0, 0, c, d) = 256 * c + d
  BY SMT DEF Number, Byte
<1>2. ASSUME NEW a \in Byte, NEW b \in Byte, NEW c \in Byte, NEW d \in Byte,
             a # 0
      PROVE  Number(a, b, c, d) > MaxBuffer
  <2>1. a \in Nat /\ 1 <= a /\ b \in Nat /\ c \in Nat /\ d \in Nat
    BY SMT, <1>2 DEF Byte
  <2>2. Number(a, b, c, d) > 65535
    BY SMT, <2>1 DEF Number
  <2>3. Number(a, b, c, d) \in Nat
    BY NumberIsNat
  <2> QED
    BY SMT, <2>2, <2>3, Constants
<1> QED
  BY <1>1, <1>2

\* SQLManager.cpp, build_package, against parse_sockpackage: a package comes out
\* as it went in, whatever bytes are in its payload, START and END among them,
\* and whatever was sent after it and arrived in the same read.
THEOREM RoundTrip ==
    ASSUME NEW type, NEW payload, Fits(type, payload), NEW after \in Seq(Byte)
    PROVE  parse_sockpackage(build_package(type, payload) \o after) =
              {[cType |-> type, payload |-> payload]}
<1> DEFINE data == build_package(type, payload) \o after
           n == Len(payload)
<1>1. /\ n \in Nat /\ n <= MaxBuffer
      /\ data \in Seq(Byte) /\ Len(data) = n + 7 + Len(after)
      /\ data[1] = START /\ data[2] = type
      /\ \A i \in 1..4 : data[2 + i] = BigEndian(n)[i]
      /\ \A i \in 1..n : data[6 + i] = payload[i]
      /\ data[n + 7] = END
  BY PackageBytes DEF PackageThen
<1>2. payload \in Seq(Byte) /\ Len(after) \in Nat
  BY DEF Fits
<1> HIDE DEF data
<1>3. StartAt(data) = {1}
  <2>1. 1 \in 1..Len(data) - 7 + 1
    BY SMT, <1>1, <1>2
  <2>2. \A j \in 1..Len(data) - 7 + 1 : 1 <= j
    BY SMT
  <2>3. 1 \in StartAt(data)
    BY <1>1, <2>1, <2>2 DEF StartAt, Overhead
  <2> QED
    BY <1>1, <2>3, StartFound
<1>4. LengthAt(data, 3) = n
  <2> DEFINE big == BigEndian(n)
  <2>1. data[3] = big[1] /\ data[4] = big[2] /\ data[5] = big[3] /\ data[6] = big[4]
    BY SMT, <1>1
  <2>2. /\ big[1] = 0 /\ big[2] = 0 /\ n = 256 * big[3] + big[4]
        /\ big[3] \in Byte /\ big[4] \in Byte
    BY <1>1, LengthBytes
  <2>3. LengthAt(data, 3) = Number(data[3], data[4], data[5], data[6])
    BY SMT DEF LengthAt
  <2> HIDE DEF big
  <2> QED
    BY <2>1, <2>2, <2>3, Numbers
<1>5. SubSeq(data, 7, 6 + n) = payload
  <2> DEFINE sub == SubSeq(data, 7, 6 + n)
  <2>1. \A i \in 7..6 + n : data[i] \in Byte
    BY SMT, <1>1, <1>2
  <2>2. 7 \in Int /\ 6 + n \in Int
    BY <1>1
  <2>3. /\ sub \in Seq(Byte)
        /\ Len(sub) = IF 7 <= 6 + n THEN 6 + n - 7 + 1 ELSE 0
        /\ \A i \in 1..6 + n - 7 + 1 : sub[i] = data[7 + i - 1]
    BY <2>1, <2>2, SubSeqProperties
  <2> HIDE DEF sub
  <2>4. Len(sub) = n
    BY SMT, <1>1, <2>3
  <2>5. \A i \in 1..n : sub[i] = payload[i]
    BY SMT, <1>1, <2>3
  <2> HIDE DEF n
  <2>6. sub = payload
    BY <1>2, <2>3, <2>4, <2>5, SeqEqual DEF n
  <2> QED
    BY <2>6 DEF sub
<1> DEFINE Good(q) == /\ LengthAt(data, q + 2) <= MaxBuffer
                     /\ q + 6 + LengthAt(data, q + 2) <= Len(data)
                     /\ data[q + 6 + LengthAt(data, q + 2)] = END
           Package(q) == [cType |-> data[q + 1],
                          payload |-> SubSeq(data, q + 6, q + 5 + LengthAt(data, q + 2))]
<1>6. 1 + 1 = 2 /\ 1 + 2 = 3 /\ 1 + 6 = 7 /\ 1 + 5 = 6 /\ 7 + n = n + 7
  BY SMT, <1>1
<1>7. Good(1)
  BY SMT, <1>1, <1>2, <1>4, <1>6
<1>8. Package(1) = [cType |-> type, payload |-> payload]
  BY <1>1, <1>4, <1>5, <1>6
<1>9. parse_sockpackage(data) = {Package(q) : q \in {o \in StartAt(data) : Good(o)}}
  BY Zenon DEF parse_sockpackage
<1> HIDE DEF Good, Package, n
<1>10. parse_sockpackage(data) = {Package(1)}
  BY <1>3, <1>7, <1>9
<1> QED
  BY <1>8, <1>10 DEF data

NulFree(text) == \A i \in 1..Len(text) : text[i] # 0

BeginsWithNul(text) == Len(text) > 0 /\ text[1] = 0

\* A read that begins k bytes after the start of a package whose text has no NUL,
\* because TCP or a full buffer cut it there: a START in the rest of it never
\* makes a package, whatever the text says.  What follows is nothing, or begins
\* with anything but NUL, as the next package does.
THEOREM FalseStart ==
    ASSUME NEW type, NEW payload, Fits(type, payload), type # START,
           NulFree(payload), NEW after \in Seq(Byte), ~BeginsWithNul(after),
           NEW k \in 1..Len(payload) + 6
    PROVE  LET whole == build_package(type, payload) \o after
               data == SubSeq(whole, k + 1, Len(whole))
           IN  \A p \in StartAt(data) :
                  p + k <= Len(payload) + 7 => parse_sockpackage(data) = {}
<1>0. PackageThen(build_package(type, payload) \o after, type, payload, after)
  BY PackageBytes
<1> DEFINE whole == build_package(type, payload) \o after
           data == SubSeq(whole, k + 1, Len(whole))
           n == Len(payload)
<1>1. /\ n \in Nat /\ n <= MaxBuffer
      /\ whole \in Seq(Byte) /\ Len(whole) = n + 7 + Len(after)
      /\ whole[2] = type
      /\ \A i \in 1..4 : whole[2 + i] = BigEndian(n)[i]
      /\ \A i \in 1..n : whole[6 + i] = payload[i]
      /\ whole[n + 7] = END
      /\ \A i \in 1..Len(after) : whole[n + 7 + i] = after[i]
  BY <1>0, Zenon DEF PackageThen
<1>2. Len(after) \in Nat /\ k \in Nat /\ 1 <= k /\ k <= n + 6
  BY SMT, <1>1
<1> HIDE DEF whole
<1>3. /\ data \in Seq(Byte) /\ Len(data) = Len(whole) - k
      /\ \A i \in 1..Len(data) : data[i] = whole[k + i]
  <2>1. \A i \in k + 1..Len(whole) : whole[i] \in Byte
    BY SMT, <1>1, <1>2
  <2>2. k + 1 \in Int /\ Len(whole) \in Int
    BY <1>1, <1>2
  <2>3. /\ data \in Seq(Byte)
        /\ Len(data) = IF k + 1 <= Len(whole) THEN Len(whole) - (k + 1) + 1 ELSE 0
        /\ \A i \in 1..Len(whole) - (k + 1) + 1 : data[i] = whole[k + 1 + i - 1]
    BY <2>1, <2>2, SubSeqProperties
  <2> HIDE DEF data
  <2>4. Len(data) = Len(whole) - k
    BY SMT, <1>1, <1>2, <2>3
  <2>5. \A i \in 1..Len(data) : data[i] = whole[k + i]
    BY SMT, <1>1, <1>2, <2>3, <2>4
  <2> QED
    BY <2>3, <2>4, <2>5
<1> HIDE DEF data
<1>4. ASSUME NEW p \in StartAt(data), p + k <= n + 7
      PROVE  parse_sockpackage(data) = {}
  <2>1. /\ p \in Nat /\ 1 <= p /\ p + 6 <= Len(data) /\ data[p] = START
        /\ StartAt(data) = {p}
    BY <1>3, StartFound
  <2> DEFINE i == p + k
  <2>2. i \in Nat /\ 2 <= i /\ i <= n + 7 /\ i + 6 <= n + 7 + Len(after)
    BY SMT, <1>1, <1>2, <1>3, <1>4, <2>1
  <2>3. whole[i] = START /\ data[p + 2] = whole[i + 2]
    <3>1. Len(data) \in Nat
      BY <1>3
    <3>2. p \in 1..Len(data) /\ p + 2 \in 1..Len(data)
      BY SMT, <2>1, <3>1
    <3>3. k + p = i /\ k + (p + 2) = i + 2
      BY SMT, <1>2, <2>1
    <3> QED
      BY <1>3, <2>1, <3>2, <3>3
  <2> HIDE DEF i
  \* The START is the last byte of the length, or in the payload.
  <2>4. 6 <= i /\ i <= n + 6
    <3>1. whole[3] = 0 /\ whole[4] = 0 /\ whole[5] # START
      <4>1. /\ whole[3] = BigEndian(n)[1] /\ whole[4] = BigEndian(n)[2]
            /\ whole[5] = BigEndian(n)[3]
        BY SMT, <1>1
      <4> QED
        BY <4>1, <1>1, LengthBytes
    <3>2. i # 2 /\ i # 3 /\ i # 4 /\ i # 5 /\ i # n + 7
      BY <1>1, <2>3, <3>1, Constants
    <3> QED
      BY SMT, <1>1, <2>2, <3>2
  \* What would be the first byte of the length is text, END or the next package.
  <2>5. whole[i + 2] # 0
    <3>1. CASE i + 2 <= n + 6
      <4>1. i - 4 \in 1..n /\ 6 + (i - 4) = i + 2
        BY SMT, <1>1, <2>2, <2>4, <3>1
      <4>2. whole[i + 2] = payload[i - 4]
        BY <1>1, <4>1
      <4>3. payload[i - 4] # 0
        BY <4>1 DEF NulFree
      <4> QED
        BY <4>2, <4>3
    <3>2. CASE i + 2 = n + 7
      BY <1>1, <3>2, Constants
    <3>3. CASE i + 2 = n + 7 + 1
      <4>1. 1 \in 1..Len(after)
        BY SMT, <1>1, <1>2, <2>2, <3>3
      <4>2. whole[i + 2] = after[1]
        BY <1>1, <3>3, <4>1
      <4>3. after[1] # 0
        BY <4>1 DEF BeginsWithNul
      <4> QED
        BY <4>2, <4>3
    <3> QED
      BY SMT, <1>1, <2>2, <2>4, <3>1, <3>2, <3>3
  <2>6. LengthAt(data, p + 2) > MaxBuffer
    <3>1. /\ data[p + 2] \in Byte /\ data[p + 2 + 1] \in Byte
          /\ data[p + 2 + 2] \in Byte /\ data[p + 2 + 3] \in Byte
      <4>1. data \in Seq(Byte) /\ Len(data) \in Nat
        BY <1>3
      <4> QED
        BY SMT, <2>1, <4>1
    <3>2. data[p + 2] # 0
      BY <2>3, <2>5
    <3> QED
      BY <3>1, <3>2, Numbers DEF LengthAt
  <2>7. LengthAt(data, p + 2) \in Nat
    BY <1>3, LengthFound
  <2>8. ~(LengthAt(data, p + 2) <= MaxBuffer)
    BY SMT, <2>6, <2>7, Constants
  <2> QED
    BY <2>1, <2>8 DEF parse_sockpackage
<1> QED
  BY <1>4 DEF data, whole

-----------------------------------------------------------------------------
(* The fields of a payload. *)

Chars == 1..255

Pieced(fields) == [i \in DOMAIN fields |-> <<SEP>> \o fields[i]]

\* The recursive equation of FlattenSeq, for the first m of some strings.
Flat(g, strings, m) ==
    g = [i \in 1..m |-> IF i = 1 THEN strings[i] ELSE g[i - 1] \o strings[i]]

\* SQLManager.cpp, the fields put together: the payload is the last of the strings
\* that the recursive equation of FlattenSeq describes.
LEMMA PayloadIsFlat ==
    ASSUME NEW fields \in Seq(Text)
    PROVE  Payload(fields) = IF fields = <<>> THEN <<>>
                             ELSE (CHOOSE g : Flat(g, Pieced(fields), Len(fields)))[Len(fields)]
<1> DEFINE p == Pieced(fields)
<1>1. p \in Seq(Seq(Nat)) /\ Len(p) = Len(fields)
  <2>1. DOMAIN fields = 1..Len(fields) /\ Len(fields) \in Nat
    OBVIOUS
  <2>2. \A i \in DOMAIN fields : <<SEP>> \o fields[i] \in Seq(Nat)
    <3>1. SEP \in Nat
      BY FramingAssumption DEF FramingAssumption, Byte
    <3>2. \A i \in DOMAIN fields : fields[i] \in Text
      OBVIOUS
    <3>3. 1..255 \subseteq Nat
      BY SMT
    <3>4. Text \subseteq Seq(Nat)
      BY <3>3, SeqMonotonic DEF Text
    <3> QED
      BY <3>1, <3>2, <3>4
  <2>3. p = [i \in 1..Len(fields) |-> <<SEP>> \o fields[i]]
    BY <2>1 DEF Pieced
  <2> QED
    BY <2>1, <2>2, <2>3
<1>2. Payload(fields) = FlattenSeq(p)
  BY DEF Payload, Pieced
<1> HIDE DEF p
<1>3. FlattenSeq(p) = IF Len(p) = 0 THEN p
                      ELSE (CHOOSE g : Flat(g, p, Len(p)))[Len(p)]
  BY Zenon DEF FlattenSeq, Flat
<1>4. Len(p) = 0 <=> fields = <<>>
  BY <1>1
<1>5. Len(p) = 0 => p = <<>>
  BY <1>1
<1> QED
  BY <1>1, <1>2, <1>3, <1>4, <1>5 DEF p

\* That equation has a solution for any number of strings: the least number for
\* which it had none would follow one for which it has.
LEMMA FlatExists ==
    ASSUME NEW strings, NEW n \in Nat, n # 0
    PROVE  \E g : Flat(g, strings, n)
<1> DEFINE Bad == {m \in Nat : m # 0 /\ ~\E g : Flat(g, strings, m)}
<1> SUFFICES ASSUME Bad # {}
             PROVE  FALSE
  OBVIOUS
<1>1. PICK m \in Bad : \A k \in Bad : m <= k
  <2> HIDE DEF Bad
  <2>1. Bad \subseteq Nat
    BY DEF Bad
  <2> QED
    BY <2>1, LeastNat
<1>2. CASE m = 1
  <2> DEFINE g == [i \in 1..1 |-> strings[1]]
  <2>1. Flat(g, strings, 1)
    BY DEF Flat
  <2> QED
    BY <1>1, <1>2, <2>1
<1>3. CASE m # 1
  <2>1. m \in Nat /\ m - 1 \in Nat /\ m - 1 # 0
    BY <1>1, <1>3
  <2>2. PICK g : Flat(g, strings, m - 1)
    BY <1>1, <2>1
  <2> DEFINE h == [i \in 1..m |-> IF i = m THEN g[m - 1] \o strings[m] ELSE g[i]]
  <2>3. Flat(h, strings, m)
    <3>1. ASSUME NEW i \in 1..m
          PROVE  h[i] = IF i = 1 THEN strings[i] ELSE h[i - 1] \o strings[i]
      <4>1. CASE i = m
        <5>1. i # 1 /\ i - 1 \in 1..m /\ i - 1 # m
          BY <1>3, <2>1, <4>1
        <5> QED
          BY <4>1, <5>1
      <4>2. CASE i # m
        <5>1. i \in 1..(m - 1)
          BY <2>1, <4>2
        <5>2. g[i] = IF i = 1 THEN strings[i] ELSE g[i - 1] \o strings[i]
          BY <2>2, <5>1 DEF Flat
        <5>3. i # 1 => i - 1 \in 1..m /\ i - 1 # m
          BY <2>1, <4>2
        <5>4. h[i] = g[i] /\ (i # 1 => h[i - 1] = g[i - 1])
          BY <4>2, <5>3
        <5> HIDE DEF h
        <5> QED
          BY <5>2, <5>4
      <4> QED
        BY <4>1, <4>2
    <3> HIDE DEF h
    <3>2. h = [i \in 1..m |-> h[i]]
      BY DEF h
    <3> QED
      BY <3>1, <3>2 DEF Flat
  <2> QED
    BY <1>1, <2>3
<1> QED
  BY <1>2, <1>3

FieldAt(P, a, field) ==
    /\ 2 <= a /\ a + Len(field) <= Len(P) + 1
    /\ P[a - 1] = SEP
    /\ \A j \in 1..Len(field) : P[a + j - 1] = field[j]
    /\ a + Len(field) = Len(P) + 1 \/ P[a + Len(field)] = SEP

\* Where the first m fields begin in a payload of just these.
Laid(P, fields, pos, m) ==
    /\ P \in Seq(Chars)
    /\ pos \in [1..m -> Nat]
    /\ \A k \in 1..m : FieldAt(P, pos[k], fields[k])
    /\ \A k, l \in 1..m : k < l => pos[k] + Len(fields[k]) < pos[l]
    /\ \A i \in 1..Len(P) : \E k \in 1..m :
          pos[k] <= i + 1 /\ i < pos[k] + Len(fields[k])

\* The separator is a character of a payload, never NUL.
LEMMA SepIsChar == SEP \in Chars
  BY FramingAssumption DEF FramingAssumption, Byte, Chars

\* One field more after fields that are laid out keeps them laid out.
LEMMA LaidMore ==
    ASSUME NEW fields \in Seq(Text), NEW m \in Nat, m < Len(fields),
           NEW P, NEW pos, Laid(P, fields, pos, m)
    PROVE  \E more : Laid(P \o (<<SEP>> \o fields[m + 1]), fields, more, m + 1)
<1> DEFINE f == fields[m + 1]
           s == <<SEP>> \o f
           Q == P \o s
           n == Len(P)
           more == [k \in 1..m + 1 |-> IF k = m + 1 THEN n + 2 ELSE pos[k]]
<1>1. f \in Text /\ \A k \in 1..m : fields[k] \in Text
  <2>1. Len(fields) \in Nat /\ m + 1 \in 1..Len(fields)
    OBVIOUS
  <2>2. \A k \in 1..m : k \in 1..Len(fields)
    BY <2>1
  <2> QED
    BY <2>1, <2>2, ElementOfSeq
<1>2. f \in Seq(Chars) /\ Len(f) \in Nat /\ \A k \in 1..m : Len(fields[k]) \in Nat
  BY <1>1 DEF Text, Chars
<1>3. P \in Seq(Chars) /\ n \in Nat
  BY DEF Laid
<1>4. /\ s \in Seq(Chars) /\ Len(s) = Len(f) + 1 /\ s[1] = SEP
      /\ \A j \in 1..Len(f) : s[1 + j] = f[j]
  <2>1. <<SEP>> \in Seq(Chars) /\ Len(<<SEP>>) = 1 /\ <<SEP>>[1] = SEP
    BY SepIsChar
  <2>2. 1 \in 1..Len(<<SEP>>)
    BY <2>1
  <2> HIDE DEF f
  <2>3. /\ s \in Seq(Chars)
        /\ Len(s) = Len(<<SEP>>) + Len(f)
        /\ s[1] = <<SEP>>[1]
        /\ \A i \in 1..Len(f) : s[Len(<<SEP>>) + i] = f[i]
    BY <1>2, <2>1, <2>2, Joined
  <2> HIDE DEF s
  <2> QED
    BY <1>2, <2>1, <2>3
<1> HIDE DEF s, f
<1>5. /\ Q \in Seq(Chars) /\ Len(Q) = n + Len(f) + 1
      /\ \A i \in 1..n : Q[i] = P[i]
      /\ \A i \in 1..Len(s) : Q[n + i] = s[i]
  <2>1. Len(Q) = n + Len(s) /\ Q \in Seq(Chars)
    BY <1>3, <1>4, Joined
  <2>2. /\ \A i \in 1..n : Q[i] = P[i]
        /\ \A i \in 1..Len(s) : Q[n + i] = s[i]
    BY <1>3, <1>4, Joined
  <2> HIDE DEF Q
  <2> QED
    BY <1>2, <1>3, <1>4, <2>1, <2>2
<1> HIDE DEF Q, n
<1>6. Q[n + 1] = SEP /\ \A j \in 1..Len(f) : Q[n + 1 + j] = f[j]
  BY <1>2, <1>3, <1>4, <1>5
<1>7. more \in [1..m + 1 -> Nat]
  BY <1>3 DEF Laid
<1>8. more[m + 1] = n + 2 /\ \A k \in 1..m : more[k] = pos[k] /\ pos[k] \in Nat
  BY DEF Laid
<1>9. \A k \in 1..m : pos[k] + Len(fields[k]) <= n + 1
  BY DEF Laid, FieldAt, n
<1> HIDE DEF more
<1>10. FieldAt(Q, n + 2, f)
  BY <1>2, <1>3, <1>5, <1>6 DEF FieldAt
<1>11. ASSUME NEW k \in 1..m
       PROVE  FieldAt(Q, pos[k], fields[k])
  <2>1. FieldAt(P, pos[k], fields[k]) /\ pos[k] \in Nat /\ Len(fields[k]) \in Nat
    BY <1>2 DEF Laid
  <2> DEFINE a == pos[k]
             g == fields[k]
  <2>2. /\ 2 <= a /\ a + Len(g) <= n + 1 /\ P[a - 1] = SEP
        /\ \A j \in 1..Len(g) : P[a + j - 1] = g[j]
        /\ a + Len(g) = n + 1 \/ P[a + Len(g)] = SEP
        /\ a \in Nat /\ Len(g) \in Nat
    BY <2>1 DEF FieldAt, n
  <2> HIDE DEF a, g
  <2>3. Q[a - 1] = SEP
    <3>1. a - 1 \in 1..n
      BY <1>3, <2>2
    <3> QED
      BY <1>5, <2>2, <3>1
  <2>4. \A j \in 1..Len(g) : Q[a + j - 1] = g[j]
    <3>1. \A j \in 1..Len(g) : a + j - 1 \in 1..n
      BY <1>3, <2>2
    <3> QED
      BY <1>5, <2>2, <3>1
  <2>5. Q[a + Len(g)] = SEP
    <3>1. CASE a + Len(g) = n + 1
      BY <1>6, <3>1
    <3>2. CASE a + Len(g) # n + 1
      <4> DEFINE e == a + Len(g)
      <4>1. e \in Nat /\ 2 <= e /\ e <= n + 1 /\ e # n + 1
        BY <2>2, <3>2
      <4>2. P[e] = SEP
        BY <2>2, <3>2
      <4> HIDE DEF e
      <4>3. e \in 1..n
        BY <1>3, <4>1
      <4>4. Q[e] = SEP
        BY <1>5, <4>2, <4>3
      <4> QED
        BY <4>4 DEF e
    <3> QED
      BY <3>1, <3>2
  <2>6. a + Len(g) <= Len(Q) + 1
    BY <1>2, <1>3, <1>5, <2>2
  <2> QED
    BY <2>2, <2>3, <2>4, <2>5, <2>6 DEF FieldAt, a, g
<1>12. \A k \in 1..m + 1 : FieldAt(Q, more[k], fields[k])
  <2>1. \A k \in 1..m + 1 : k = m + 1 \/ k \in 1..m
    OBVIOUS
  <2> QED
    BY <1>8, <1>10, <1>11, <2>1 DEF f
<1>13. ASSUME NEW k \in 1..m + 1, NEW l \in 1..m + 1, k < l
       PROVE  more[k] + Len(fields[k]) < more[l]
  <2>1. k \in 1..m
    BY <1>13
  <2>2. CASE l = m + 1
    BY <1>2, <1>3, <1>8, <1>9, <2>1, <2>2
  <2>3. CASE l # m + 1
    <3>1. l \in 1..m
      BY <2>3
    <3> QED
      BY <1>8, <1>13, <2>1, <3>1 DEF Laid
  <2> QED
    BY <2>2, <2>3
<1>14. ASSUME NEW i \in 1..Len(Q)
       PROVE  \E k \in 1..m + 1 : more[k] <= i + 1 /\ i < more[k] + Len(fields[k])
  <2>1. CASE i <= n
    <3>1. i \in 1..Len(P)
      BY <1>3, <2>1 DEF n
    <3>2. PICK k \in 1..m : pos[k] <= i + 1 /\ i < pos[k] + Len(fields[k])
      BY <3>1 DEF Laid
    <3>3. k \in 1..m + 1
      OBVIOUS
    <3> QED
      BY <1>8, <3>2, <3>3
  <2>2. CASE i > n
    <3>1. m + 1 \in 1..m + 1
      OBVIOUS
    <3>2. n + 2 <= i + 1 /\ i < n + 2 + Len(f)
      BY <1>2, <1>3, <1>5, <2>2
    <3> QED
      BY <1>8, <3>1, <3>2 DEF f
  <2> QED
    BY <1>3, <1>5, <2>1, <2>2
<1>15. Laid(Q, fields, more, m + 1)
  BY <1>5, <1>7, <1>12, <1>13, <1>14 DEF Laid
<1> QED
  BY <1>15 DEF Q, s, f

\* A payload is its fields, each after a SEP.
LEMMA PayloadIsLaid ==
    ASSUME NEW fields \in Seq(Text)
    PROVE  \E pos : Laid(Payload(fields), fields, pos, Len(fields))
<1> DEFINE n == Len(fields)
<1>0. n \in Nat
  OBVIOUS
<1>1. Laid(<<>>, fields, <<>>, 0)
  BY EmptySeq DEF Laid
<1>2. CASE fields = <<>>
  BY <1>1, <1>2, PayloadIsFlat
<1>3. CASE fields # <<>>
  <2> DEFINE g == CHOOSE h : Flat(h, Pieced(fields), n)
             p == Pieced(fields)
  <2>1. n # 0
    BY <1>3
  <2>2. Flat(g, p, n)
    BY <1>0, <2>1, FlatExists
  <2> HIDE DEF g
  <2>3. \A i \in 1..n : p[i] = <<SEP>> \o fields[i]
    BY DEF Pieced
  <2> HIDE DEF p
  <2> DEFINE Bad == {m \in 1..n : ~\E pos : Laid(g[m], fields, pos, m)}
  <2>4. Bad = {}
    <3> SUFFICES ASSUME Bad # {}
                 PROVE  FALSE
      OBVIOUS
    <3>1. PICK m \in Bad : \A k \in Bad : m <= k
      <4>1. Bad \subseteq Nat
        BY <1>0
      <4> HIDE DEF Bad
      <4> QED
        BY <4>1, LeastNat
    <3>2. m \in 1..n /\ m \in Nat
      BY <1>0
    <3> DEFINE Q == IF m = 1 THEN <<>> ELSE g[m - 1]
    <3>3. \E pos : Laid(Q, fields, pos, m - 1)
      <4>1. CASE m = 1
        BY <1>1, <4>1
      <4>2. CASE m # 1
        <5>1. m - 1 \in 1..n /\ ~(m <= m - 1)
          BY <1>0, <3>2, <4>2
        <5> QED
          BY <3>1, <4>2, <5>1
      <4> QED
        BY <4>1, <4>2
    <3>4. m - 1 \in Nat /\ m - 1 < Len(fields) /\ m - 1 + 1 = m
      BY <1>0, <3>2
    <3> HIDE DEF Bad, Q
    <3>5. \E pos : Laid(Q \o (<<SEP>> \o fields[m]), fields, pos, m)
      BY <3>3, <3>4, LaidMore
    <3>6. g[m] = Q \o (<<SEP>> \o fields[m])
      <4>1. g[m] = IF m = 1 THEN p[m] ELSE g[m - 1] \o p[m]
        BY <2>2, <3>2 DEF Flat
      <4>2. fields[m] \in Seq(Chars)
        BY <3>2, ElementOfSeq DEF Text, Chars
      <4>3. <<SEP>> \o fields[m] \in Seq(Chars)
        BY <4>2, SepIsChar
      <4>4. <<>> \o (<<SEP>> \o fields[m]) = <<SEP>> \o fields[m]
        BY <4>3, ConcatEmptySeq
      <4> QED
        BY <2>3, <3>2, <4>1, <4>4 DEF Q
    <3> QED
      BY <3>1, <3>5, <3>6 DEF Bad
  <2>5. n \in 1..n
    BY <1>0, <2>1
  <2> QED
    BY <1>3, <2>4, <2>5, PayloadIsFlat DEF g, p
<1> QED
  BY <1>2, <1>3

-----------------------------------------------------------------------------
(* Every command's fields come back. *)

\* Increasing positions are counted by their index.
LEMMA CountUpTo ==
    ASSUME NEW n \in Nat, NEW pos \in [1..n -> Nat],
           \A k, l \in 1..n : k < l => pos[k] < pos[l],
           NEW k \in 0..n
    PROVE  Cardinality({pos[l] : l \in 1..k}) = k
<1> DEFINE f == [l \in 1..k |-> pos[l]]
           T == {pos[l] : l \in 1..k}
<1>1. \A l \in 1..k : l \in 1..n
  OBVIOUS
<1>2. f \in Surjection(1..k, T)
  BY DEF Surjection
<1>3. f \in Injection(1..k, T)
  <2>1. ASSUME NEW a \in 1..k, NEW b \in 1..k, pos[a] = pos[b]
        PROVE  a = b
    <3>1. a \in 1..n /\ b \in 1..n /\ pos[a] \in Nat
      BY <1>1
    <3>2. ~(a < b) /\ ~(b < a)
      BY <2>1, <3>1
    <3> QED
      BY <3>1, <3>2
  <2>2. f \in [1..k -> T]
    OBVIOUS
  <2> QED
    BY <2>1, <2>2 DEF Injection, IsInjective
<1>4. IsFiniteSet(1..k) /\ Cardinality(1..k) = k
  <2>1. k \in Nat /\ 1 \in Int /\ k \in Int
    OBVIOUS
  <2>2. /\ IsFiniteSet(1..k)
        /\ Cardinality(1..k) = IF 1 > k THEN 0 ELSE k - 1 + 1
    BY <2>1, FS_Interval
  <2> QED
    BY <2>1, <2>2
<1> HIDE DEF f, T
<1>5. Cardinality(T) = Cardinality(1..k)
  BY <1>2, <1>3, <1>4, FS_Surjection
<1> QED
  BY <1>4, <1>5 DEF T

\* The place of a field without SEP begins where getdata looks for one, and ends
\* where it looks for its end.
LEMMA FieldFound ==
    ASSUME NEW P \in Seq(Chars), NEW a \in Nat, NEW field \in Text,
           FieldAt(P, a, field), SEP \notin Range(field)
    PROVE  /\ a \in 1..Len(P) /\ P[a] # SEP /\ P[a - 1] = SEP
           /\ \A i \in a..a + Len(field) - 1 : P[i] # SEP
           /\ SubSeq(P, a,
                 CHOOSE e \in a..Len(P) :
                    /\ \A j \in a..e : P[j] # SEP
                    /\ e = Len(P) \/ P[e + 1] = SEP) = field
<1> DEFINE n == Len(field)
           last == a + n - 1
<1>1. field \in Seq(Chars) /\ n \in Nat /\ n >= 1 /\ Len(P) \in Nat
  BY DEF Text, Chars
<1>2. /\ 2 <= a /\ a + n <= Len(P) + 1
      /\ P[a - 1] = SEP
      /\ \A j \in 1..n : P[a + j - 1] = field[j]
      /\ a + n = Len(P) + 1 \/ P[a + n] = SEP
  BY DEF FieldAt
<1>3. \A j \in 1..n : field[j] # SEP
  BY <1>1 DEF Range
<1> HIDE DEF n
<1>4. \A i \in a..last : P[i] # SEP
  <2> SUFFICES ASSUME NEW i \in a..last
               PROVE  P[i] # SEP
    OBVIOUS
  <2>1. i - a + 1 \in 1..n /\ a + (i - a + 1) - 1 = i
    BY <1>1
  <2> QED
    BY <1>2, <1>3, <2>1
<1>5. a \in a..last /\ a \in 1..Len(P) /\ last \in a..Len(P) /\ last + 1 = a + n
  BY <1>1, <1>2
<1>6. last = Len(P) \/ P[last + 1] = SEP
  BY <1>1, <1>2, <1>5
<1> DEFINE Ends(e) == /\ \A j \in a..e : P[j] # SEP
                      /\ e = Len(P) \/ P[e + 1] = SEP
<1>7. \A e \in a..Len(P) : Ends(e) => e = last
  <2> SUFFICES ASSUME NEW e \in a..Len(P), Ends(e)
               PROVE  e = last
    OBVIOUS
  <2>1. CASE e < last
    <3>1. e + 1 \in a..last /\ e # Len(P)
      BY <1>1, <1>5, <2>1
    <3>2. P[e + 1] # SEP
      BY <1>4, <3>1
    <3> QED
      BY <3>1, <3>2
  <2>2. CASE last < e
    <3>1. last + 1 \in a..e /\ last # Len(P)
      BY <1>1, <1>5, <2>2
    <3>2. P[last + 1] # SEP
      BY <3>1
    <3> QED
      BY <1>6, <3>1, <3>2
  <2> HIDE DEF Ends, last
  <2>3. e \in Int /\ last \in Int
    BY <1>1, <1>5
  <2> QED
    BY <2>1, <2>2, <2>3
<1>8. Ends(last)
  BY <1>4, <1>6
<1> HIDE DEF Ends, last
<1>9. (CHOOSE e \in a..Len(P) : Ends(e)) = last
  BY <1>5, <1>7, <1>8
<1>10. SubSeq(P, a, last) = field
  <2> DEFINE sub == SubSeq(P, a, last)
  <2>1. \A i \in a..last : P[i] \in Chars
    <3>1. \A i \in a..last : i \in 1..Len(P)
      BY <1>1, <1>5
    <3> QED
      BY <3>1, ElementOfSeq
  <2>2. /\ sub \in Seq(Chars)
        /\ Len(sub) = IF a <= last THEN last - a + 1 ELSE 0
        /\ \A i \in 1..last - a + 1 : sub[i] = P[a + i - 1]
    <3>1. a \in Int /\ last \in Int
      BY <1>5
    <3> QED
      BY <2>1, <3>1, SubSeqProperties
  <2>3. last - a + 1 = n /\ a <= last
    BY <1>1, <1>5
  <2> HIDE DEF sub
  <2>4. Len(sub) = n /\ \A i \in 1..n : sub[i] = field[i]
    BY <1>2, <2>2, <2>3
  <2>5. Len(sub) = Len(field) /\ \A i \in 1..Len(sub) : sub[i] = field[i]
    BY <2>4 DEF n
  <2>6. sub = field
    BY <1>1, <2>2, <2>5, SeqEqual
  <2> QED
    BY <2>6 DEF sub
<1> QED
  BY <1>2, <1>4, <1>5, <1>9, <1>10 DEF Ends, last, n

\* SQLManager.cpp, getdata, against the client's assembly of a payload: the
\* fields a user typed, in any number and of any length, come out as he typed
\* them as long as none has a SEP in it.
THEOREM FieldsComeBack ==
    ASSUME NEW fields \in Seq(Text),
           \A i \in DOMAIN fields : SEP \notin Range(fields[i])
    PROVE  getdata(Payload(fields)) = fields
<1> DEFINE n == Len(fields)
           P == Payload(fields)
           starts == {i \in 1..Len(P) : P[i] # SEP /\ (i = 1 \/ P[i - 1] = SEP)}
           Field(i) == SubSeq(P, i,
                          CHOOSE e \in i..Len(P) :
                             /\ \A j \in i..e : P[j] # SEP
                             /\ e = Len(P) \/ P[e + 1] = SEP)
           Start(k) == CHOOSE i \in starts : Cardinality({j \in starts : j <= i}) = k
<1>1. getdata(P) = [k \in 1..Cardinality(starts) |-> Field(Start(k))]
  BY Zenon DEF getdata
<1>2. n \in Nat /\ DOMAIN fields = 1..n
  OBVIOUS
<1>3. PICK pos : Laid(P, fields, pos, n)
  BY PayloadIsLaid
<1> HIDE DEF P
<1>4. /\ P \in Seq(Chars) /\ Len(P) \in Nat
      /\ pos \in [1..n -> Nat]
      /\ \A k \in 1..n : FieldAt(P, pos[k], fields[k])
      /\ \A k, l \in 1..n : k < l => pos[k] + Len(fields[k]) < pos[l]
      /\ \A i \in 1..Len(P) : \E k \in 1..n :
            pos[k] <= i + 1 /\ i < pos[k] + Len(fields[k])
  BY <1>3 DEF Laid
<1>5. \A k \in 1..n : /\ fields[k] \in Text /\ Len(fields[k]) \in Nat
                      /\ SEP \notin Range(fields[k])
  <2>1. \A k \in 1..n : fields[k] \in Text
    BY <1>2, ElementOfSeq
  <2>2. \A text \in Text : Len(text) \in Nat
    BY DEF Text
  <2>3. \A k \in 1..n : SEP \notin Range(fields[k])
    BY <1>2
  <2> QED
    BY <2>1, <2>2, <2>3
<1>6. \A k \in 1..n : /\ pos[k] \in Nat
                      /\ pos[k] \in 1..Len(P) /\ P[pos[k]] # SEP /\ P[pos[k] - 1] = SEP
                      /\ \A i \in pos[k]..pos[k] + Len(fields[k]) - 1 : P[i] # SEP
                      /\ Field(pos[k]) = fields[k]
  BY <1>4, <1>5, FieldFound
<1> HIDE DEF Field
<1>7. starts = {pos[k] : k \in 1..n}
  <2>1. \A k \in 1..n : pos[k] \in starts
    BY <1>6
  <2>2. ASSUME NEW i \in starts
        PROVE  \E k \in 1..n : i = pos[k]
    <3>1. i \in 1..Len(P) /\ P[i] # SEP /\ (i = 1 \/ P[i - 1] = SEP)
      OBVIOUS
    <3>2. PICK k \in 1..n : pos[k] <= i + 1 /\ i < pos[k] + Len(fields[k])
      BY <1>4, <3>1
    <3>3. 2 <= pos[k] /\ pos[k] \in Nat /\ Len(fields[k]) \in Nat
      BY <1>4, <1>5, <1>6 DEF FieldAt
    <3>4. i # pos[k] - 1
      BY <1>6, <3>1
    <3>5. ~(pos[k] < i)
      <4> SUFFICES ASSUME pos[k] < i
                   PROVE  FALSE
        OBVIOUS
      <4>1. i - 1 \in pos[k]..pos[k] + Len(fields[k]) - 1 /\ i # 1
        BY <3>1, <3>2, <3>3
      <4> QED
        BY <1>6, <3>1, <4>1
    <3>6. i = pos[k]
      <4> DEFINE q == pos[k]
      <4>1. i \in Int /\ q \in Int /\ q <= i + 1 /\ i # q - 1 /\ ~(q < i)
        BY <3>1, <3>2, <3>3, <3>4, <3>5
      <4> HIDE DEF q
      <4>2. i = q
        BY <4>1
      <4> QED
        BY <4>2 DEF q
    <3> QED
      BY <3>6
  <2> HIDE DEF starts
  <2> QED
    BY <2>1, <2>2
<1> HIDE DEF starts
<1>8. \A k, l \in 1..n : k < l => pos[k] < pos[l]
  <2> SUFFICES ASSUME NEW k \in 1..n, NEW l \in 1..n, k < l
               PROVE  pos[k] < pos[l]
    OBVIOUS
  <2>1. pos[k] + Len(fields[k]) < pos[l]
    BY <1>4
  <2>2. pos[k] \in Nat /\ pos[l] \in Nat /\ Len(fields[k]) \in Nat
    BY <1>5, <1>6
  <2> QED
    BY <2>1, <2>2
<1>9. \A k \in 0..n : Cardinality({pos[l] : l \in 1..k}) = k
  BY <1>2, <1>4, <1>8, CountUpTo
<1>10. Cardinality(starts) = n
  BY <1>2, <1>7, <1>9
<1>11. ASSUME NEW k \in 1..n
       PROVE  Cardinality({j \in starts : j <= pos[k]}) = k
  <2>1. {j \in starts : j <= pos[k]} = {pos[l] : l \in 1..k}
    <3>1. \A l \in 1..n : pos[l] <= pos[k] <=> l <= k
      <4> SUFFICES ASSUME NEW l \in 1..n
                   PROVE  pos[l] <= pos[k] <=> l <= k
        OBVIOUS
      <4>1. pos[l] \in Nat /\ pos[k] \in Nat /\ l \in Nat /\ k \in Nat
        BY <1>2, <1>6
      <4>2. (l < k => pos[l] < pos[k]) /\ (k < l => pos[k] < pos[l])
        BY <1>8
      <4> QED
        BY <4>1, <4>2
    <3>2. \A l : l \in 1..k <=> l \in 1..n /\ l <= k
      BY <1>2
    <3> QED
      BY <1>7, <3>1, <3>2
  <2>2. k \in 0..n
    BY <1>2
  <2> QED
    BY <1>9, <2>1, <2>2
<1>12. \A k \in 1..n : Start(k) = pos[k]
  <2> SUFFICES ASSUME NEW k \in 1..n
               PROVE  Start(k) = pos[k]
    OBVIOUS
  <2>1. pos[k] \in starts
    BY <1>7
  <2>2. \A i \in starts : Cardinality({j \in starts : j <= i}) = k => i = pos[k]
    BY <1>7, <1>11
  <2> QED
    BY <1>11, <2>1, <2>2
<1> HIDE DEF Start
<1>13. getdata(P) = [k \in 1..n |-> fields[k]]
  BY <1>1, <1>6, <1>10, <1>12
<1>14. fields = [k \in 1..n |-> fields[k]]
  BY <1>2
<1> QED
  BY <1>13, <1>14 DEF P

-----------------------------------------------------------------------------
(* A stream of packages, and a read of it. *)

\* What is sent: a type that is not START and a payload without NUL, not too long.
Msg == {m \in [cType : Byte \ {START}, payload : Seq(Chars)] :
           Len(m.payload) <= MaxBuffer - Overhead}

\* A package at the place a of a stream.
PackageAt(T, a, m) ==
    LET n == Len(m.payload)
    IN  /\ a + n + 6 <= Len(T)
        /\ T[a] = START /\ T[a + 1] = m.cType
        /\ \A i \in 1..4 : T[a + 1 + i] = BigEndian(n)[i]
        /\ \A i \in 1..n : T[a + 5 + i] = m.payload[i]
        /\ T[a + 6 + n] = END

\* A stream of packages: at[i] is where the i-th begins.
Stream(T, at, msgs) ==
    /\ T \in Seq(Byte)
    /\ msgs \in Seq(Msg)
    /\ at \in [1..Len(msgs) + 1 -> Nat]
    /\ at[1] = 1
    /\ at[Len(msgs) + 1] = Len(T) + 1
    /\ \A i \in 1..Len(msgs) :
          /\ PackageAt(T, at[i], msgs[i])
          /\ at[i + 1] = at[i] + Len(msgs[i].payload) + 7
    /\ \A i, j \in 1..Len(msgs) + 1 : i < j => at[i] < at[j]

\* What is sent fits in a package, and has no NUL.
LEMMA MsgFits ==
    ASSUME NEW m \in Msg
    PROVE  /\ Fits(m.cType, m.payload)
           /\ m.payload \in Seq(Chars) /\ Len(m.payload) \in Nat
           /\ m.cType # START
           /\ Len(m.payload) <= MaxBuffer
           /\ \A i \in 1..Len(m.payload) : m.payload[i] # 0
<1>1. m.payload \in Seq(Chars) /\ Len(m.payload) \in Nat
      /\ m.cType \in Byte /\ m.cType # START
      /\ Len(m.payload) <= MaxBuffer - Overhead
  BY DEF Msg
<1>2. \A c \in Chars : c \in Byte /\ c # 0
  BY DEF Chars, Byte
<1>3. m.payload \in Seq(Byte)
  BY <1>1, <1>2, SeqMonotonic
<1>4. \A i \in 1..Len(m.payload) : m.payload[i] # 0
  BY <1>1, <1>2, ElementOfSeq
<1>5. Len(m.payload) <= MaxBuffer
  BY <1>1, Constants DEF Overhead
<1> QED
  BY <1>1, <1>3, <1>4, <1>5 DEF Fits

\* The empty stream, and one package more.
LEMMA StreamEmpty == Stream(<<>>, [i \in 1..1 |-> 1], <<>>)
<1>1. <<>> \in Seq(Byte) /\ <<>> \in Seq(Msg) /\ Len(<<>>) = 0
  OBVIOUS
<1> QED
  BY <1>1 DEF Stream

\* One package more at the end of a stream.
LEMMA StreamMore ==
    ASSUME NEW T, NEW at, NEW msgs, Stream(T, at, msgs), NEW m \in Msg
    PROVE  LET U == T \o build_package(m.cType, m.payload)
               more == [i \in 1..Len(msgs) + 2 |->
                           IF i = Len(msgs) + 2 THEN Len(U) + 1 ELSE at[i]]
           IN  Stream(U, more, Append(msgs, m))
<1> DEFINE pkg == build_package(m.cType, m.payload)
           U == T \o pkg
           k == Len(msgs)
           n == Len(m.payload)
           more == [i \in 1..k + 2 |-> IF i = k + 2 THEN Len(U) + 1 ELSE at[i]]
           msgs2 == Append(msgs, m)
<1>1. /\ T \in Seq(Byte) /\ Len(T) \in Nat /\ msgs \in Seq(Msg) /\ k \in Nat
      /\ at \in [1..k + 1 -> Nat] /\ at[1] = 1 /\ at[k + 1] = Len(T) + 1
      /\ \A i \in 1..k : /\ PackageAt(T, at[i], msgs[i])
                         /\ at[i + 1] = at[i] + Len(msgs[i].payload) + 7
      /\ \A i, j \in 1..k + 1 : i < j => at[i] < at[j]
  BY DEF Stream
<1>2. Fits(m.cType, m.payload) /\ n \in Nat
  BY MsgFits
<1>3. <<>> \in Seq(Byte) /\ Len(<<>>) = 0
  OBVIOUS
<1>4. PackageThen(pkg \o <<>>, m.cType, m.payload, <<>>)
  BY <1>2, <1>3, PackageBytes
<1>5. pkg \o <<>> = pkg /\ pkg \in Seq(Byte)
  <2>1. pkg \in Seq(Byte)
    <3>1. BigEndian(n) \in Seq(Byte)
      BY <1>2, MsgFits, LengthBytes
    <3>2. <<START, m.cType>> \in Seq(Byte) /\ <<END>> \in Seq(Byte)
          /\ m.payload \in Seq(Byte)
      BY <1>2, Constants DEF Fits
    <3> QED
      BY <3>1, <3>2 DEF build_package
  <2> QED
    BY <2>1, ConcatEmptySeq
<1> HIDE DEF pkg
<1>6. /\ Len(pkg) = n + 7
      /\ pkg[1] = START /\ pkg[2] = m.cType
      /\ \A i \in 1..4 : pkg[2 + i] = BigEndian(n)[i]
      /\ \A i \in 1..n : pkg[6 + i] = m.payload[i]
      /\ pkg[n + 7] = END
  <2>1. PackageThen(pkg, m.cType, m.payload, <<>>)
    BY <1>4, <1>5
  <2> HIDE DEF n
  <2> QED
    BY <1>2, <1>3, <2>1 DEF PackageThen, n
<1>7. /\ U \in Seq(Byte) /\ Len(U) = Len(T) + n + 7
      /\ \A i \in 1..Len(T) : U[i] = T[i]
      /\ \A i \in 1..n + 7 : U[Len(T) + i] = pkg[i]
  <2>1. U \in Seq(Byte) /\ Len(U) = Len(T) + Len(pkg)
    BY <1>1, <1>5, Joined
  <2>2. \A i \in 1..Len(T) : U[i] = T[i]
    BY <1>1, <1>5, Joined
  <2>3. \A i \in 1..Len(pkg) : U[Len(T) + i] = pkg[i]
    BY <1>1, <1>5, Joined
  <2> HIDE DEF U
  <2> QED
    BY <1>1, <1>2, <1>6, <2>1, <2>2, <2>3
<1> HIDE DEF U, n
<1>8. PackageAt(U, Len(T) + 1, m)
  <2> DEFINE a == Len(T) + 1
  <2>1. U[a] = START /\ U[a + 1] = m.cType /\ U[a + 6 + n] = END
    <3>1. 1 \in 1..n + 7 /\ 2 \in 1..n + 7 /\ n + 7 \in 1..n + 7
      BY <1>2
    <3>2. a = Len(T) + 1 /\ a + 1 = Len(T) + 2 /\ a + 6 + n = Len(T) + (n + 7)
      BY <1>1, <1>2
    <3> QED
      BY <1>6, <1>7, <3>1, <3>2
  <2>2. \A i \in 1..4 : U[a + 1 + i] = BigEndian(n)[i]
    <3>1. \A i \in 1..4 : 2 + i \in 1..n + 7 /\ a + 1 + i = Len(T) + (2 + i)
      BY <1>1, <1>2
    <3> QED
      BY <1>6, <1>7, <3>1
  <2>3. \A i \in 1..n : U[a + 5 + i] = m.payload[i]
    <3>1. \A i \in 1..n : 6 + i \in 1..n + 7 /\ a + 5 + i = Len(T) + (6 + i)
      BY <1>1, <1>2
    <3> QED
      BY <1>6, <1>7, <3>1
  <2>4. a + n + 6 <= Len(U)
    BY <1>1, <1>2, <1>7
  <2> QED
    BY <2>1, <2>2, <2>3, <2>4 DEF PackageAt, n
<1>9. ASSUME NEW i \in 1..k
      PROVE  PackageAt(U, at[i], msgs[i])
  <2> DEFINE a == at[i]
             q == msgs[i]
             l == Len(q.payload)
  <2>1. PackageAt(T, a, q) /\ a \in Nat /\ 1 <= a
    <3>1. i \in 1..k + 1 /\ 1 \in 1..k + 1 /\ (i = 1 \/ 1 < i)
      BY <1>1
    <3>2. a \in Nat /\ at[1] = 1 /\ (1 < i => at[1] < a)
      BY <1>1, <3>1
    <3> QED
      BY <1>1, <3>1, <3>2
  <2>2. l \in Nat
    <3>1. q \in Msg
      BY <1>1, ElementOfSeq
    <3> QED
      BY <3>1, MsgFits
  <2> HIDE DEF a, q
  <2>3. /\ a + l + 6 <= Len(T)
        /\ T[a] = START /\ T[a + 1] = q.cType
        /\ \A j \in 1..4 : T[a + 1 + j] = BigEndian(l)[j]
        /\ \A j \in 1..l : T[a + 5 + j] = q.payload[j]
        /\ T[a + 6 + l] = END
    BY <2>1 DEF PackageAt
  <2> HIDE DEF l
  <2>4. \A j \in 0..l + 6 : a + j \in 1..Len(T)
    <3> DEFINE t == Len(T)
    <3>1. t \in Nat /\ a \in Nat /\ 1 <= a /\ l \in Nat /\ a + l + 6 <= t
      BY <1>1, <2>1, <2>2, <2>3
    <3> HIDE DEF t
    <3>2. \A j \in 0..l + 6 : a + j \in 1..t
      BY <3>1
    <3> QED
      BY <3>2 DEF t
  <2>5. \A j \in 0..l + 6 : U[a + j] = T[a + j]
    BY <1>7, <2>4
  <2>6. U[a] = T[a] /\ U[a + 1] = T[a + 1] /\ U[a + 6 + l] = T[a + 6 + l]
    <3>1. 0 \in 0..l + 6 /\ 1 \in 0..l + 6 /\ 6 + l \in 0..l + 6
      BY <2>2
    <3>2. a + 0 = a /\ a + (6 + l) = a + 6 + l
      BY <2>1, <2>2
    <3> QED
      BY <2>5, <3>1, <3>2
  <2>7. \A j \in 1..4 : U[a + 1 + j] = T[a + 1 + j]
    <3>1. \A j \in 1..4 : 1 + j \in 0..l + 6 /\ a + 1 + j = a + (1 + j)
      BY <2>1, <2>2
    <3> QED
      BY <2>5, <3>1
  <2>8. \A j \in 1..l : U[a + 5 + j] = T[a + 5 + j]
    <3>1. \A j \in 1..l : 5 + j \in 0..l + 6 /\ a + 5 + j = a + (5 + j)
      BY <2>1, <2>2
    <3> QED
      BY <2>5, <3>1
  <2>9. a + l + 6 <= Len(U)
    BY <1>1, <1>2, <1>7, <2>1, <2>2, <2>3
  <2> QED
    BY <2>3, <2>6, <2>7, <2>8, <2>9 DEF PackageAt, l, a, q
<1>10. /\ msgs2 \in Seq(Msg) /\ Len(msgs2) = k + 1
       /\ \A i \in 1..k : msgs2[i] = msgs[i]
       /\ msgs2[k + 1] = m
  BY <1>1, AppendProperties
<1>11. /\ more \in [1..k + 2 -> Nat]
       /\ \A i \in 1..k + 1 : more[i] = at[i]
       /\ more[k + 2] = Len(U) + 1
  BY <1>1, <1>7
<1> HIDE DEF more, msgs2, k
<1>12. ASSUME NEW i \in 1..k + 1
       PROVE  /\ PackageAt(U, more[i], msgs2[i])
              /\ more[i + 1] = more[i] + Len(msgs2[i].payload) + 7
  <2>1. CASE i = k + 1
    <3>1. more[i] = Len(T) + 1 /\ msgs2[i] = m /\ i + 1 = k + 2
      BY <1>1, <1>10, <1>11, <2>1
    <3>2. more[i + 1] = more[i] + n + 7
      BY <1>1, <1>2, <1>7, <1>11, <3>1
    <3> QED
      BY <1>8, <3>1, <3>2 DEF n
  <2>2. CASE i # k + 1
    <3>1. i \in 1..k /\ i + 1 \in 1..k + 1
      BY <1>1, <2>2
    <3> QED
      BY <1>1, <1>9, <1>10, <1>11, <3>1
  <2> QED
    BY <2>1, <2>2
<1>13. ASSUME NEW i \in 1..k + 2, NEW j \in 1..k + 2, i < j
       PROVE  more[i] < more[j]
  <2>1. i \in 1..k + 1
    BY <1>1, <1>13
  <2>2. CASE j = k + 2
    <3>1. more[i] <= Len(T) + 1
      <4>1. k + 1 \in 1..k + 1 /\ (i = k + 1 \/ i < k + 1)
        BY <1>1, <2>1
      <4> QED
        BY <1>1, <1>11, <2>1, <4>1
    <3>2. more[i] \in Nat
      BY <1>11
    <3> QED
      BY <1>1, <1>2, <1>7, <1>11, <2>2, <3>1, <3>2
  <2>3. CASE j # k + 2
    <3>1. j \in 1..k + 1
      BY <1>1, <2>3
    <3> QED
      BY <1>1, <1>11, <1>13, <2>1, <3>1
  <2> QED
    BY <2>2, <2>3
<1>14. more[1] = 1
  <2>1. 1 \in 1..k + 1
    BY <1>1
  <2> QED
    BY <1>1, <1>11, <2>1
<1>15. k + 1 + 1 = k + 2
  BY <1>1
<1>16. Stream(U, more, msgs2)
  BY <1>7, <1>10, <1>11, <1>12, <1>13, <1>14, <1>15 DEF Stream
<1> QED
  BY <1>16 DEF U, pkg, more, msgs2, k

\* A read of a stream: the n bytes after the first r.
Window(data, T, r) ==
    /\ data \in Seq(Byte)
    /\ r \in Nat
    /\ r + Len(data) <= Len(T)
    /\ \A i \in 1..Len(data) : data[i] = T[r + i]

\* Every byte of a stream belongs to a package of it.
LEMMA InPackage ==
    ASSUME NEW T, NEW at, NEW msgs, Stream(T, at, msgs), NEW q \in 1..Len(T)
    PROVE  \E i \in 1..Len(msgs) : at[i] <= q /\ q < at[i + 1]
<1> DEFINE k == Len(msgs)
           Above == {i \in 1..k + 1 : q < at[i]}
<1>1. /\ Len(T) \in Nat /\ k \in Nat /\ at \in [1..k + 1 -> Nat]
      /\ at[1] = 1 /\ at[k + 1] = Len(T) + 1
  BY DEF Stream
<1>2. k + 1 \in Above
  BY <1>1
<1>3. PICK j \in Above : \A l \in Above : j <= l
  <2>1. Above \in SUBSET Nat /\ Above # {}
    BY <1>1, <1>2
  <2> HIDE DEF Above
  <2> QED
    BY <2>1, LeastNat
<1>4. j # 1
  BY <1>1
<1>5. j \in 1..k + 1 /\ q < at[j]
  BY <1>3
<1>6. j - 1 \in 1..k /\ j - 1 \in 1..k + 1 /\ j - 1 + 1 = j /\ ~(j <= j - 1)
  BY <1>1, <1>4, <1>5
<1>7. ~(q < at[j - 1])
  BY <1>3, <1>6
<1> HIDE DEF Above
<1>8. at[j - 1] \in Nat /\ q \in Nat
  BY <1>1, <1>6
<1>9. at[j - 1] <= q
  BY <1>7, <1>8
<1> QED
  BY <1>5, <1>6, <1>9

\* The length in a package is that of its payload.
LEMMA LengthInPackage ==
    ASSUME NEW T \in Seq(Byte), NEW a \in Nat, NEW m \in Msg, PackageAt(T, a, m)
    PROVE  LengthAt(T, a + 2) = Len(m.payload)
<1> DEFINE n == Len(m.payload)
           big == BigEndian(n)
<1>1. n \in Nat /\ n <= MaxBuffer
  BY MsgFits
<1>2. /\ big[1] = 0 /\ big[2] = 0 /\ n = 256 * big[3] + big[4]
      /\ big[3] \in Byte /\ big[4] \in Byte
  BY <1>1, LengthBytes
<1>3. \A i \in 1..4 : T[a + 1 + i] = big[i]
  BY DEF PackageAt
<1> HIDE DEF big, n
<1>4. T[a + 2] = big[1] /\ T[a + 2 + 1] = big[2] /\ T[a + 2 + 2] = big[3]
      /\ T[a + 2 + 3] = big[4]
  BY <1>3
<1>5. Number(0, 0, big[3], big[4]) = n
  BY <1>2, Numbers
<1> QED
  BY <1>2, <1>4, <1>5 DEF LengthAt, n

\* A START inside a package is followed by something that is no length.
LEMMA FalseStartInPackage ==
    ASSUME NEW T, NEW at, NEW msgs, Stream(T, at, msgs), NEW i \in 1..Len(msgs),
           NEW q \in Nat, at[i] < q, q < at[i + 1], q + 5 <= Len(T), T[q] = START
    PROVE  LengthAt(T, q + 2) > MaxBuffer
<1> DEFINE a == at[i]
           m == msgs[i]
           n == Len(m.payload)
           o == q - a
           k == Len(msgs)
<1>1. /\ T \in Seq(Byte) /\ Len(T) \in Nat /\ k \in Nat
      /\ msgs \in Seq(Msg)
      /\ at \in [1..k + 1 -> Nat] /\ at[k + 1] = Len(T) + 1
      /\ PackageAt(T, a, m) /\ at[i + 1] = a + n + 7
  BY DEF Stream
<1>2. m \in Msg /\ i \in 1..k + 1
  BY <1>1, ElementOfSeq
<1>3. a \in Nat
  BY <1>1, <1>2
<1>4. /\ n \in Nat /\ n <= MaxBuffer /\ m.cType # START
      /\ \A j \in 1..n : m.payload[j] # 0
  BY <1>2, MsgFits
<1>5. /\ T[a + 1] = m.cType
      /\ \A j \in 1..4 : T[a + 1 + j] = BigEndian(n)[j]
      /\ \A j \in 1..n : T[a + 5 + j] = m.payload[j]
      /\ T[a + 6 + n] = END
  BY <1>1 DEF PackageAt
<1>6. BigEndian(n)[1] = 0 /\ BigEndian(n)[2] = 0 /\ BigEndian(n)[3] # START
  BY <1>4, LengthBytes
<1> HIDE DEF n, m
<1>7. T[a + 2] = 0 /\ T[a + 3] = 0 /\ T[a + 4] # START
  <2> DEFINE big == BigEndian(n)
  <2>3. big[1] = 0 /\ big[2] = 0 /\ big[3] # START
    BY <1>6
  <2>4. \A j \in 1..4 : T[a + 1 + j] = big[j]
    BY <1>5
  <2> HIDE DEF big, a
  <2>1. T[a + 1 + 1] = 0 /\ T[a + 1 + 2] = 0 /\ T[a + 1 + 3] # START
    BY <2>3, <2>4
  <2>2. a + 1 + 1 = a + 2 /\ a + 1 + 2 = a + 3 /\ a + 1 + 3 = a + 4
    BY <1>3
  <2> QED
    BY <2>1, <2>2
<1>8. a + o = q /\ o \in Nat /\ 1 <= o /\ o < n + 7
  <2>1. a < q /\ q < a + n + 7
    BY <1>1
  <2> HIDE DEF a
  <2> QED
    BY <1>3, <1>4, <2>1
<1> HIDE DEF o, a
<1>9. o # 1 /\ o # 2 /\ o # 3 /\ o # 4 /\ o # n + 6
  <2>1. a + (6 + n) = a + 6 + n
    BY <1>3, <1>4
  <2>2. o = n + 6 => a + o = a + 6 + n
    BY <1>3, <1>4
  <2>3. T[a + o] = START
    BY <1>8
  <2>4. START # 0 /\ END # START
    BY Constants
  <2>5. o # 1 /\ o # 2 /\ o # 3 /\ o # 4
    BY Zenon, <1>4, <1>5, <1>7, <2>3, <2>4
  <2>6. o # n + 6
    BY Zenon, <1>5, <2>2, <2>3, <2>4
  <2> QED
    BY <2>5, <2>6
<1>10. 5 <= o /\ o <= n + 5
  BY <1>4, <1>8, <1>9
<1>11. T[q + 2] # 0
  <2>1. CASE o + 2 <= n + 5
    <3> DEFINE j == o - 3
    <3>1. j \in 1..n /\ a + 5 + j = q + 2
      BY <1>3, <1>4, <1>8, <1>10, <2>1
    <3> HIDE DEF j
    <3>2. T[a + 5 + j] # 0
      BY <1>4, <1>5, <3>1
    <3> QED
      BY <3>1, <3>2
  <2>2. CASE o + 2 = n + 6
    <3>1. q + 2 = a + 6 + n
      BY <1>3, <1>4, <1>8, <2>2
    <3> QED
      BY <1>5, <3>1, Constants
  <2>3. CASE o + 2 = n + 7
    <3>1. q + 2 = at[i + 1]
      BY <1>1, <1>3, <1>4, <1>8, <2>3
    <3>2. i # k
      <4>1. i = k => q + 2 = Len(T) + 1
        BY <1>1, <3>1
      <4> QED
        BY <1>1, <4>1
    <3>3. i + 1 \in 1..k
      BY <1>1, <3>2
    <3>4. PackageAt(T, at[i + 1], msgs[i + 1])
      BY <3>3 DEF Stream
    <3>5. T[at[i + 1]] = START
      BY <3>4 DEF PackageAt
    <3> QED
      BY <3>1, <3>5, Constants
  <2> QED
    BY <1>4, <1>8, <1>10, <2>1, <2>2, <2>3
<1>12. /\ T[q + 2] \in Byte /\ T[q + 2 + 1] \in Byte
       /\ T[q + 2 + 2] \in Byte /\ T[q + 2 + 3] \in Byte
  <2>1. q + 2 \in 1..Len(T) /\ q + 2 + 1 \in 1..Len(T) /\ q + 2 + 2 \in 1..Len(T)
        /\ q + 2 + 3 \in 1..Len(T)
    BY <1>1
  <2> QED
    BY <1>1, <2>1, ElementOfSeq
<1> QED
  BY <1>11, <1>12, Numbers DEF LengthAt

\* Where a read has a START with a length that the decoders accept, a package of
\* the stream begins, and its length is the one they see.
LEMMA OnlyPackages ==
    ASSUME NEW T, NEW at, NEW msgs, Stream(T, at, msgs),
           NEW data, NEW r, Window(data, T, r),
           NEW p \in StartAt(data), LengthAt(data, p + 2) <= MaxBuffer
    PROVE  \E i \in 1..Len(msgs) :
              /\ at[i] = r + p
              /\ LengthAt(data, p + 2) = Len(msgs[i].payload)
<1> DEFINE q == r + p
           n == Len(data)
<1>1. /\ data \in Seq(Byte) /\ r \in Nat /\ n \in Nat /\ r + n <= Len(T)
      /\ \A i \in 1..n : data[i] = T[r + i]
  BY DEF Window
<1>2. p \in Nat /\ 1 <= p /\ p + 6 <= n /\ data[p] = START
  BY <1>1, StartFound
<1>3. T \in Seq(Byte) /\ Len(T) \in Nat
  BY DEF Stream
<1>4. q \in Nat /\ q \in 1..Len(T) /\ q + 5 <= Len(T)
  BY <1>1, <1>2, <1>3
<1>5. T[q] = START
  <2>1. p \in 1..n
    BY <1>1, <1>2
  <2> QED
    BY <1>1, <1>2, <2>1
<1>6. LengthAt(data, p + 2) = LengthAt(T, q + 2)
  <2>1. \A j \in 2..5 : p + j \in 1..n /\ r + (p + j) = q + j
    BY <1>1, <1>2
  <2>2. \A j \in 2..5 : data[p + j] = T[q + j]
    BY <1>1, <2>1
  <2>3. 2 \in 2..5 /\ 3 \in 2..5 /\ 4 \in 2..5 /\ 5 \in 2..5
    OBVIOUS
  <2>4. /\ data[p + 2] = T[q + 2] /\ data[p + 3] = T[q + 3]
        /\ data[p + 4] = T[q + 4] /\ data[p + 5] = T[q + 5]
    BY <2>2, <2>3
  <2>5. p + 2 + 1 = p + 3 /\ p + 2 + 2 = p + 4 /\ p + 2 + 3 = p + 5
    BY <1>2
  <2> HIDE DEF q
  <2>6. q + 2 + 1 = q + 3 /\ q + 2 + 2 = q + 4 /\ q + 2 + 3 = q + 5
    BY <1>4
  <2> QED
    BY <2>4, <2>5, <2>6 DEF LengthAt
<1>7. PICK i \in 1..Len(msgs) : at[i] <= q /\ q < at[i + 1]
  BY <1>4, InPackage
<1>8. at[i] \in Nat /\ msgs[i] \in Msg /\ PackageAt(T, at[i], msgs[i])
  <2>1. msgs \in Seq(Msg) /\ Len(msgs) \in Nat /\ at \in [1..Len(msgs) + 1 -> Nat]
    BY DEF Stream
  <2>2. i \in 1..Len(msgs) + 1
    BY <2>1
  <2> QED
    BY <2>1, <2>2, ElementOfSeq DEF Stream
<1> HIDE DEF q
<1>9. ~(at[i] < q)
  <2> SUFFICES ASSUME at[i] < q
               PROVE  FALSE
    OBVIOUS
  <2>1. LengthAt(T, q + 2) > MaxBuffer
    BY <1>4, <1>5, <1>7, FalseStartInPackage
  <2>2. LengthAt(data, p + 2) \in Nat
    BY <1>1, LengthFound
  <2> QED
    BY <1>6, <2>1, <2>2, Constants
<1>10. at[i] = q
  BY <1>4, <1>7, <1>8, <1>9
<1>11. LengthAt(T, q + 2) = Len(msgs[i].payload)
  BY <1>3, <1>8, <1>10, LengthInPackage
<1> QED
  BY <1>6, <1>10, <1>11 DEF q

-----------------------------------------------------------------------------
(* What a read makes of a stream. *)

\* What is left of a string when its first n elements are taken.
LEMMA CutElements ==
    ASSUME NEW S, NEW s \in Seq(S), NEW n \in 0..Len(s)
    PROVE  /\ Cut(s, n) \in Seq(S)
           /\ Len(Cut(s, n)) = Len(s) - n
           /\ \A i \in 1..Len(s) - n : Cut(s, n)[i] = s[n + i]
<1> DEFINE l == Len(s)
<1>1. l \in Nat /\ n \in Nat /\ n <= l
  OBVIOUS
<1>2. \A i \in n + 1..l : i \in 1..l
  BY <1>1
<1>3. \A i \in n + 1..l : s[i] \in S
  BY <1>2, ElementOfSeq
<1>4. n + 1 \in Int /\ l \in Int
  BY <1>1
<1> HIDE DEF l
<1>5. /\ SubSeq(s, n + 1, l) \in Seq(S)
      /\ Len(SubSeq(s, n + 1, l)) = IF n + 1 <= l THEN l - (n + 1) + 1 ELSE 0
      /\ \A i \in 1..l - (n + 1) + 1 : SubSeq(s, n + 1, l)[i] = s[n + 1 + i - 1]
  BY <1>3, <1>4, SubSeqProperties
<1> DEFINE t == SubSeq(s, n + 1, l)
<1> HIDE DEF t
<1>6. /\ t \in Seq(S)
      /\ Len(t) = IF n + 1 <= l THEN l - (n + 1) + 1 ELSE 0
      /\ \A i \in 1..l - (n + 1) + 1 : t[i] = s[n + 1 + i - 1]
  BY <1>5 DEF t
<1>7. Len(t) = l - n
  BY <1>1, <1>6
<1>8. \A i \in 1..l - n : i \in 1..l - (n + 1) + 1 /\ n + 1 + i - 1 = n + i
  BY <1>1
<1>9. t = Cut(s, n)
  BY DEF t, l, Cut
<1> QED
  BY <1>6, <1>7, <1>8, <1>9 DEF l

\* EpollWorker.cpp, parse_sockpackage, on any read of a stream of packages, cut
\* anywhere: what it finds is one package of the stream, all of it in the read.
THEOREM ParsedIsPackage ==
    ASSUME NEW T, NEW at, NEW msgs, Stream(T, at, msgs),
           NEW data, NEW r, Window(data, T, r),
           NEW pkg \in parse_sockpackage(data)
    PROVE  /\ parse_sockpackage(data) = {pkg}
           /\ \E i \in 1..Len(msgs) :
                 /\ pkg = msgs[i]
                 /\ r < at[i] /\ at[i + 1] <= r + Len(data) + 1
<1> DEFINE n == Len(data)
           Good(q) == /\ LengthAt(data, q + 2) <= MaxBuffer
                      /\ q + 6 + LengthAt(data, q + 2) <= Len(data)
                      /\ data[q + 6 + LengthAt(data, q + 2)] = END
           Pkg(q) == [cType |-> data[q + 1],
                      payload |-> SubSeq(data, q + 6, q + 5 + LengthAt(data, q + 2))]
<1>1. parse_sockpackage(data) = {Pkg(q) : q \in {o \in StartAt(data) : Good(o)}}
  BY DEF parse_sockpackage
<1>2. PICK p \in StartAt(data) : Good(p) /\ pkg = Pkg(p)
  <2> HIDE DEF Good, Pkg
  <2> QED
    BY <1>1
<1>3. /\ data \in Seq(Byte) /\ r \in Nat /\ n \in Nat /\ r + n <= Len(T)
      /\ \A i \in 1..n : data[i] = T[r + i]
  BY DEF Window
<1>4. /\ p \in Nat /\ 1 <= p /\ p + 6 <= n /\ data[p] = START
      /\ StartAt(data) = {p}
  BY <1>3, StartFound
<1>5. parse_sockpackage(data) = {pkg}
  <2> HIDE DEF Good, Pkg
  <2> QED
    BY <1>1, <1>2, <1>4
<1>6. PICK i \in 1..Len(msgs) : /\ at[i] = r + p
                                /\ LengthAt(data, p + 2) = Len(msgs[i].payload)
  BY <1>2, OnlyPackages
<1> DEFINE m == msgs[i]
           l == Len(m.payload)
<1>7. /\ m \in Msg /\ PackageAt(T, at[i], m) /\ at[i + 1] = at[i] + l + 7
      /\ T \in Seq(Byte) /\ Len(T) \in Nat
  <2>1. msgs \in Seq(Msg)
    BY DEF Stream
  <2>2. m \in Msg
    BY <2>1, ElementOfSeq
  <2> QED
    BY <2>2 DEF Stream
<1>8. l \in Nat /\ m.payload \in Seq(Chars)
  BY <1>7, MsgFits
<1>9. /\ T[r + p + 1] = m.cType
      /\ \A j \in 1..l : T[r + p + 5 + j] = m.payload[j]
  BY <1>6, <1>7 DEF PackageAt
<1>10. p + 6 + l <= n
  BY <1>2, <1>6
<1> HIDE DEF l
<1>11. data[p + 1] = m.cType
  <2>1. p + 1 \in 1..n /\ r + (p + 1) = r + p + 1
    BY <1>3, <1>4
  <2> QED
    BY <1>3, <1>9, <2>1
<1>12. SubSeq(data, p + 6, p + 5 + l) = m.payload
  <2> DEFINE first == p + 6
             last == p + 5 + l
             sub == SubSeq(data, first, last)
  <2>1. \A j \in first..last : data[j] \in Byte
    <3>1. \A j \in first..last : j \in 1..n
      BY <1>3, <1>4, <1>8, <1>10
    <3> QED
      BY <1>3, <3>1, ElementOfSeq
  <2>2. first \in Int /\ last \in Int /\ last - first + 1 = l
    BY <1>4, <1>8
  <2>3. ASSUME NEW j \in 1..l
        PROVE  data[first + j - 1] = m.payload[j]
    <3>1. p + 5 + j \in 1..n /\ first + j - 1 = p + 5 + j
          /\ r + (p + 5 + j) = r + p + 5 + j
      BY <1>3, <1>4, <1>8, <1>10
    <3>2. data[p + 5 + j] = T[r + (p + 5 + j)]
      BY <1>3, <3>1
    <3>3. T[r + p + 5 + j] = m.payload[j]
      BY <1>9
    <3> QED
      BY <3>1, <3>2, <3>3
  <2> HIDE DEF first, last
  <2>4. /\ sub \in Seq(Byte)
        /\ Len(sub) = IF first <= last THEN last - first + 1 ELSE 0
        /\ \A j \in 1..last - first + 1 : sub[j] = data[first + j - 1]
    BY <2>1, <2>2, SubSeqProperties
  <2> HIDE DEF sub
  <2>5. Len(sub) = l
    BY <1>8, <2>2, <2>4
  <2>6. \A j \in 1..l : sub[j] = m.payload[j]
    BY <2>2, <2>3, <2>4
  <2>7. sub = m.payload
    BY <1>8, <2>4, <2>5, <2>6, SeqEqual DEF l
  <2> QED
    BY <2>7 DEF sub, first, last
<1>13. pkg = [cType |-> m.cType, payload |-> m.payload]
  BY <1>2, <1>6, <1>11, <1>12 DEF l
<1>14. pkg = m
  BY <1>7, <1>13 DEF Msg
<1>15. r < at[i] /\ at[i + 1] <= r + n + 1
  BY <1>3, <1>4, <1>6, <1>7, <1>8, <1>10
<1> QED
  BY <1>5, <1>14, <1>15

\* TCPClient.cpp, get_start_payload, the same: where it finds a payload in a read
\* of a stream of packages, one begins, and its package was in the read.
THEOREM FoundIsPackage ==
    ASSUME NEW T, NEW at, NEW msgs, Stream(T, at, msgs),
           NEW data, NEW r, Window(data, T, r),
           NEW pos \in get_start_payload(data)
    PROVE  /\ get_start_payload(data) = {pos}
           /\ \E i \in 1..Len(msgs) :
                 /\ r < at[i] /\ at[i + 1] <= r + Len(data) + 1
                 /\ r + pos = at[i] + 6
<1> DEFINE n == Len(data)
           Good(q) == /\ LengthAt(data, q + 2) <= MaxBuffer
                      /\ ~(q + 5 + LengthAt(data, q + 2) + 1 > Len(data)
                             \/ data[q + 5 + LengthAt(data, q + 2) + 1] # END)
<1>1. get_start_payload(data) = {q + 6 : q \in {o \in StartAt(data) : Good(o)}}
  BY DEF get_start_payload
<1>2. PICK p \in StartAt(data) : Good(p) /\ pos = p + 6
  <2> HIDE DEF Good
  <2> QED
    BY <1>1
<1>3. data \in Seq(Byte) /\ r \in Nat /\ n \in Nat
  BY DEF Window
<1>4. p \in Nat /\ 1 <= p /\ StartAt(data) = {p}
  BY <1>3, StartFound
<1>5. get_start_payload(data) = {pos}
  <2> HIDE DEF Good
  <2> QED
    BY <1>1, <1>2, <1>4
<1>6. PICK i \in 1..Len(msgs) : /\ at[i] = r + p
                                /\ LengthAt(data, p + 2) = Len(msgs[i].payload)
  BY <1>2, OnlyPackages
<1> DEFINE l == Len(msgs[i].payload)
<1>7. at[i + 1] = at[i] + l + 7 /\ l \in Nat
  <2>1. msgs \in Seq(Msg)
    BY DEF Stream
  <2>2. msgs[i] \in Msg
    BY <2>1, ElementOfSeq
  <2> QED
    BY <2>2, MsgFits DEF Stream
<1>8. ~(p + 5 + l + 1 > n)
  BY <1>2, <1>6
<1> HIDE DEF l
<1>9. r < at[i] /\ at[i + 1] <= r + n + 1 /\ r + pos = at[i] + 6
  BY <1>2, <1>3, <1>4, <1>6, <1>7, <1>8
<1> QED
  BY <1>5, <1>9

\* A C string that begins with bytes other than NUL has them all.
LEMMA CStringBegins ==
    ASSUME NEW s \in Seq(Byte), NEW n \in 1..Len(s), \A i \in 1..n : s[i] # 0
    PROVE  \E last \in n..Len(s) :
              /\ CString(s) = SubSeq(s, 1, last)
              /\ \A i \in 1..last : s[i] # 0
              /\ last = Len(s) \/ s[last + 1] = 0
<1> DEFINE l == Len(s)
           Ends(e) == /\ \A i \in 1..e : s[i] # 0
                      /\ e = l \/ s[e + 1] = 0
           Stops == {e \in n..l : e = l \/ s[e + 1] = 0}
<1>1. l \in Nat /\ n \in Nat /\ 1 <= n /\ n <= l
  OBVIOUS
<1>2. Stops \in SUBSET Nat /\ l \in Stops
  BY <1>1
<1>3. PICK e \in Stops : \A k \in Stops : e <= k
  <2> HIDE DEF Stops
  <2> QED
    BY <1>2, LeastNat
<1>4. e \in n..l /\ e \in Nat
  BY <1>1
<1>5. ASSUME NEW i \in 1..e
      PROVE  s[i] # 0
  <2>1. CASE i <= n
    BY <1>1, <2>1
  <2>2. CASE n < i
    <3>1. i - 1 \in n..l /\ i - 1 + 1 = i /\ i - 1 # l /\ ~(e <= i - 1)
      BY <1>1, <1>4, <2>2
    <3>2. i - 1 \notin Stops
      BY <1>3, <3>1
    <3> QED
      BY <3>1, <3>2
  <2> QED
    BY <1>1, <1>4, <2>1, <2>2
<1>6. Ends(e) /\ e \in 0..l
  <2>1. e = l \/ s[e + 1] = 0
    OBVIOUS
  <2>2. e \in 0..l
    BY <1>1, <1>4
  <2> QED
    BY <1>5, <2>1, <2>2
<1>7. ASSUME NEW d \in 0..l, Ends(d)
      PROVE  d = e
  <2>1. ~(d < e)
    <3> SUFFICES ASSUME d < e
                 PROVE  FALSE
      OBVIOUS
    <3>1. d # l /\ d + 1 \in 1..e
      BY <1>1, <1>4
    <3> QED
      BY <1>5, <1>7, <3>1
  <2>2. ~(e < d)
    <3> SUFFICES ASSUME e < d
                 PROVE  FALSE
      OBVIOUS
    <3>1. e # l /\ e + 1 \in 1..d
      BY <1>1, <1>4
    <3> QED
      BY <1>6, <1>7, <3>1
  <2> HIDE DEF Ends, Stops
  <2> QED
    BY <1>1, <1>4, <2>1, <2>2
<1>8. CString(s) = SubSeq(s, 1, CHOOSE d \in 0..l : Ends(d))
  BY DEF CString
<1> HIDE DEF Ends, Stops
<1>9. (CHOOSE d \in 0..l : Ends(d)) = e
  BY <1>6, <1>7
<1> QED
  BY <1>4, <1>6, <1>8, <1>9 DEF Ends

-----------------------------------------------------------------------------
(* What has been read of a stream, and what is on its way. *)

\* The packages msgs have been written to a stream T, of which r bytes have been
\* read and rest is still to be; f says which package each of got was made of,
\* in the order they came in, by reads of the whole package.
Received(T, at, msgs, rest0, r, f, got) ==
    /\ Stream(T, at, msgs)
    /\ rest0 \in Seq(Byte)
    /\ r \in Nat
    /\ r + Len(rest0) = Len(T)
    /\ \A i \in 1..Len(rest0) : rest0[i] = T[r + i]
    /\ f \in [DOMAIN got -> 1..Len(msgs)]
    /\ \A i, j \in DOMAIN got : i < j => f[i] < f[j]
    /\ \A i \in DOMAIN got : at[f[i] + 1] <= r + 1

\* The bytes of a package, by their number.
LEMMA PackageIsBytes ==
    ASSUME NEW m \in Msg
    PROVE  /\ build_package(m.cType, m.payload) \in Seq(Byte)
           /\ Len(build_package(m.cType, m.payload)) = Len(m.payload) + 7
<1> DEFINE pkg == build_package(m.cType, m.payload)
<1>1. Fits(m.cType, m.payload) /\ Len(m.payload) \in Nat /\ Len(m.payload) <= MaxBuffer
  BY MsgFits
<1>2. BigEndian(Len(m.payload)) \in Seq(Byte)
  BY <1>1, LengthBytes
<1>3. <<START, m.cType>> \in Seq(Byte) /\ <<END>> \in Seq(Byte)
      /\ m.payload \in Seq(Byte)
  BY <1>1, Constants DEF Fits
<1>4. pkg \in Seq(Byte)
  BY <1>2, <1>3 DEF build_package
<1>5. PackageThen(pkg \o <<>>, m.cType, m.payload, <<>>)
  <2>1. <<>> \in Seq(Byte)
    OBVIOUS
  <2> QED
    BY <1>1, <2>1, PackageBytes
<1>6. pkg \o <<>> = pkg
  BY <1>4, ConcatEmptySeq
<1>7. Len(<<>>) = 0
  OBVIOUS
<1> HIDE DEF pkg
<1>8. Len(pkg) = Len(m.payload) + 7 + 0
  BY <1>5, <1>6, <1>7 DEF PackageThen
<1> QED
  BY <1>1, <1>4, <1>8 DEF pkg

\* A package is written behind those on their way.
LEMMA ReceivedMore ==
    ASSUME NEW T, NEW at, NEW msgs, NEW rest0, NEW r, NEW f, NEW got,
           Received(T, at, msgs, rest0, r, f, got), NEW m \in Msg
    PROVE  \E U, more : Received(U, more, Append(msgs, m),
                            rest0 \o build_package(m.cType, m.payload), r, f, got)
<1> DEFINE pkg == build_package(m.cType, m.payload)
           U == T \o pkg
           k == Len(msgs)
           more == [i \in 1..k + 2 |-> IF i = k + 2 THEN Len(U) + 1 ELSE at[i]]
           next == rest0 \o pkg
           msgs2 == Append(msgs, m)
<1>1. /\ Stream(T, at, msgs) /\ T \in Seq(Byte) /\ Len(T) \in Nat
      /\ msgs \in Seq(Msg) /\ k \in Nat
      /\ rest0 \in Seq(Byte) /\ Len(rest0) \in Nat
      /\ r \in Nat /\ r + Len(rest0) = Len(T)
      /\ \A i \in 1..Len(rest0) : rest0[i] = T[r + i]
      /\ f \in [DOMAIN got -> 1..k]
      /\ \A i, j \in DOMAIN got : i < j => f[i] < f[j]
      /\ \A i \in DOMAIN got : at[f[i] + 1] <= r + 1
  BY DEF Received, Stream
<1>2. Stream(U, more, msgs2)
  BY <1>1, StreamMore
<1>3. pkg \in Seq(Byte) /\ Len(pkg) \in Nat
  BY PackageIsBytes
<1> HIDE DEF pkg
<1>4. /\ next \in Seq(Byte) /\ Len(next) = Len(rest0) + Len(pkg)
      /\ \A i \in 1..Len(rest0) : next[i] = rest0[i]
      /\ \A i \in 1..Len(pkg) : next[Len(rest0) + i] = pkg[i]
  BY <1>1, <1>3, Joined
<1>5. /\ Len(U) = Len(T) + Len(pkg)
      /\ \A i \in 1..Len(T) : U[i] = T[i]
      /\ \A i \in 1..Len(pkg) : U[Len(T) + i] = pkg[i]
  BY <1>1, <1>3, Joined
<1>6. \A i \in 1..k + 1 : more[i] = at[i]
  BY <1>1
<1>7. Len(msgs2) = k + 1
  BY <1>1, AppendProperties
<1> HIDE DEF U, next, more, msgs2, k
<1>8. r + Len(next) = Len(U)
  <2> DEFINE d == Len(rest0)
             e == Len(pkg)
  <2>1. /\ d \in Nat /\ e \in Nat /\ r \in Nat /\ r + d = Len(T)
        /\ Len(next) = d + e /\ Len(U) = Len(T) + e
    BY <1>1, <1>3, <1>4, <1>5
  <2> HIDE DEF d, e
  <2> QED
    BY <2>1
<1>9. ASSUME NEW i \in 1..Len(next)
      PROVE  next[i] = U[r + i]
  <2>1. CASE i <= Len(rest0)
    <3>1. i \in 1..Len(rest0) /\ r + i \in 1..Len(T)
      BY <1>1, <2>1
    <3> QED
      BY <1>1, <1>4, <1>5, <3>1
  <2>2. CASE i > Len(rest0)
    <3> DEFINE j == i - Len(rest0)
    <3>1. j \in 1..Len(pkg) /\ Len(rest0) + j = i /\ Len(T) + j = r + i
      <4> DEFINE d == Len(rest0)
                 e == Len(pkg)
      <4>1. /\ d \in Nat /\ e \in Nat /\ r \in Nat /\ r + d = Len(T)
            /\ i \in 1..d + e /\ i > d
        BY <1>1, <1>3, <1>4, <2>2
      <4> HIDE DEF d, e
      <4>2. i - d \in 1..e /\ d + (i - d) = i /\ Len(T) + (i - d) = r + i
        BY <4>1
      <4> QED
        BY <4>2 DEF d, e
    <3> HIDE DEF j
    <3>2. next[Len(rest0) + j] = pkg[j] /\ U[Len(T) + j] = pkg[j]
      BY <1>4, <1>5, <3>1
    <3> QED
      BY <3>1, <3>2
  <2>3. i \in Nat /\ Len(rest0) \in Nat
    BY <1>1
  <2>4. i <= Len(rest0) \/ i > Len(rest0)
    BY <2>3
  <2> QED
    BY <2>1, <2>2, <2>4
<1>10. f \in [DOMAIN got -> 1..k + 1]
  <2>1. 1..k \subseteq 1..k + 1
    BY <1>1
  <2> QED
    BY <1>1, <2>1
<1>11. ASSUME NEW i \in DOMAIN got
       PROVE  more[f[i] + 1] <= r + 1
  <2>1. f[i] + 1 \in 1..k + 1
    BY <1>1
  <2> QED
    BY <1>1, <1>6, <2>1
<1>12. Received(U, more, msgs2, next, r, f, got)
  BY <1>1, <1>2, <1>4, <1>7, <1>8, <1>9, <1>10, <1>11 DEF Received
<1> QED
  BY <1>12 DEF next, pkg, msgs2

\* A read takes the next bytes of the stream, wherever it cuts it.
LEMMA ReceivedRead ==
    ASSUME NEW T, NEW at, NEW msgs, NEW rest0, NEW r, NEW f, NEW got,
           Received(T, at, msgs, rest0, r, f, got), NEW n \in 0..Len(rest0)
    PROVE  /\ Window(SubSeq(rest0, 1, n), T, r)
           /\ Len(SubSeq(rest0, 1, n)) = n
           /\ Received(T, at, msgs, Cut(rest0, n), r + n, f, got)
<1> DEFINE data == SubSeq(rest0, 1, n)
           next == Cut(rest0, n)
<1>1. /\ Stream(T, at, msgs) /\ T \in Seq(Byte) /\ Len(T) \in Nat
      /\ rest0 \in Seq(Byte) /\ Len(rest0) \in Nat
      /\ r \in Nat /\ r + Len(rest0) = Len(T)
      /\ \A i \in 1..Len(rest0) : rest0[i] = T[r + i]
      /\ f \in [DOMAIN got -> 1..Len(msgs)]
      /\ \A i, j \in DOMAIN got : i < j => f[i] < f[j]
      /\ \A i \in DOMAIN got : at[f[i] + 1] <= r + 1
  BY DEF Received, Stream
<1>2. n \in Nat /\ n <= Len(rest0)
  BY <1>1
<1>3. /\ data \in Seq(Byte) /\ Len(data) = n
      /\ \A i \in 1..n : data[i] = rest0[i]
  BY <1>1, TakeElements
<1>4. /\ next \in Seq(Byte) /\ Len(next) = Len(rest0) - n
      /\ \A i \in 1..Len(rest0) - n : next[i] = rest0[n + i]
  BY <1>1, CutElements
<1> HIDE DEF data, next
<1>5. Window(data, T, r)
  <2>1. \A i \in 1..n : i \in 1..Len(rest0)
    BY <1>1, <1>2
  <2>2. \A i \in 1..n : data[i] = T[r + i]
    BY <1>1, <1>3, <2>1
  <2>3. r + n <= Len(T)
    BY <1>1, <1>2
  <2> QED
    BY <1>1, <1>3, <2>2, <2>3 DEF Window
<1>6. \A i \in 1..Len(next) : next[i] = T[r + n + i]
  <2>1. \A i \in 1..Len(rest0) - n : n + i \in 1..Len(rest0) /\ r + (n + i) = r + n + i
    BY <1>1, <1>2
  <2> QED
    BY <1>1, <1>4, <2>1
<1>7. r + n \in Nat /\ r + n + Len(next) = Len(T)
  <2> DEFINE l == Len(rest0)
  <2>1. l \in Nat /\ r \in Nat /\ n \in Nat /\ r + l = Len(T) /\ Len(next) = l - n
    BY <1>1, <1>2, <1>4
  <2> HIDE DEF l
  <2> QED
    BY <2>1
<1>8. \A i \in DOMAIN got : at[f[i] + 1] <= r + n + 1
  <2> SUFFICES ASSUME NEW i \in DOMAIN got
               PROVE  at[f[i] + 1] <= r + n + 1
    OBVIOUS
  <2>1. f[i] + 1 \in 1..Len(msgs) + 1
    BY <1>1
  <2>2. at[f[i] + 1] \in Nat
    BY <1>1, <2>1 DEF Stream
  <2> QED
    BY <1>1, <1>2, <2>2
<1>9. Received(T, at, msgs, next, r + n, f, got)
  BY <1>1, <1>4, <1>6, <1>7, <1>8 DEF Received
<1> QED
  BY <1>3, <1>5, <1>9 DEF data, next

\* One more has come of a package behind what was read before.
LEMMA ReceivedOne ==
    ASSUME NEW T, NEW at, NEW msgs, NEW rest0, NEW r, NEW f, NEW S, NEW got \in Seq(S),
           Received(T, at, msgs, rest0, r, f, got), NEW n \in 0..Len(rest0),
           NEW i \in 1..Len(msgs), r < at[i], at[i + 1] <= r + n + 1,
           NEW x \in S
    PROVE  \E g : /\ Received(T, at, msgs, Cut(rest0, n), r + n, g, Append(got, x))
                  /\ g[Len(got) + 1] = i
                  /\ \A j \in DOMAIN got : g[j] = f[j]
<1> DEFINE next == Cut(rest0, n)
           got2 == Append(got, x)
           l == Len(got)
           g == [j \in 1..l + 1 |-> IF j = l + 1 THEN i ELSE f[j]]
<1>1. Received(T, at, msgs, next, r + n, f, got)
  BY ReceivedRead
<1> HIDE DEF next
<1>2. l \in Nat /\ DOMAIN got = 1..l
  OBVIOUS
<1>3. DOMAIN got2 = 1..l + 1
  BY AppendProperties
<1>4. /\ f \in [1..l -> 1..Len(msgs)]
      /\ \A j, k \in 1..l : j < k => f[j] < f[k]
      /\ \A j \in 1..l : at[f[j] + 1] <= r + n + 1
  BY <1>1, <1>2 DEF Received
<1>5. \A j \in 1..l : at[f[j] + 1] <= r + 1
  BY <1>2 DEF Received
<1>6. /\ Len(msgs) \in Nat /\ r \in Nat
      /\ at \in [1..Len(msgs) + 1 -> Nat]
      /\ \A j, k \in 1..Len(msgs) + 1 : j < k => at[j] < at[k]
  <2>1. Stream(T, at, msgs) /\ r \in Nat
    BY DEF Received
  <2>2. msgs \in Seq(Msg)
    BY <2>1 DEF Stream
  <2> QED
    BY <2>1, <2>2 DEF Stream
<1> HIDE DEF l, got2
<1>7. \A j \in 1..l : f[j] < i
  <2> SUFFICES ASSUME NEW j \in 1..l, ~(f[j] < i)
               PROVE  FALSE
    BY <1>4, <1>6
  <2> DEFINE a == f[j] + 1
  <2>1. f[j] \in 1..Len(msgs)
    BY <1>4
  <2>2. a \in 1..Len(msgs) + 1 /\ i \in 1..Len(msgs) + 1 /\ i < a
    <3> DEFINE k == Len(msgs)
               b == f[j]
    <3>1. k \in Nat /\ b \in 1..k /\ i \in 1..k /\ ~(b < i) /\ a = b + 1
      BY <1>6, <2>1
    <3> HIDE DEF k, a, b
    <3>2. a \in 1..k + 1 /\ i \in 1..k + 1 /\ i < a
      BY <3>1
    <3> QED
      BY <3>2 DEF k
  <2>3. at[a] <= r + 1
    BY <1>5
  <2> HIDE DEF a
  <2>4. at[i] < at[a] /\ at[i] \in Nat /\ at[a] \in Nat
    BY <1>6, <2>2
  <2> QED
    BY <1>6, <2>3, <2>4
<1>8. /\ g \in [1..l + 1 -> 1..Len(msgs)]
      /\ g[l + 1] = i
      /\ \A j \in 1..l : g[j] = f[j]
  BY <1>2, <1>4
<1> HIDE DEF g
<1>9. ASSUME NEW j \in 1..l + 1, NEW k \in 1..l + 1, j < k
      PROVE  g[j] < g[k]
  <2>1. j \in 1..l
    BY <1>2, <1>9
  <2>2. CASE k = l + 1
    BY <1>7, <1>8, <2>1, <2>2
  <2>3. CASE k # l + 1
    <3>1. k \in 1..l
      BY <1>2, <2>3
    <3> QED
      BY <1>4, <1>8, <1>9, <2>1, <3>1
  <2> QED
    BY <2>2, <2>3
<1>10. \A j \in 1..l + 1 : at[g[j] + 1] <= r + n + 1
  <2>1. \A j \in 1..l + 1 : j = l + 1 \/ j \in 1..l
    BY <1>2
  <2> QED
    BY <1>4, <1>8, <2>1
<1>11. Received(T, at, msgs, next, r + n, g, got2)
  BY <1>1, <1>3, <1>8, <1>9, <1>10 DEF Received
<1> QED
  BY <1>2, <1>8, <1>11 DEF next, got2, l

-----------------------------------------------------------------------------
(* The inductive invariant. *)

\* A command with its fields, as it fits in a package, and the package's content.
Request ==
    {s \in [cType : Byte \ {START}, fields : Seq(Text)] :
        Len(Payload(s.fields)) <= MaxBuffer - Overhead}

MsgOf(s) == [cType |-> s.cType, payload |-> Payload(s.fields)]

Requests == [i \in 1..Len(sent) |-> MsgOf(sent[i])]

\* The bytes to the server are the end of a stream of the packages sent, of which
\* its reads have found those handled, in order.
RequestsInv ==
    /\ sent \in Seq(Request)
    /\ handled \in Seq(Msg)
    /\ \E T, at, r, f :
          /\ Received(T, at, Requests, up, r, f, handled)
          /\ \A i \in DOMAIN handled : handled[i] = Requests[f[i]]
    /\ server = "busy" => handled # <<>>

\* The texts got show replies with the payloads made, of which stream is still
\* to be read.
ShownOf(T, at, msgs, r, f, stream, got, made) ==
    /\ Received(T, at, msgs, stream, r, f, got)
    /\ Len(msgs) = Len(made)
    /\ \A i \in DOMAIN made : msgs[i].payload = made[i]
    /\ \A i \in DOMAIN got : SameReply(got[i], made[f[i]])

Replies(stream, got, made) ==
    \E T, at, msgs, r, f : ShownOf(T, at, msgs, r, f, stream, got, made)

\* Until the client is gone, so are the bytes to the client and what is still to
\* be written the end of a stream of replies.
RepliesInv ==
    /\ answers \in Seq(Seq(Chars))
    /\ shown \in Seq(Seq(Byte))
    /\ \/ client = "gone" /\ Embeds(shown, answers, SameReply)
       \/ Replies(down \o rest, shown, answers)

\* Inductive, with NothingInvented and TypeOK as consequences.
StreamsInv == TypeOK /\ RequestsInv /\ RepliesInv

\* Of the replies, all are shown, or all but one that is on its way.
OneOnItsWay ==
    \E k \in 0..Len(answers) :
        /\ shown = [i \in 1..k |-> answers[i] \o <<END>>]
        /\ \/ k = Len(answers) /\ down = <<>> /\ rest = <<>>
           \/ /\ k = Len(answers) - 1
              /\ \E m \in Msg :
                    /\ m.payload = Last(answers)
                    /\ \/ down = build_package(m.cType, m.payload) /\ rest = <<>>
                       \/ rest = build_package(m.cType, m.payload) /\ down = <<>>

\* Of the requests, all are handled, or all but one that is on its way to a
\* server that waits for it, unless a handler threw and nothing is read any more.
PatientRequests ==
    \/ server = "failed"
    \/ up = <<>> /\ Len(handled) = Len(sent)
    \/ /\ server = "idle" /\ down = <<>> /\ sent # <<>>
       /\ Len(sent) = Len(handled) + 1
       /\ up = build_package(MsgOf(Last(sent)).cType, MsgOf(Last(sent)).payload)

\* A connection that no package locked out, with one package on its way at most
\* while it is served.
Patient ==
    /\ active = FALSE /\ server # "stuck"
    /\ server \in {"busy", "writing", "failed"} => down = <<>>
    /\ PatientRequests
    /\ client = "up" => OneOnItsWay

\* Inductive with StreamsInv if Capacity >= MaxBuffer.
PatientInv == delivery = "whole" => Patient

-----------------------------------------------------------------------------
(* What the steps write and read. *)

Kind == {"text", "number", "difficulty", "status", "time"}

\* A command has a type that is not START, and fields that can be typed.
LEMMA CommandFields ==
    ASSUME NEW cmd \in Commands
    PROVE  /\ cmd.cType \in Byte \ {START}
           /\ FieldsOf(cmd) \subseteq Seq(Text)
<1>1. cmd.cType \in 0..12 /\ cmd.kinds \in Seq(Kind)
  <2>1. cmd.cType \in 0..12
    BY DEF Commands
  <2>2. /\ <<>> \in Seq(Kind) /\ <<"text">> \in Seq(Kind) /\ <<"number">> \in Seq(Kind)
        /\ <<"number", "text">> \in Seq(Kind)
        /\ <<"number", "text", "difficulty">> \in Seq(Kind)
        /\ <<"number", "status", "time">> \in Seq(Kind)
    <3>1. \A a, b, c \in Kind : <<>> \in Seq(Kind) /\ <<a>> \in Seq(Kind)
                                /\ <<a, b>> \in Seq(Kind) /\ <<a, b, c>> \in Seq(Kind)
      OBVIOUS
    <3>2. /\ "text" \in Kind /\ "number" \in Kind /\ "difficulty" \in Kind
          /\ "status" \in Kind /\ "time" \in Kind
      BY DEF Kind
    <3> QED
      BY <3>1, <3>2
  <2>3. cmd.kinds \in {<<>>, <<"text">>, <<"number">>, <<"number", "text">>,
            <<"number", "text", "difficulty">>, <<"number", "status", "time">>}
    BY DEF Commands
  <2> QED
    BY <2>1, <2>2, <2>3
<1>2. cmd.cType \in Byte \ {START}
  <2>1. cmd.cType \in Byte
    BY <1>1 DEF Byte
  <2> QED
    BY <2>1, StartIsNoType
<1>3. \A k \in Kind : get_valid_input(k) \subseteq Text
  BY WireAssumption DEF WireAssumption, Kind, get_valid_input
<1>4. ASSUME NEW f \in FieldsOf(cmd)
      PROVE  f \in Seq(Text)
  <2>1. DOMAIN cmd.kinds = 1..Len(cmd.kinds) /\ Len(cmd.kinds) \in Nat
        /\ \A i \in DOMAIN cmd.kinds : cmd.kinds[i] \in Kind
    BY <1>1
  <2>2. /\ f \in [DOMAIN cmd.kinds -> UNION {get_valid_input(k) : k \in Range(cmd.kinds)}]
        /\ \A i \in DOMAIN f : f[i] \in get_valid_input(cmd.kinds[i])
    BY DEF FieldsOf
  <2>3. DOMAIN f = DOMAIN cmd.kinds /\ f = [i \in DOMAIN f |-> f[i]]
    BY <2>2
  <2>4. \A i \in 1..Len(cmd.kinds) : f[i] \in Text
    BY <1>3, <2>1, <2>2, <2>3
  <2> HIDE DEF FieldsOf
  <2>5. f = [i \in 1..Len(cmd.kinds) |-> f[i]]
    BY <2>1, <2>3
  <2> QED
    BY <2>1, <2>4, <2>5
<1> QED
  BY <1>2, <1>4

\* What a command becomes, if its package is not too long.
LEMMA CommandMsg ==
    ASSUME NEW cmd \in Commands, NEW fields \in FieldsOf(cmd),
           build_package(cmd.cType, Payload(fields)) # <<>>
    PROVE  LET s == [cType |-> cmd.cType, fields |-> fields]
           IN  s \in Request /\ MsgOf(s) \in Msg
<1> DEFINE s == [cType |-> cmd.cType, fields |-> fields]
<1>1. cmd.cType \in Byte \ {START} /\ fields \in Seq(Text)
  BY CommandFields
<1>2. PICK pos : Laid(Payload(fields), fields, pos, Len(fields))
  BY <1>1, PayloadIsLaid
<1>3. Payload(fields) \in Seq(Chars) /\ Len(Payload(fields)) \in Nat
  BY <1>2 DEF Laid
<1>4. Len(Payload(fields)) <= MaxBuffer - Overhead
  <2>1. ~(Len(Payload(fields)) > MaxBuffer - Overhead)
    BY DEF build_package
  <2> QED
    BY <1>3, <2>1, Constants DEF Overhead
<1> QED
  BY <1>1, <1>3, <1>4 DEF Request, MsgOf, Msg

\* A reply that is not too long.
LEMMA ReplyMsg ==
    ASSUME NEW t \in Byte \ {START}, NEW a \in Answers, build_package(t, a) # <<>>
    PROVE  [cType |-> t, payload |-> a] \in Msg
<1>0. Answers \subseteq Seq(Chars)
  BY Zenon, WireAssumption DEF WireAssumption, Chars
<1>1. a \in Seq(Chars) /\ Len(a) \in Nat
  BY <1>0
<1>2. ~(Len(a) > MaxBuffer - Overhead)
  BY DEF build_package
<1>3. Len(a) <= MaxBuffer - Overhead
  BY <1>1, <1>2, Constants DEF Overhead
<1> QED
  BY <1>1, <1>3 DEF Msg

\* A login is no START.
LEMMA LoginIsNoStart == LOGIN \in Byte \ {START}
<1>1. [cType |-> 1, kinds |-> <<"text">>] \in Commands
  BY DEF Commands
<1>2. 1 # START
  BY <1>1, StartIsNoType
<1> QED
  BY <1>2 DEF LOGIN, Byte

\* A read or a write of some bytes takes one at least.
LEMMA PiecesAre ==
    ASSUME NEW most \in Nat, NEW cut, NEW n \in Pieces(most, cut)
    PROVE  n \in 1..most
  BY DEF Pieces

\* The least of two numbers.
LEMMA LeastIs ==
    ASSUME NEW m \in Nat, NEW n \in Nat
    PROVE  Least(m, n) \in Nat /\ Least(m, n) <= m /\ Least(m, n) <= n
  BY DEF Least

\* A piece of what has come, or of what is still to be written.
LEMMA PieceOf ==
    ASSUME NEW most \in Nat, NEW S, NEW s \in Seq(S), NEW cut,
           NEW n \in Pieces(Least(most, Len(s)), cut)
    PROVE  n \in 1..Len(s) /\ n <= most /\ n \in 0..Len(s)
<1>1. Len(s) \in Nat
  OBVIOUS
<1>2. /\ Least(most, Len(s)) \in Nat
      /\ Least(most, Len(s)) <= most /\ Least(most, Len(s)) <= Len(s)
  BY <1>1, LeastIs
<1>3. n \in 1..Least(most, Len(s))
  BY <1>2, PiecesAre
<1> HIDE DEF Least
<1> QED
  BY <1>1, <1>2, <1>3

\* The sequence of the one member of a set, and that of none.
LEMMA OneOrNone ==
    /\ SetToSeq({}) = <<>>
    /\ \A x : SetToSeq({x}) = <<x>>
<1>1. Cardinality({}) = 0 /\ \A x : Cardinality({x}) = 1
  BY FS_EmptySet, FS_Singleton
<1>2. 1..0 = {} /\ 1..1 = {1}
  OBVIOUS
<1>3. SetToSeq({}) = <<>>
  <2>1. [1..0 -> {}] = {<<>>}
    <3>1. \A f \in [1..0 -> {}] : f = <<>>
      <4> SUFFICES ASSUME NEW f \in [1..0 -> {}]
                   PROVE  f = <<>>
        OBVIOUS
      <4>1. f \in Seq({}) /\ Len(f) = 0
        OBVIOUS
      <4> QED
        BY <4>1, EmptySeq
    <3>2. <<>> \in [1..0 -> {}]
      BY <1>2
    <3> QED
      BY <3>1, <3>2
  <2>2. IsInjective(<<>>)
    BY DEF IsInjective
  <2>3. SetToSeq({}) = CHOOSE f \in {<<>>} : IsInjective(f)
    BY Zenon, <1>1, <2>1 DEF SetToSeq
  <2> QED
    BY <2>2, <2>3
<1>4. ASSUME NEW x
      PROVE  SetToSeq({x}) = <<x>>
  <2>1. [1..1 -> {x}] = {<<x>>}
    <3>1. \A f \in [1..1 -> {x}] : f = <<x>>
      OBVIOUS
    <3>2. <<x>> \in [1..1 -> {x}]
      OBVIOUS
    <3> QED
      BY <3>1, <3>2
  <2>2. IsInjective(<<x>>)
    BY DEF IsInjective
  <2>3. SetToSeq({x}) = CHOOSE f \in {<<x>>} : IsInjective(f)
    BY Zenon, <1>1, <2>1 DEF SetToSeq
  <2> QED
    BY <2>2, <2>3
<1> QED
  BY <1>3, <1>4

-----------------------------------------------------------------------------
(* What an action leaves alone. *)

\* The parts of the invariant that an action leaves alone.
LEMMA RequestsSame ==
    ASSUME RequestsInv, UNCHANGED <<up, sent, handled>>,
           server' = "busy" => server = "busy"
    PROVE  RequestsInv'
<1>1. Requests' = Requests
  BY DEF Requests
<1>2. up' = up /\ sent' = sent /\ handled' = handled
  OBVIOUS
<1>3. PICK T, at, r, f : /\ Received(T, at, Requests, up, r, f, handled)
                         /\ \A i \in DOMAIN handled : handled[i] = Requests[f[i]]
  BY Zenon DEF RequestsInv
<1>4. \E U, pos, s, g : /\ Received(U, pos, Requests', up', s, g, handled')
                        /\ \A i \in DOMAIN handled' : handled'[i] = Requests'[g[i]]
  <2> WITNESS T, at, r, f
  <2> QED
    BY <1>1, <1>2, <1>3
<1>5. sent \in Seq(Request) /\ handled \in Seq(Msg)
      /\ (server = "busy" => handled # <<>>)
  BY Zenon DEF RequestsInv
<1> QED
  BY <1>1, <1>2, <1>4, <1>5, Zenon DEF RequestsInv

\* What is shown was answered, in that order.
LEMMA RepliesEmbed ==
    ASSUME RepliesInv
    PROVE  Embeds(shown, answers, SameReply)
<1>1. CASE client = "gone" /\ Embeds(shown, answers, SameReply)
  BY <1>1
<1>2. CASE Replies(down \o rest, shown, answers)
  <2>1. PICK T, at, msgs, r, f :
           /\ Received(T, at, msgs, down \o rest, r, f, shown)
           /\ Len(msgs) = Len(answers)
           /\ \A i \in DOMAIN shown : SameReply(shown[i], answers[f[i]])
    BY <1>2, Zenon DEF Replies, ShownOf
  <2>2. answers \in Seq(Seq(Chars))
    BY Zenon DEF RepliesInv
  <2>3. DOMAIN answers = 1..Len(answers)
    BY <2>2
  <2>4. /\ f \in [DOMAIN shown -> 1..Len(msgs)]
        /\ \A i, j \in DOMAIN shown : i < j => f[i] < f[j]
    BY <2>1 DEF Received
  <2>5. f \in [DOMAIN shown -> DOMAIN answers]
    BY <2>1, <2>3, <2>4
  <2> QED
    BY <2>1, <2>4, <2>5 DEF Embeds
<1> QED
  BY <1>1, <1>2, Zenon DEF RepliesInv

\* Bytes that only move from the server to the wire change nothing of the replies.
LEMMA RepliesSame ==
    ASSUME RepliesInv, UNCHANGED <<answers, shown>>,
           client' = "gone" \/ (client # "gone" /\ down' \o rest' = down \o rest)
    PROVE  RepliesInv'
<1>1. Embeds(shown, answers, SameReply)
  BY RepliesEmbed
<1>2. shown' = shown /\ answers' = answers
  OBVIOUS
<1>3. client # "gone" => Replies(down \o rest, shown, answers)
  BY Zenon DEF RepliesInv
<1>4. answers \in Seq(Seq(Chars)) /\ shown \in Seq(Seq(Byte))
  BY Zenon DEF RepliesInv
<1> QED
  BY <1>1, <1>2, <1>3, <1>4, Zenon DEF RepliesInv

\* One more reply, of which nothing has been read.
LEMMA RepliesAppend ==
    ASSUME NEW stream, NEW got, NEW made \in Seq(Seq(Chars)),
           Replies(stream, got, made), NEW m \in Msg
    PROVE  Replies(stream \o build_package(m.cType, m.payload), got,
                   Append(made, m.payload))
<1> DEFINE made2 == Append(made, m.payload)
           stream2 == stream \o build_package(m.cType, m.payload)
<1>1. m.payload \in Seq(Chars)
  BY MsgFits
<1>2. /\ Len(made2) = Len(made) + 1
      /\ \A i \in 1..Len(made) : made2[i] = made[i]
      /\ made2[Len(made) + 1] = m.payload
      /\ Len(made) \in Nat
      /\ DOMAIN made2 = 1..Len(made) + 1
      /\ DOMAIN made = 1..Len(made)
  BY <1>1, AppendProperties
<1>3. PICK T, at, msgs, r, f :
         /\ Received(T, at, msgs, stream, r, f, got)
         /\ Len(msgs) = Len(made)
         /\ \A i \in DOMAIN made : msgs[i].payload = made[i]
         /\ \A i \in DOMAIN got : SameReply(got[i], made[f[i]])
  BY Zenon DEF Replies, ShownOf
<1> DEFINE msgs2 == Append(msgs, m)
<1>4. PICK U, more : Received(U, more, msgs2, stream2, r, f, got)
  BY <1>3, ReceivedMore
<1>5. msgs \in Seq(Msg)
  BY <1>3, Zenon DEF Received, Stream
<1>6. /\ Len(msgs2) = Len(msgs) + 1
      /\ \A i \in 1..Len(msgs) : msgs2[i] = msgs[i]
      /\ msgs2[Len(msgs) + 1] = m
  BY <1>5, AppendProperties
<1> HIDE DEF msgs2, made2, stream2
<1>7. ASSUME NEW i \in DOMAIN made2
      PROVE  msgs2[i].payload = made2[i]
  <2>1. i \in 1..Len(made) \/ i = Len(made) + 1
    BY <1>2
  <2> QED
    BY <1>2, <1>3, <1>6, <2>1
<1>8. ASSUME NEW i \in DOMAIN got
      PROVE  SameReply(got[i], made2[f[i]])
  <2>1. f[i] \in 1..Len(msgs)
    BY <1>3 DEF Received
  <2> QED
    BY <1>2, <1>3, <2>1
<1>9. Len(msgs2) = Len(made2)
  BY <1>2, <1>3, <1>6
<1>10. ShownOf(U, more, msgs2, r, f, stream2, got, made2)
  BY <1>4, <1>7, <1>8, <1>9, Zenon DEF ShownOf
<1>11. Replies(stream2, got, made2)
  BY <1>10, Zenon DEF Replies
<1> QED
  BY <1>11 DEF stream2, made2

\* The server has made one more reply, of which nothing has been written.
LEMMA RepliesMore ==
    ASSUME RepliesInv, NEW m \in Msg, client' = client, shown' = shown, down' = down,
           rest = <<>>, down \in Seq(Byte),
           rest' = build_package(m.cType, m.payload),
           answers' = Append(answers, m.payload)
    PROVE  RepliesInv'
<1>1. answers \in Seq(Seq(Chars)) /\ shown \in Seq(Seq(Byte)) /\ m.payload \in Seq(Chars)
  BY MsgFits DEF RepliesInv
<1>2. /\ answers' \in Seq(Seq(Chars))
      /\ \A i \in 1..Len(answers) : answers'[i] = answers[i]
      /\ Len(answers) \in Nat
      /\ DOMAIN answers' = 1..Len(answers) + 1
      /\ DOMAIN answers = 1..Len(answers)
  BY <1>1, AppendProperties
<1>3. CASE client = "gone" /\ Embeds(shown, answers, SameReply)
  <2>1. PICK f \in [DOMAIN shown -> DOMAIN answers] :
           /\ \A i, j \in DOMAIN shown : i < j => f[i] < f[j]
           /\ \A i \in DOMAIN shown : SameReply(shown[i], answers[f[i]])
    BY <1>3 DEF Embeds
  <2>2. f \in [DOMAIN shown -> DOMAIN answers']
    <3>1. DOMAIN answers \subseteq DOMAIN answers'
      BY <1>2
    <3> QED
      BY <3>1
  <2>3. \A i \in DOMAIN shown : SameReply(shown[i], answers'[f[i]])
    BY <1>2, <2>1
  <2>4. Embeds(shown, answers', SameReply)
    BY <2>1, <2>2, <2>3 DEF Embeds
  <2> QED
    BY <1>1, <1>2, <1>3, <2>4, Zenon DEF RepliesInv
<1>4. CASE Replies(down \o rest, shown, answers)
  <2>1. down \o rest = down
    BY ConcatEmptySeq
  <2>2. Replies(down \o build_package(m.cType, m.payload), shown,
                Append(answers, m.payload))
    BY <1>1, <1>4, <2>1, RepliesAppend
  <2>3. Replies(down' \o rest', shown', answers')
    BY <2>2, Zenon
  <2> QED
    BY <1>1, <1>2, <2>3, Zenon DEF RepliesInv
<1> QED
  BY <1>3, <1>4, Zenon DEF RepliesInv

-----------------------------------------------------------------------------

\* Nothing is sent, answered or shown at first.
LEMMA StreamsInit ==
    ASSUME Init
    PROVE  StreamsInv
<1>1. TypeOK
  <2>1. Len(<<>>) = 0 /\ <<>> \in Seq(Byte)
    OBVIOUS
  <2>2. 0 <= MaxBuffer /\ 0 <= Capacity
    <3>1. Capacity \in Nat
      BY Zenon, WireAssumption DEF WireAssumption
    <3> QED
      BY <3>1, Constants
  <2>3. /\ delivery \in Deliveries /\ client = "up" /\ up = <<>> /\ down = <<>>
        /\ server = "idle" /\ rest = <<>> /\ active = FALSE
    BY DEF Init
  <2>4. active \in BOOLEAN
    BY <2>3
  <2> QED
    BY <2>1, <2>2, <2>3, <2>4 DEF TypeOK
<1>2. Received(<<>>, [i \in 1..1 |-> 1], <<>>, <<>>, 0, <<>>, <<>>)
  <2>1. Len(<<>>) = 0 /\ DOMAIN <<>> = {} /\ <<>> \in Seq(Byte)
    OBVIOUS
  <2>2. <<>> \in [DOMAIN <<>> -> 1..Len(<<>>)]
    OBVIOUS
  <2> QED
    BY <2>1, <2>2, StreamEmpty DEF Received
<1>3. RequestsInv
  <2>1. Requests = <<>>
    <3>1. Len(sent) = 0
      BY DEF Init
    <3> QED
      BY <3>1 DEF Requests
  <2>2. \A i \in DOMAIN <<>> : FALSE
    OBVIOUS
  <2>3. up = <<>> /\ sent = <<>> /\ handled = <<>> /\ server # "busy"
    BY DEF Init
  <2>4. Received(<<>>, [i \in 1..1 |-> 1], Requests, up, 0, <<>>, handled)
    BY <1>2, <2>1, <2>3
  <2>5. \A i \in DOMAIN handled : handled[i] = Requests[<<>>[i]]
    BY <2>2, <2>3
  <2>6. sent \in Seq(Request) /\ handled \in Seq(Msg)
    BY <2>3
  <2>7. \E T, at, r, f : /\ Received(T, at, Requests, up, r, f, handled)
                         /\ \A i \in DOMAIN handled : handled[i] = Requests[f[i]]
    <3> WITNESS <<>>, [i \in 1..1 |-> 1], 0, <<>>
    <3> QED
      BY <2>4, <2>5
  <2> QED
    BY <2>3, <2>6, <2>7, Zenon DEF RequestsInv
<1>4. RepliesInv
  <2>1. down = <<>> /\ rest = <<>> /\ shown = <<>> /\ answers = <<>>
    BY DEF Init
  <2>2. down \o rest = <<>>
    BY <2>1
  <2>3. \A i \in DOMAIN <<>> : FALSE
    OBVIOUS
  <2>4. Received(<<>>, [i \in 1..1 |-> 1], <<>>, down \o rest, 0, <<>>, shown)
    BY <1>2, <2>1, <2>2
  <2>5. Len(<<>>) = Len(answers)
    BY <2>1
  <2>6. Replies(down \o rest, shown, answers)
    BY <2>1, <2>3, <2>4, <2>5, Zenon DEF Replies, ShownOf
  <2>7. answers \in Seq(Seq(Chars)) /\ shown \in Seq(Seq(Byte))
    BY <2>1
  <2> QED
    BY <2>6, <2>7, Zenon DEF RepliesInv
<1> QED
  BY <1>1, <1>3, <1>4 DEF StreamsInv

-----------------------------------------------------------------------------
(* Every step keeps the streams. *)

\* TCPClient.cpp, SendtoBuffer: a request more is on its way.
LEMMA StreamsUserSends ==
    ASSUME StreamsInv, NEW cmd \in Commands, NEW fields \in FieldsOf(cmd),
           UserSends(cmd, fields)
    PROVE  StreamsInv'
<1> DEFINE s == [cType |-> cmd.cType, fields |-> fields]
           pkg == build_package(cmd.cType, Payload(fields))
<1>1. /\ pkg # <<>> /\ up' = up \o pkg /\ sent' = Append(sent, s)
      /\ delivery' = delivery /\ client' = client /\ down' = down /\ server' = server
      /\ rest' = rest /\ active' = active /\ shown' = shown /\ handled' = handled
      /\ answers' = answers
      /\ client # "gone"
  BY DEF UserSends
<1>2. TypeOK /\ RequestsInv /\ RepliesInv
  BY DEF StreamsInv
<1>3. s \in Request /\ MsgOf(s) \in Msg
  BY <1>1, CommandMsg
<1>4. pkg = build_package(MsgOf(s).cType, MsgOf(s).payload)
  BY DEF MsgOf
<1>5. pkg \in Seq(Byte)
  BY <1>3, <1>4, PackageIsBytes
<1> HIDE DEF pkg
<1>6. up' \in Seq(Byte)
  BY <1>1, <1>2, <1>5 DEF TypeOK
<1>7. TypeOK'
  BY <1>1, <1>2, <1>6 DEF TypeOK
<1>8. RequestsInv'
  <2>1. /\ sent \in Seq(Request) /\ handled \in Seq(Msg)
        /\ (server = "busy" => handled # <<>>)
    BY <1>2, Zenon DEF RequestsInv
  <2>2. PICK T, at, r, f : /\ Received(T, at, Requests, up, r, f, handled)
                           /\ \A i \in DOMAIN handled : handled[i] = Requests[f[i]]
    BY <1>2, Zenon DEF RequestsInv
  <2>3. PICK U, more : Received(U, more, Append(Requests, MsgOf(s)), up', r, f, handled)
    BY <1>1, <1>3, <1>4, <2>2, ReceivedMore
  <2>4. /\ sent' \in Seq(Request) /\ Len(sent') = Len(sent) + 1
        /\ \A i \in 1..Len(sent) : sent'[i] = sent[i]
        /\ sent'[Len(sent) + 1] = s
        /\ Len(sent) \in Nat
    BY <1>1, <1>3, <2>1, AppendProperties
  <2>5. Requests' = [i \in 1..Len(sent) + 1 |-> MsgOf(sent'[i])]
    BY <2>4 DEF Requests, MsgOf
  <2>6. Requests \in Seq(Msg) /\ Len(Requests) = Len(sent)
    <3>1. Requests \in Seq(Msg)
      BY <2>2, Zenon DEF Received, Stream
    <3>2. DOMAIN Requests = 1..Len(sent)
      BY DEF Requests
    <3> QED
      BY <2>4, <3>1, <3>2
  <2>7. Append(Requests, MsgOf(s)) = Requests'
    <3> DEFINE more2 == Append(Requests, MsgOf(s))
    <3>1. /\ more2 \in Seq(Msg) /\ Len(more2) = Len(sent) + 1
          /\ \A i \in 1..Len(sent) : more2[i] = Requests[i]
          /\ more2[Len(sent) + 1] = MsgOf(s)
      BY <1>3, <2>6, AppendProperties
    <3> HIDE DEF more2
    <3>2. more2 = [i \in 1..Len(sent) + 1 |-> more2[i]]
      BY <3>1
    <3>3. \A i \in 1..Len(sent) + 1 : more2[i] = MsgOf(sent'[i])
      <4>1. \A i \in 1..Len(sent) + 1 : i = Len(sent) + 1 \/ i \in 1..Len(sent)
        BY <2>4
      <4>2. \A i \in 1..Len(sent) : Requests[i] = MsgOf(sent[i])
        BY DEF Requests
      <4> QED
        BY <2>4, <3>1, <4>1, <4>2
    <3> QED
      BY <2>5, <3>2, <3>3 DEF more2
  <2>8. \A i \in DOMAIN handled : handled[i] = Requests'[f[i]]
    <3>1. \A i \in 1..Len(sent) : Requests'[i] = Requests[i]
      BY <2>4, <2>5 DEF Requests
    <3>2. \A i \in DOMAIN handled : f[i] \in 1..Len(sent)
      BY <2>2, <2>6 DEF Received
    <3> QED
      BY <2>2, <3>1, <3>2
  <2>9. \E V, pos, t, g : /\ Received(V, pos, Requests', up', t, g, handled')
                          /\ \A i \in DOMAIN handled' : handled'[i] = Requests'[g[i]]
    <3> WITNESS U, more, r, f
    <3> QED
      BY <1>1, <2>3, <2>7, <2>8
  <2> QED
    BY <1>1, <2>1, <2>4, <2>9, Zenon DEF RequestsInv
<1>9. RepliesInv'
  BY <1>1, <1>2, RepliesSame
<1> QED
  BY <1>7, <1>8, <1>9 DEF StreamsInv

\* What the client does not read and the server does not write or read.
LEMMA StreamsOthers ==
    ASSUME StreamsInv,
           ClientGoesDeaf \/ ClientLeaves \/ ServerActivates \/ ServerWriteFails
             \/ ServerThrows \/ ServerReturns \/ UNCHANGED vars
    PROVE  StreamsInv'
<1>1. TypeOK /\ RequestsInv /\ RepliesInv
  BY DEF StreamsInv
<1>2. CASE ClientGoesDeaf
  <2>1. /\ delivery' = delivery /\ client' = "deaf" /\ up' = up /\ down' = down
        /\ server' = server /\ rest' = rest /\ active' = active /\ shown' = shown
        /\ sent' = sent /\ handled' = handled /\ answers' = answers /\ client = "up"
    BY <1>2 DEF ClientGoesDeaf, bytes, history
  <2>2. TypeOK'
    BY <1>1, <2>1 DEF TypeOK
  <2>3. RequestsInv' /\ RepliesInv'
    BY <1>1, <2>1, RequestsSame, RepliesSame
  <2> QED
    BY <2>2, <2>3 DEF StreamsInv
<1>3. CASE ClientLeaves
  <2>1. /\ delivery' = delivery /\ client' = "gone" /\ up' = up /\ down' = <<>>
        /\ server' = server /\ rest' = rest /\ active' = active /\ shown' = shown
        /\ sent' = sent /\ handled' = handled /\ answers' = answers
    BY <1>3 DEF ClientLeaves, history
  <2>2. <<>> \in Seq(Byte) /\ Len(<<>>) <= Capacity
    <3>1. Capacity \in Nat
      BY Zenon, WireAssumption DEF WireAssumption
    <3> QED
      BY <3>1
  <2>3. TypeOK'
    BY <1>1, <2>1, <2>2 DEF TypeOK
  <2>4. RequestsInv' /\ RepliesInv'
    BY <1>1, <2>1, RequestsSame, RepliesSame
  <2> QED
    BY <2>3, <2>4 DEF StreamsInv
<1>4. CASE ServerActivates
  <2>1. /\ delivery' = delivery /\ client' = client /\ up' = up /\ down' = down
        /\ server' = server /\ rest' = rest /\ active' = TRUE /\ shown' = shown
        /\ sent' = sent /\ handled' = handled /\ answers' = answers
    BY <1>4 DEF ServerActivates, bytes, history
  <2>2. TypeOK'
    BY <1>1, <2>1 DEF TypeOK
  <2>3. RequestsInv' /\ RepliesInv'
    BY <1>1, <2>1, RequestsSame, RepliesSame
  <2> QED
    BY <2>2, <2>3 DEF StreamsInv
<1>5. CASE ServerWriteFails
  <2>1. /\ delivery' = delivery /\ client' = client /\ up' = up /\ down' = down
        /\ server' \in {"returning", "killed"} /\ rest' = <<>> /\ active' = active
        /\ shown' = shown /\ sent' = sent /\ handled' = handled /\ answers' = answers
        /\ client = "gone"
    BY <1>5 DEF ServerWriteFails, bytes, history
  <2>2. <<>> \in Seq(Byte) /\ Len(<<>>) <= MaxBuffer
    BY Constants
  <2>3. TypeOK'
    BY <1>1, <2>1, <2>2 DEF TypeOK
  <2>4. RequestsInv' /\ RepliesInv'
    BY <1>1, <2>1, RequestsSame, RepliesSame
  <2> QED
    BY <2>3, <2>4 DEF StreamsInv
<1>6. CASE ServerReturns
  <2>1. /\ delivery' = delivery /\ client' = client /\ up' = up /\ down' = down
        /\ server = "returning" /\ server' \in {"stuck", "idle"}
        /\ rest' = rest /\ active' = active
        /\ shown' = shown /\ sent' = sent /\ handled' = handled /\ answers' = answers
    BY <1>6 DEF ServerReturns, bytes, history
  <2>2. TypeOK'
    BY <1>1, <2>1 DEF TypeOK
  <2>3. RequestsInv' /\ RepliesInv'
    BY <1>1, <2>1, RequestsSame, RepliesSame
  <2> QED
    BY <2>2, <2>3 DEF StreamsInv
<1>7. CASE UNCHANGED vars
  <2>1. /\ delivery' = delivery /\ client' = client /\ up' = up /\ down' = down
        /\ server' = server /\ rest' = rest /\ active' = active /\ shown' = shown
        /\ sent' = sent /\ handled' = handled /\ answers' = answers
    BY <1>7 DEF vars, bytes, history
  <2>2. TypeOK'
    BY <1>1, <2>1 DEF TypeOK
  <2>3. RequestsInv' /\ RepliesInv'
    BY <1>1, <2>1, RequestsSame, RepliesSame
  <2> QED
    BY <2>2, <2>3 DEF StreamsInv
<1>8. CASE ServerThrows
  <2>1. /\ delivery' = delivery /\ client' = client /\ up' = up /\ down' = down
        /\ server = "busy" /\ server' = "failed"
        /\ rest' = rest /\ active' = active
        /\ shown' = shown /\ sent' = sent /\ handled' = handled /\ answers' = answers
    BY <1>8 DEF ServerThrows, bytes, history
  <2>2. TypeOK'
    BY <1>1, <2>1 DEF TypeOK
  <2>3. RequestsInv' /\ RepliesInv'
    BY <1>1, <2>1, RequestsSame, RepliesSame
  <2> QED
    BY <2>2, <2>3 DEF StreamsInv
<1> QED
  BY <1>2, <1>3, <1>4, <1>5, <1>6, <1>7, <1>8

\* EpollWorker.cpp, the handler and its reply: one answer more is to be written.
LEMMA StreamsServerHandles ==
    ASSUME StreamsInv, ServerHandles
    PROVE  StreamsInv'
<1>1. TypeOK /\ RequestsInv /\ RepliesInv
  BY DEF StreamsInv
<1>2. /\ delivery' = delivery /\ client' = client /\ up' = up /\ down' = down
      /\ active' = active /\ shown' = shown /\ sent' = sent /\ handled' = handled
      /\ server = "busy"
  BY DEF ServerHandles, bytes
<1>3. rest = <<>> /\ down \in Seq(Byte)
  BY <1>1, <1>2 DEF TypeOK
<1>4. CASE server' = "returning" /\ UNCHANGED <<rest, answers>>
  <2>1. TypeOK'
    BY <1>1, <1>2, <1>4 DEF TypeOK
  <2>2. RequestsInv' /\ RepliesInv'
    BY <1>1, <1>2, <1>4, RequestsSame, RepliesSame
  <2> QED
    BY <2>1, <2>2 DEF StreamsInv
<1>5. ASSUME NEW a \in Answers, NEW t \in {Last(handled).cType, LOGIN},
             rest' = build_package(t, a), rest' # <<>>, server' = "writing",
             answers' = Append(answers, a)
      PROVE  StreamsInv'
  <2>1. handled \in Seq(Msg) /\ handled # <<>>
    BY <1>1, <1>2, Zenon DEF RequestsInv
  <2>2. Last(handled) \in Msg
    BY <2>1 DEF Last
  <2>3. t \in Byte \ {START}
    BY <2>2, LoginIsNoStart DEF Msg
  <2> DEFINE m == [cType |-> t, payload |-> a]
  <2>4. m \in Msg
    BY <1>5, <2>3, ReplyMsg
  <2>5. m.cType = t /\ m.payload = a
    OBVIOUS
  <2>6. rest' \in Seq(Byte) /\ Len(rest') = Len(a) + 7
    BY <1>5, <2>4, <2>5, PackageIsBytes
  <2>7. Len(rest') <= MaxBuffer
    <3>1. Len(a) \in Nat /\ Len(a) <= MaxBuffer - 7
      BY <2>4, <2>5 DEF Msg, Overhead
    <3> QED
      BY <2>6, <3>1, Constants
  <2> HIDE DEF m
  <2>8. TypeOK'
    BY <1>1, <1>2, <1>5, <2>6, <2>7 DEF TypeOK
  <2>9. RequestsInv'
    BY <1>1, <1>2, <1>5, RequestsSame
  <2>10. RepliesInv'
    BY <1>1, <1>2, <1>3, <1>5, <2>4, <2>5, RepliesMore
  <2> QED
    BY <2>8, <2>9, <2>10 DEF StreamsInv
<1> QED
  BY <1>4, <1>5, Zenon DEF ServerHandles

\* EpollWorker.cpp, SendData: what is written has left the rest.
LEMMA StreamsServerWrites ==
    ASSUME StreamsInv, ServerWrites
    PROVE  StreamsInv'
<1>1. TypeOK /\ RequestsInv /\ RepliesInv
  BY DEF StreamsInv
<1>2. PICK n :
         /\ n \in Pieces(Least(Len(rest), Capacity - Len(down)), "replies cut")
         /\ down' = down \o SubSeq(rest, 1, n)
         /\ rest' = Cut(rest, n)
         /\ server' = IF rest' = <<>> THEN "returning" ELSE "writing"
  BY DEF ServerWrites
<1>3. /\ delivery' = delivery /\ client' = client /\ up' = up /\ active' = active
      /\ shown' = shown /\ sent' = sent /\ handled' = handled /\ answers' = answers
      /\ server = "writing" /\ client # "gone"
  BY DEF ServerWrites, history
<1>4. /\ rest \in Seq(Byte) /\ down \in Seq(Byte) /\ Len(rest) \in Nat
      /\ Len(down) \in Nat /\ Len(down) <= Capacity /\ Len(rest) <= MaxBuffer
      /\ Capacity \in Nat
  <2>1. Capacity \in Nat
    BY Zenon, WireAssumption DEF WireAssumption
  <2>2. rest \in Seq(Byte) /\ down \in Seq(Byte) /\ Len(down) <= Capacity
        /\ Len(rest) <= MaxBuffer
    BY <1>1 DEF TypeOK
  <2> QED
    BY <2>1, <2>2
<1>5. n \in 0..Len(rest) /\ n <= Capacity - Len(down) /\ n \in Nat
  <2> DEFINE room == Capacity - Len(down)
             most == Least(Len(rest), room)
  <2>1. room \in Nat
    BY <1>4
  <2> HIDE DEF room
  <2>2. most \in Nat /\ most <= Len(rest) /\ most <= room
    BY <1>4, <2>1, LeastIs
  <2>3. n \in Pieces(most, "replies cut")
    BY <1>2 DEF room
  <2> HIDE DEF most
  <2>4. n \in 1..most
    BY <2>2, <2>3, PiecesAre
  <2>5. n \in 0..Len(rest) /\ n <= room /\ n \in Nat
    BY <1>4, <2>1, <2>2, <2>4
  <2> QED
    BY <2>5 DEF room
<1> DEFINE a == SubSeq(rest, 1, n)
           b == Cut(rest, n)
<1>6. a \in Seq(Byte) /\ Len(a) = n /\ \A i \in 1..n : a[i] = rest[i]
  BY <1>4, <1>5, TakeElements
<1>7. /\ b \in Seq(Byte) /\ Len(b) = Len(rest) - n
      /\ \A i \in 1..Len(rest) - n : b[i] = rest[n + i]
  BY <1>4, <1>5, CutElements
<1>8. down' = down \o a /\ rest' = b
  BY <1>2
<1> HIDE DEF a, b
<1>9. down' \in Seq(Byte) /\ Len(down') = Len(down) + n
  BY <1>4, <1>6, <1>8, Joined
<1>10. Len(down') <= Capacity /\ Len(rest') <= MaxBuffer
  BY <1>4, <1>5, <1>7, <1>8, <1>9, Constants
<1>11. TypeOK'
  BY <1>1, <1>2, <1>3, <1>7, <1>8, <1>9, <1>10 DEF TypeOK
<1>12. a \o b = rest
  <2> DEFINE c == a \o b
  <2>1. /\ c \in Seq(Byte) /\ Len(c) = Len(a) + Len(b)
        /\ \A i \in 1..Len(a) : c[i] = a[i]
        /\ \A i \in 1..Len(b) : c[Len(a) + i] = b[i]
    <3>1. a \in Seq(Byte) /\ b \in Seq(Byte)
      BY <1>6, <1>7
    <3> QED
      BY <3>1, Joined
  <2> HIDE DEF c
  <2>2. Len(c) = Len(rest)
    BY <1>4, <1>5, <1>6, <1>7, <2>1
  <2>3. ASSUME NEW i \in 1..Len(c)
        PROVE  c[i] = rest[i]
    <3>1. CASE i <= n
      <4>1. i \in 1..n
        BY <2>2, <1>4, <1>5, <3>1
      <4> QED
        BY <1>6, <2>1, <4>1
    <3>2. CASE i > n
      <4> DEFINE j == i - n
      <4>1. j \in 1..Len(b) /\ j \in 1..Len(rest) - n /\ n + j = i
        <5> DEFINE l == Len(rest)
        <5>1. l \in Nat /\ n \in Nat /\ n <= l /\ i \in 1..l /\ i > n /\ Len(b) = l - n
          BY <1>4, <1>5, <1>7, <2>2, <3>2
        <5> HIDE DEF l
        <5>2. j \in 1..l - n /\ n + j = i
          BY <5>1
        <5> QED
          BY <5>1, <5>2 DEF l
      <4> HIDE DEF j
      <4>2. c[n + j] = b[j] /\ b[j] = rest[n + j]
        BY <1>6, <1>7, <2>1, <4>1
      <4> QED
        BY <4>1, <4>2
    <3> QED
      BY <1>4, <1>5, <2>2, <3>1, <3>2
  <2>4. c = rest
    BY <1>4, <2>1, <2>2, <2>3, SeqEqual
  <2> QED
    BY <2>4 DEF c
<1>13. down' \o rest' = down \o rest
  <2>1. (down \o a) \o b = down \o (a \o b)
    <3>1. down \in Seq(Byte) /\ a \in Seq(Byte) /\ b \in Seq(Byte)
      BY <1>4, <1>6, <1>7
    <3> QED
      BY <3>1, ConcatAssociative
  <2> QED
    BY <1>8, <1>12, <2>1
<1>14. RequestsInv'
  BY <1>1, <1>2, <1>3, RequestsSame
<1>15. RepliesInv'
  BY <1>1, <1>3, <1>13, RepliesSame
<1> QED
  BY <1>11, <1>14, <1>15 DEF StreamsInv

\* What the client prints of a package that a read has whole: its payload first.
LEMMA ShownBegins ==
    ASSUME NEW T, NEW at, NEW msgs, Stream(T, at, msgs),
           NEW data, NEW r, Window(data, T, r),
           NEW i \in 1..Len(msgs), r < at[i], at[i + 1] <= r + Len(data) + 1,
           NEW pos \in Int, r + pos = at[i] + 6
    PROVE  /\ CString(Cut(data, pos - 1)) \in Seq(Byte)
           /\ SameReply(CString(Cut(data, pos - 1)), msgs[i].payload)
<1> DEFINE n == Len(data)
           m == msgs[i]
           l == Len(m.payload)
           s == Cut(data, pos - 1)
           text == CString(s)
           line == m.payload \o <<END>>
           a == at[i]
<1>1. /\ data \in Seq(Byte) /\ r \in Nat /\ n \in Nat
      /\ \A j \in 1..n : data[j] = T[r + j]
  BY DEF Window
<1>2. m \in Msg /\ PackageAt(T, a, m) /\ at[i + 1] = a + l + 7 /\ a \in Nat
  <2>1. msgs \in Seq(Msg) /\ Len(msgs) \in Nat /\ at \in [1..Len(msgs) + 1 -> Nat]
    BY DEF Stream
  <2>2. m \in Msg /\ i \in 1..Len(msgs) + 1
    BY <2>1, ElementOfSeq
  <2> QED
    BY <2>1, <2>2 DEF Stream
<1>3. m.payload \in Seq(Byte) /\ l \in Nat /\ \A j \in 1..l : m.payload[j] # 0
  BY <1>2, MsgFits DEF Fits
<1>4. /\ \A j \in 1..l : T[a + 5 + j] = m.payload[j]
      /\ T[a + 6 + l] = END
  BY <1>2 DEF PackageAt
<1>5. /\ pos - 1 \in 0..n /\ pos + l <= n /\ r + pos = a + 6 /\ pos \in Nat /\ 1 <= pos
  <2>1. a + l + 7 <= r + n + 1 /\ r < a /\ r + pos = a + 6
    BY <1>2
  <2>2. r \in Nat /\ n \in Nat /\ l \in Nat /\ a \in Nat
    BY <1>1, <1>2, <1>3
  <2>3. pos \in Int
    OBVIOUS
  <2> HIDE DEF a, l, n, m
  <2>4. pos \in Nat /\ 1 <= pos
    BY SMT, <2>1, <2>2, <2>3
  <2>5. pos + l <= n /\ pos - 1 \in 0..n
    BY SMT, <2>1, <2>2, <2>3, <2>4
  <2> QED
    BY <2>1, <2>4, <2>5
<1>6. /\ s \in Seq(Byte) /\ Len(s) = n - (pos - 1)
      /\ \A j \in 1..n - (pos - 1) : s[j] = data[pos - 1 + j]
  <2> DEFINE d == pos - 1
  <2>1. d \in 0..Len(data) /\ data \in Seq(Byte)
    BY <1>1, <1>5
  <2> HIDE DEF d
  <2>2. /\ Cut(data, d) \in Seq(Byte) /\ Len(Cut(data, d)) = Len(data) - d
        /\ \A j \in 1..Len(data) - d : Cut(data, d)[j] = data[d + j]
    BY <2>1, CutElements
  <2> QED
    BY <2>2 DEF d
<1>7. /\ line \in Seq(Byte) /\ Len(line) = l + 1
      /\ \A j \in 1..l : line[j] = m.payload[j]
      /\ line[l + 1] = END
  <2>1. <<END>> \in Seq(Byte) /\ Len(<<END>>) = 1 /\ <<END>>[1] = END /\ 1 \in 1..Len(<<END>>)
    BY Constants
  <2>2. /\ line \in Seq(Byte) /\ Len(line) = l + Len(<<END>>)
        /\ \A j \in 1..l : line[j] = m.payload[j]
        /\ line[l + 1] = <<END>>[1]
    BY <1>3, <2>1, Joined
  <2> QED
    BY <2>1, <2>2
<1> HIDE DEF s, line, a, l, n
<1>8. \A j \in 1..l + 1 : s[j] = line[j]
  <2> SUFFICES ASSUME NEW j \in 1..l + 1
               PROVE  s[j] = line[j]
    OBVIOUS
  <2>1. j \in 1..n - (pos - 1) /\ pos - 1 + j \in 1..n /\ r + (pos - 1 + j) = a + 5 + j
    BY <1>1, <1>2, <1>3, <1>5
  <2>2. s[j] = T[a + 5 + j]
    BY <1>1, <1>6, <2>1
  <2>3. CASE j = l + 1
    <3>1. a + 5 + j = a + 6 + l
      BY <1>2, <1>3, <2>3
    <3> QED
      BY <1>4, <1>7, <2>2, <2>3, <3>1
  <2>4. CASE j # l + 1
    <3>1. j \in 1..l
      BY <1>3, <2>4
    <3> QED
      BY <1>4, <1>7, <2>2, <3>1
  <2> QED
    BY <2>3, <2>4
<1>9. \A j \in 1..l + 1 : line[j] # 0
  <2> SUFFICES ASSUME NEW j \in 1..l + 1
               PROVE  line[j] # 0
    OBVIOUS
  <2>1. CASE j = l + 1
    BY <1>7, <2>1, Constants
  <2>2. CASE j \in 1..l
    BY <1>3, <1>7, <2>2
  <2> QED
    BY <1>3, <2>1, <2>2
<1>10. l + 1 \in 1..Len(s) /\ Len(s) \in Nat
  BY <1>1, <1>3, <1>5, <1>6
<1>11. PICK last \in l + 1..Len(s) : text = SubSeq(s, 1, last)
  <2>1. \A j \in 1..l + 1 : s[j] # 0
    BY <1>8, <1>9
  <2> QED
    BY <1>6, <1>10, <2>1, CStringBegins
<1>12. last \in 0..Len(s) /\ l + 1 <= last /\ last \in Nat
  BY <1>3, <1>10
<1>13. /\ text \in Seq(Byte) /\ Len(text) = last
       /\ \A j \in 1..last : text[j] = s[j]
  BY <1>6, <1>11, <1>12, TakeElements
<1> HIDE DEF text
<1>14. SubSeq(line, 1, l + 1) = SubSeq(text, 1, l + 1)
  <2> DEFINE u == SubSeq(line, 1, l + 1)
             v == SubSeq(text, 1, l + 1)
  <2>1. l + 1 \in 0..Len(line) /\ l + 1 \in 0..Len(text)
    BY <1>3, <1>7, <1>12, <1>13
  <2>2. u \in Seq(Byte) /\ Len(u) = l + 1 /\ \A j \in 1..l + 1 : u[j] = line[j]
    BY <1>7, <2>1, TakeElements
  <2>3. v \in Seq(Byte) /\ Len(v) = l + 1 /\ \A j \in 1..l + 1 : v[j] = text[j]
    BY <1>13, <2>1, TakeElements
  <2> HIDE DEF u, v
  <2>4. \A j \in 1..l + 1 : j \in 1..last
    BY <1>3, <1>12
  <2>5. \A j \in 1..Len(u) : u[j] = v[j]
    BY <1>8, <1>13, <2>2, <2>3, <2>4
  <2>6. u = v
    BY <2>2, <2>3, <2>5, SeqEqual
  <2> QED
    BY <2>6 DEF u, v
<1>15. IsPrefix(line, text)
  BY <1>7, <1>12, <1>13, <1>14 DEF IsPrefix
<1> QED
  BY <1>13, <1>15 DEF SameReply, line, text, s

\* EpollWorker.cpp, parse_sockpackage: what a read finds is the next request, or a
\* later one, or nothing.
LEMMA StreamsServerReads ==
    ASSUME StreamsInv, ServerReads
    PROVE  StreamsInv'
<1>1. TypeOK /\ RequestsInv /\ RepliesInv
  BY DEF StreamsInv
<1>2. PICK n :
         /\ n \in Pieces(Least(MaxBuffer, Len(up)), "requests cut")
         /\ up' = Cut(up, n)
         /\ server' = IF parse_sockpackage(SubSeq(up, 1, n)) = {} THEN "stuck" ELSE "busy"
         /\ handled' = handled \o SetToSeq(parse_sockpackage(SubSeq(up, 1, n)))
  BY DEF ServerReads
<1>3. /\ delivery' = delivery /\ client' = client /\ down' = down /\ rest' = rest
      /\ active' = active /\ shown' = shown /\ sent' = sent /\ answers' = answers
      /\ server = "idle"
  BY DEF ServerReads
<1>4. up \in Seq(Byte)
  BY <1>1 DEF TypeOK
<1>5. n \in 0..Len(up)
  <2>1. n \in Pieces(Least(MaxBuffer, Len(up)), "requests cut")
    BY <1>2
  <2>2. MaxBuffer \in Nat
    BY Constants
  <2> QED
    BY <1>4, <2>1, <2>2, PieceOf
<1> DEFINE data == SubSeq(up, 1, n)
           found == parse_sockpackage(data)
<1>6. up' \in Seq(Byte)
  BY <1>2, <1>4, <1>5, CutElements
<1>7. TypeOK'
  <2>1. server' \in {"stuck", "busy"}
    BY <1>2
  <2> QED
    BY <1>1, <1>3, <1>6, <2>1 DEF TypeOK
<1>8. /\ sent \in Seq(Request) /\ handled \in Seq(Msg)
  BY <1>1, Zenon DEF RequestsInv
<1>9. PICK T, at, r, f : /\ Received(T, at, Requests, up, r, f, handled)
                         /\ \A i \in DOMAIN handled : handled[i] = Requests[f[i]]
  BY <1>1, Zenon DEF RequestsInv
<1>10. /\ Window(data, T, r) /\ Len(data) = n
       /\ Received(T, at, Requests, up', r + n, f, handled)
  <2>1. Received(T, at, Requests, up, r, f, handled)
    BY <1>9
  <2>2. up' = Cut(up, n)
    BY <1>2
  <2>3. /\ Window(data, T, r) /\ Len(data) = n
        /\ Received(T, at, Requests, Cut(up, n), r + n, f, handled)
    BY <1>5, <2>1, ReceivedRead
  <2> QED
    BY <2>2, <2>3
<1>11. Stream(T, at, Requests) /\ Requests \in Seq(Msg)
  BY <1>9, Zenon DEF Received, Stream
<1>12. Requests' = Requests
  BY <1>3 DEF Requests
<1>13. server' = (IF found = {} THEN "stuck" ELSE "busy")
       /\ handled' = handled \o SetToSeq(found)
  BY <1>2
<1> HIDE DEF found, data
<1>14. ASSUME found = {}
       PROVE  RequestsInv'
  <2>1. handled' = handled /\ server' = "stuck"
    BY <1>8, <1>13, <1>14, OneOrNone, ConcatEmptySeq
  <2>2. \E U, pos, t, g : /\ Received(U, pos, Requests', up', t, g, handled')
                          /\ \A i \in DOMAIN handled' : handled'[i] = Requests'[g[i]]
    <3> WITNESS T, at, r + n, f
    <3> QED
      BY <1>9, <1>10, <1>12, <2>1
  <2> QED
    BY <1>3, <1>8, <2>1, <2>2, Zenon DEF RequestsInv
<1>15. ASSUME found # {}
       PROVE  RequestsInv'
  <2>1. PICK pkg : pkg \in found
    BY <1>15
  <2>2. /\ found = {pkg}
        /\ \E i \in 1..Len(Requests) :
              /\ pkg = Requests[i]
              /\ r < at[i] /\ at[i + 1] <= r + n + 1
    BY <1>10, <1>11, <2>1, ParsedIsPackage DEF found
  <2>3. PICK i \in 1..Len(Requests) :
              /\ pkg = Requests[i]
              /\ r < at[i] /\ at[i + 1] <= r + n + 1
    BY <2>2
  <2>4. pkg \in Msg
    BY <1>11, <2>3, ElementOfSeq
  <2>5. handled' = Append(handled, pkg)
    <3>1. handled' = handled \o <<pkg>>
      BY <1>13, <2>2, OneOrNone
    <3> QED
      BY <1>8, <2>4, <3>1, AppendIsConcat
  <2>6. PICK g : /\ Received(T, at, Requests, Cut(up, n), r + n, g, Append(handled, pkg))
                 /\ g[Len(handled) + 1] = i
                 /\ \A j \in DOMAIN handled : g[j] = f[j]
    BY <1>5, <1>8, <1>9, <2>3, <2>4, ReceivedOne
  <2>7. /\ handled' \in Seq(Msg) /\ handled' # <<>>
        /\ DOMAIN handled' = (DOMAIN handled) \union {Len(handled) + 1}
        /\ handled'[Len(handled) + 1] = pkg
        /\ \A j \in DOMAIN handled : handled'[j] = handled[j]
    BY <1>8, <2>4, <2>5
  <2>8. \A j \in DOMAIN handled' : handled'[j] = Requests[g[j]]
    BY <1>9, <2>3, <2>6, <2>7
  <2>9. \E U, pos, t, h : /\ Received(U, pos, Requests', up', t, h, handled')
                          /\ \A j \in DOMAIN handled' : handled'[j] = Requests'[h[j]]
    <3> WITNESS T, at, r + n, g
    <3> QED
      BY <1>2, <1>12, <2>5, <2>6, <2>8
  <2> QED
    BY <1>3, <1>8, <2>7, <2>9, Zenon DEF RequestsInv
<1>16. RepliesInv'
  <2>1. client # "gone" \/ client' = "gone"
    BY <1>3
  <2> QED
    BY <1>1, <1>3, <2>1, RepliesSame
<1> QED
  BY <1>7, <1>14, <1>15, <1>16 DEF StreamsInv

\* A piece of a string is a piece of that string with another after it.
LEMMA PieceOfJoined ==
    ASSUME NEW S, NEW s \in Seq(S), NEW t \in Seq(S), NEW n \in 0..Len(s)
    PROVE  /\ n \in 0..Len(s \o t)
           /\ SubSeq(s \o t, 1, n) = SubSeq(s, 1, n)
           /\ Cut(s \o t, n) = Cut(s, n) \o t
<1> DEFINE u == s \o t
           a == SubSeq(u, 1, n)
           b == SubSeq(s, 1, n)
           c == Cut(u, n)
           d == Cut(s, n)
           e == d \o t
           l == Len(s)
           k == Len(t)
<1>1. /\ u \in Seq(S) /\ Len(u) = l + k
      /\ \A i \in 1..l : u[i] = s[i]
      /\ \A i \in 1..k : u[l + i] = t[i]
  BY Joined
<1>2. l \in Nat /\ k \in Nat /\ n \in Nat /\ n <= l
  OBVIOUS
<1> HIDE DEF u
<1>3. n \in 0..Len(u)
  <2> HIDE DEF l, k
  <2> QED
    BY <1>1, <1>2
<1>4. /\ a \in Seq(S) /\ Len(a) = n /\ \A i \in 1..n : a[i] = u[i]
      /\ b \in Seq(S) /\ Len(b) = n /\ \A i \in 1..n : b[i] = s[i]
  BY <1>1, <1>3, TakeElements
<1>5. /\ c \in Seq(S) /\ Len(c) = Len(u) - n /\ \A i \in 1..Len(u) - n : c[i] = u[n + i]
      /\ d \in Seq(S) /\ Len(d) = l - n /\ \A i \in 1..l - n : d[i] = s[n + i]
  BY <1>1, <1>3, CutElements
<1> HIDE DEF a, b, c, d
<1>6. /\ e \in Seq(S) /\ Len(e) = (l - n) + k
      /\ \A i \in 1..l - n : e[i] = d[i]
      /\ \A i \in 1..k : e[(l - n) + i] = t[i]
  <2>1. d \in Seq(S) /\ t \in Seq(S) /\ Len(d) = l - n
    BY <1>5
  <2>2. /\ e \in Seq(S) /\ Len(e) = Len(d) + k
        /\ \A i \in 1..Len(d) : e[i] = d[i]
        /\ \A i \in 1..k : e[Len(d) + i] = t[i]
    <3>1. e \in Seq(S) /\ Len(e) = Len(d) + Len(t)
      BY <2>1, ConcatProperties
    <3>2. \A i \in 1..Len(d) : e[i] = d[i]
      BY <2>1, Joined
    <3>3. \A i \in 1..Len(t) : e[Len(d) + i] = t[i]
      BY <2>1, Joined
    <3> QED
      BY <3>1, <3>2, <3>3
  <2> QED
    BY <2>1, <2>2
<1> HIDE DEF e, l, k
<1>7. a = b
  <2>1. \A i \in 1..n : i \in 1..l
    BY <1>2
  <2>2. \A i \in 1..Len(a) : a[i] = b[i]
    BY <1>1, <1>4, <2>1
  <2> QED
    BY <1>4, <2>2, SeqEqual
<1>8. c = e
  <2>1. Len(c) = Len(e) /\ Len(c) = l + k - n
    <3>1. Len(c) = (l + k) - n /\ Len(e) = (l - n) + k
      BY <1>1, <1>5, <1>6
    <3> QED
      BY <1>2, <3>1
  <2>2. ASSUME NEW i \in 1..Len(c)
        PROVE  c[i] = e[i]
    <3>1. c[i] = u[n + i] /\ i \in Nat /\ 1 <= i /\ i <= l + k - n
      <4>1. i \in 1..l + k - n /\ Len(u) - n = l + k - n
        <5>1. Len(u) = l + k
          BY <1>1
        <5>2. Len(u) - n = l + k - n
          BY <1>2, <5>1
        <5>3. i \in 1..l + k - n
          BY <2>1
        <5> QED
          BY <5>2, <5>3
      <4>2. c[i] = u[n + i]
        BY <1>5, <4>1
      <4> QED
        BY <1>2, <4>1, <4>2
    <3>2. CASE i <= l - n
      <4>1. i \in 1..l - n /\ n + i \in 1..l
        BY <1>2, <3>1, <3>2
      <4> QED
        BY <1>1, <1>5, <1>6, <3>1, <4>1
    <3>3. CASE i > l - n
      <4> DEFINE j == i - (l - n)
      <4>1. j \in 1..k /\ l + j = n + i /\ (l - n) + j = i
        BY <1>2, <3>1, <3>3
      <4> HIDE DEF j
      <4> QED
        BY <1>1, <1>6, <3>1, <4>1
    <3> QED
      BY <1>2, <3>1, <3>2, <3>3
  <2> QED
    BY <1>5, <1>6, <2>1, <2>2, SeqEqual
<1> QED
  BY <1>3, <1>7, <1>8 DEF a, b, c, d, e, u

\* What the receiving thread has printed once it has read msg.
ShownAfter(got, msg) ==
    LET pos == get_start_payload(msg)
    IN  got \o [i \in 1..Cardinality(pos) |->
                  CString(Cut(msg, (CHOOSE p \in pos : TRUE) - 1))]

\* What the console has printed after a read: as before, or one text more.
LEMMA ShownAfterIs ==
    ASSUME NEW got \in Seq(Seq(Byte)), NEW msg
    PROVE  /\ get_start_payload(msg) = {} => ShownAfter(got, msg) = got
           /\ \A pos : /\ get_start_payload(msg) = {pos}
                       /\ CString(Cut(msg, pos - 1)) \in Seq(Byte)
                       => ShownAfter(got, msg) = Append(got, CString(Cut(msg, pos - 1)))
<1> DEFINE found == get_start_payload(msg)
           Text0(x) == CString(Cut(msg, x - 1))
<1>1. ShownAfter(got, msg) =
        got \o [i \in 1..Cardinality(found) |-> Text0(CHOOSE p \in found : TRUE)]
  BY DEF ShownAfter
<1> HIDE DEF found, Text0
<1>2. ASSUME found = {}
      PROVE  ShownAfter(got, msg) = got
  <2>1. Cardinality(found) = 0 /\ 1..0 = {}
    BY <1>2, FS_EmptySet
  <2>2. [i \in 1..Cardinality(found) |-> Text0(CHOOSE p \in found : TRUE)] = <<>>
    BY <2>1
  <2> QED
    BY <1>1, <2>2, ConcatEmptySeq
<1>3. ASSUME NEW pos, found = {pos}, Text0(pos) \in Seq(Byte)
      PROVE  ShownAfter(got, msg) = Append(got, Text0(pos))
  <2>1. Cardinality(found) = 1 /\ (CHOOSE p \in found : TRUE) = pos
    BY <1>3, FS_Singleton
  <2>2. [i \in 1..Cardinality(found) |-> Text0(CHOOSE p \in found : TRUE)] = <<Text0(pos)>>
    <3>1. \A x : [i \in 1..1 |-> x] = <<x>>
      OBVIOUS
    <3>2. [i \in 1..Cardinality(found) |-> Text0(CHOOSE p \in found : TRUE)]
            = [i \in 1..1 |-> Text0(pos)]
      <4> DEFINE c == CHOOSE p \in found : TRUE
                 card == Cardinality(found)
      <4>1. card = 1 /\ c = pos
        BY <2>1
      <4> HIDE DEF c, card
      <4>2. [i \in 1..card |-> Text0(c)] = [i \in 1..1 |-> Text0(pos)]
        BY Zenon, <4>1
      <4> QED
        BY <4>2 DEF c, card
    <3> QED
      BY <3>1, <3>2
  <2> QED
    BY <1>1, <1>3, <2>2, AppendIsConcat
<1> QED
  BY <1>2, <1>3 DEF found, Text0

\* One read of the client.
LEMMA RepliesRead ==
    ASSUME NEW stream, NEW got \in Seq(Seq(Byte)), NEW made \in Seq(Seq(Chars)),
           Replies(stream, got, made), NEW n \in 0..Len(stream)
    PROVE  LET more == ShownAfter(got, SubSeq(stream, 1, n))
           IN  /\ more \in Seq(Seq(Byte))
               /\ Replies(Cut(stream, n), more, made)
<1> DEFINE msg == SubSeq(stream, 1, n)
           found == get_start_payload(msg)
           more == ShownAfter(got, msg)
           left == Cut(stream, n)
<1>1. PICK T, at, msgs, r, f :
         /\ Received(T, at, msgs, stream, r, f, got)
         /\ Len(msgs) = Len(made)
         /\ \A i \in DOMAIN made : msgs[i].payload = made[i]
         /\ \A i \in DOMAIN got : SameReply(got[i], made[f[i]])
  BY Zenon DEF Replies, ShownOf
<1>2. /\ Window(msg, T, r) /\ Len(msg) = n
      /\ Received(T, at, msgs, left, r + n, f, got)
  <2>1. Received(T, at, msgs, stream, r, f, got)
    BY <1>1
  <2> QED
    BY <2>1, ReceivedRead
<1>3. Stream(T, at, msgs)
  BY <1>1, Zenon DEF Received
<1>4. DOMAIN made = 1..Len(made)
  OBVIOUS
<1> HIDE DEF msg, left, found
<1>5. ASSUME found = {}
      PROVE  more \in Seq(Seq(Byte)) /\ Replies(left, more, made)
  <2>1. more = got
    BY <1>5, ShownAfterIs DEF found
  <2> HIDE DEF more
  <2>2. ShownOf(T, at, msgs, r + n, f, left, got, made)
    BY <1>1, <1>2, Zenon DEF ShownOf
  <2>3. Replies(left, got, made)
    BY <2>2, Zenon DEF Replies
  <2> QED
    BY <2>1, <2>3
<1>6. ASSUME found # {}
      PROVE  more \in Seq(Seq(Byte)) /\ Replies(left, more, made)
  <2>1. PICK pos : pos \in found
    BY <1>6
  <2>2. /\ found = {pos}
        /\ \E i \in 1..Len(msgs) :
              /\ r < at[i] /\ at[i + 1] <= r + Len(msg) + 1
              /\ r + pos = at[i] + 6
    BY <1>2, <1>3, <2>1, FoundIsPackage DEF found
  <2>3. PICK i \in 1..Len(msgs) :
              /\ r < at[i] /\ at[i + 1] <= r + Len(msg) + 1
              /\ r + pos = at[i] + 6
    BY <2>2
  <2>4. pos \in Int
    <3>1. pos \in {q + 6 : q \in StartAt(msg)}
      BY <2>1 DEF found, get_start_payload
    <3>2. msg \in Seq(Byte)
      BY <1>2 DEF Window
    <3> QED
      BY <3>1, <3>2, StartFound
  <2> DEFINE text == CString(Cut(msg, pos - 1))
  <2>5. text \in Seq(Byte) /\ SameReply(text, msgs[i].payload)
    BY <1>2, <1>3, <2>3, <2>4, ShownBegins
  <2>6. more = Append(got, text)
    BY <2>2, <2>5, ShownAfterIs DEF found
  <2> HIDE DEF text, more
  <2>7. at[i + 1] <= r + n + 1
    BY <1>2, <2>3
  <2>8. PICK g : /\ Received(T, at, msgs, Cut(stream, n), r + n, g, Append(got, text))
                 /\ g[Len(got) + 1] = i
                 /\ \A j \in DOMAIN got : g[j] = f[j]
    BY <1>1, <2>3, <2>5, <2>7, ReceivedOne
  <2>9. /\ more \in Seq(Seq(Byte))
        /\ DOMAIN more = (DOMAIN got) \union {Len(got) + 1}
        /\ more[Len(got) + 1] = text
        /\ \A j \in DOMAIN got : more[j] = got[j]
    BY <2>5, <2>6
  <2>10. \A j \in DOMAIN more : SameReply(more[j], made[g[j]])
    <3>1. msgs[i].payload = made[i]
      BY <1>1, <1>4
    <3> QED
      BY <1>1, <2>5, <2>8, <2>9, <3>1
  <2>11. Received(T, at, msgs, left, r + n, g, more)
    BY <2>6, <2>8 DEF left
  <2>12. ShownOf(T, at, msgs, r + n, g, left, more, made)
    BY <1>1, <2>10, <2>11, Zenon DEF ShownOf
  <2>13. Replies(left, more, made)
    BY <2>12, Zenon DEF Replies
  <2> QED
    BY <2>9, <2>13
<1> QED
  BY <1>5, <1>6 DEF msg, left

\* RecvReads with a name for what it shows.
LEMMA RecvReadsIs ==
    ASSUME RecvReads
    PROVE  \E n : /\ n \in Pieces(Least(MaxBuffer, Len(down)), "replies cut")
                  /\ down' = Cut(down, n)
                  /\ shown' = ShownAfter(shown, SubSeq(down, 1, n))
<1> DEFINE most == Least(MaxBuffer, Len(down))
<1>1. \E n \in Pieces(most, "replies cut") :
         LET msg == SubSeq(down, 1, n)
             pos == get_start_payload(msg)
         IN  /\ down' = Cut(down, n)
             /\ shown' = shown \o [i \in 1..Cardinality(pos) |->
                            CString(Cut(msg, (CHOOSE p \in pos : TRUE) - 1))]
  BY DEF RecvReads
<1> HIDE DEF most
<1>2. PICK n \in Pieces(most, "replies cut") :
         LET msg == SubSeq(down, 1, n)
             pos == get_start_payload(msg)
         IN  /\ down' = Cut(down, n)
             /\ shown' = shown \o [i \in 1..Cardinality(pos) |->
                            CString(Cut(msg, (CHOOSE p \in pos : TRUE) - 1))]
  BY <1>1
<1>3. down' = Cut(down, n)
  BY <1>2
<1>4. shown' = ShownAfter(shown, SubSeq(down, 1, n))
  BY <1>2 DEF ShownAfter
<1>5. n \in Pieces(Least(MaxBuffer, Len(down)), "replies cut")
  BY DEF most
<1> QED
  BY <1>3, <1>4, <1>5

\* TCPClient.cpp, recv_loop: what a read prints is the text of the next reply, or of
\* a later one, or nothing.
LEMMA StreamsRecvReads ==
    ASSUME StreamsInv, RecvReads
    PROVE  StreamsInv'
<1>1. TypeOK /\ RequestsInv /\ RepliesInv
  BY DEF StreamsInv
<1>2. PICK n :
         /\ n \in Pieces(Least(MaxBuffer, Len(down)), "replies cut")
         /\ down' = Cut(down, n)
         /\ shown' = ShownAfter(shown, SubSeq(down, 1, n))
  BY RecvReadsIs
<1>3. /\ delivery' = delivery /\ client' = client /\ up' = up /\ server' = server
      /\ rest' = rest /\ active' = active /\ sent' = sent /\ handled' = handled
      /\ answers' = answers /\ client = "up"
  BY DEF RecvReads, history
<1>4. down \in Seq(Byte) /\ rest \in Seq(Byte) /\ Len(down) <= Capacity
  BY <1>1 DEF TypeOK
<1>5. n \in 0..Len(down)
  <2>1. n \in Pieces(Least(MaxBuffer, Len(down)), "replies cut")
    BY <1>2
  <2>2. MaxBuffer \in Nat
    BY Constants
  <2> QED
    BY <1>4, <2>1, <2>2, PieceOf
<1>6. down' = Cut(down, n) /\ shown' = ShownAfter(shown, SubSeq(down, 1, n))
  BY <1>2
<1>7. down' \in Seq(Byte) /\ Len(down') = Len(down) - n
  BY <1>4, <1>5, <1>6, CutElements
<1>8. TypeOK'
  <2>1. Len(down') <= Capacity
    <3>1. Capacity \in Nat
      BY Zenon, WireAssumption DEF WireAssumption
    <3> QED
      BY <1>4, <1>5, <1>7, <3>1
  <2> QED
    BY <1>1, <1>3, <1>7, <2>1 DEF TypeOK
<1>9. RequestsInv'
  BY <1>1, <1>3, RequestsSame
<1>10. /\ answers \in Seq(Seq(Chars)) /\ shown \in Seq(Seq(Byte))
       /\ Replies(down \o rest, shown, answers)
  BY <1>1, <1>3 DEF RepliesInv
<1>11. /\ n \in 0..Len(down \o rest)
       /\ SubSeq(down \o rest, 1, n) = SubSeq(down, 1, n)
       /\ Cut(down \o rest, n) = Cut(down, n) \o rest
  BY <1>4, <1>5, PieceOfJoined
<1>12. /\ shown' \in Seq(Seq(Byte))
       /\ Replies(Cut(down \o rest, n), shown', answers)
  <2> DEFINE stream == down \o rest
  <2>1. Replies(stream, shown, answers) /\ n \in 0..Len(stream)
    BY <1>10, <1>11
  <2> HIDE DEF stream
  <2>2. /\ ShownAfter(shown, SubSeq(stream, 1, n)) \in Seq(Seq(Byte))
        /\ Replies(Cut(stream, n), ShownAfter(shown, SubSeq(stream, 1, n)), answers)
    BY <1>10, <2>1, RepliesRead
  <2>3. SubSeq(stream, 1, n) = SubSeq(down, 1, n)
    BY <1>11 DEF stream
  <2>4. shown' = ShownAfter(shown, SubSeq(stream, 1, n))
    BY <1>6, <2>3
  <2> QED
    BY <2>2, <2>4 DEF stream
<1>13. Replies(down' \o rest', shown', answers')
  BY <1>3, <1>6, <1>11, <1>12
<1>14. RepliesInv'
  BY <1>3, <1>10, <1>12, <1>13 DEF RepliesInv
<1> QED
  BY <1>8, <1>9, <1>14 DEF StreamsInv

-----------------------------------------------------------------------------

\* Every step keeps the invariant.
LEMMA StreamsNext ==
    ASSUME StreamsInv, [Next]_vars
    PROVE  StreamsInv'
<1>1. CASE User
  BY <1>1, StreamsUserSends DEF User
<1>2. CASE RecvReads
  BY <1>2, StreamsRecvReads
<1>3. CASE ClientGoesDeaf \/ ClientLeaves \/ UNCHANGED vars
  BY <1>3, StreamsOthers
<1>4. CASE Server
  BY <1>4, StreamsServerReads, StreamsServerHandles, StreamsServerWrites, StreamsOthers
     DEF Server
<1> QED
  BY <1>1, <1>2, <1>3, <1>4 DEF Next

\* The streams of packages are cut by reads and writes, and never mixed up.
LEMMA StreamsAlways == Spec => []StreamsInv
<1>1. Init => StreamsInv
  BY StreamsInit
<1>2. StreamsInv /\ [Next]_vars => StreamsInv'
  BY StreamsNext
<1> QED
  BY <1>1, <1>2, PTL DEF Spec

\* Wire.tla, TypeOK: in particular what SendData still has to write is never more
\* than a buffer, and there is some exactly while it writes.
THEOREM TypeCorrect == Spec => []TypeOK
<1>1. StreamsInv => TypeOK
  BY DEF StreamsInv
<1> QED
  BY <1>1, StreamsAlways, PTL

\* EpollWorker.cpp, parse_sockpackage, and TCPClient.cpp, get_start_payload, on a
\* stream cut anywhere: no bytes of a payload or of two packages are ever taken
\* for a package, so that what is handled was sent and what is shown was answered.
THEOREM NothingIsInvented == Spec => []NothingInvented
<1>1. StreamsInv => NothingInvented
  <2> SUFFICES ASSUME StreamsInv
               PROVE  NothingInvented
    OBVIOUS
  <2>1. RequestsInv /\ RepliesInv
    BY DEF StreamsInv
  <2>2. Embeds(shown, answers, SameReply)
    BY <2>1, RepliesEmbed
  <2>3. sent \in Seq(Request)
    BY <2>1, Zenon DEF RequestsInv
  <2>4. PICK T, at, r, f : /\ Received(T, at, Requests, up, r, f, handled)
                           /\ \A i \in DOMAIN handled : handled[i] = Requests[f[i]]
    BY <2>1, Zenon DEF RequestsInv
  <2>5. /\ f \in [DOMAIN handled -> 1..Len(Requests)]
        /\ \A i, j \in DOMAIN handled : i < j => f[i] < f[j]
    BY <2>4 DEF Received
  <2>6. 1..Len(Requests) = 1..Len(sent) /\ DOMAIN sent = 1..Len(sent)
    <3>1. Requests \in Seq(Msg)
      BY <2>4, Zenon DEF Received, Stream
    <3>2. DOMAIN Requests = 1..Len(sent)
      BY DEF Requests
    <3> QED
      BY <2>3, <3>1, <3>2
  <2>7. ASSUME NEW i \in DOMAIN handled
        PROVE  SameRequest(handled[i], sent[f[i]])
    <3> DEFINE s == sent[f[i]]
    <3>1. f[i] \in 1..Len(sent)
      BY <2>5, <2>6
    <3>2. s \in Request
      BY <2>3, <3>1, ElementOfSeq
    <3>3. handled[i] = MsgOf(s)
      BY <2>4, <3>1 DEF Requests
    <3> HIDE DEF s
    <3>4. s.fields \in Seq(Text)
      BY <3>2 DEF Request
    <3>5. (\A j \in DOMAIN s.fields : SEP \notin Range(s.fields[j])) =>
             getdata(Payload(s.fields)) = s.fields
      BY <3>4, FieldsComeBack
    <3>6. SameRequest(handled[i], s)
      BY <3>3, <3>5 DEF SameRequest, MsgOf
    <3> QED
      BY <3>6 DEF s
  <2>8. f \in [DOMAIN handled -> DOMAIN sent]
    BY <2>5, <2>6
  <2>9. Embeds(handled, sent, SameRequest)
    BY <2>5, <2>7, <2>8, Zenon DEF Embeds
  <2> QED
    BY <2>2, <2>9 DEF NothingInvented
<1> QED
  BY <1>1, StreamsAlways, PTL

-----------------------------------------------------------------------------
(* A user who waits for the reply before the next request. *)

\* A request is what a package carries.
LEMMA RequestMsg ==
    ASSUME NEW s \in Request
    PROVE  MsgOf(s) \in Msg
<1>1. s.cType \in Byte \ {START} /\ s.fields \in Seq(Text)
      /\ Len(Payload(s.fields)) <= MaxBuffer - Overhead
  BY DEF Request
<1>2. PICK pos : Laid(Payload(s.fields), s.fields, pos, Len(s.fields))
  BY <1>1, PayloadIsLaid
<1>3. Payload(s.fields) \in Seq(Chars)
  BY <1>2 DEF Laid
<1> QED
  BY <1>1, <1>3 DEF MsgOf, Msg

\* Without cuts a read or a write takes all it can.
LEMMA WholePieces ==
    ASSUME delivery = "whole", NEW most, NEW n,
           NEW cut \in {"requests cut", "replies cut"}, n \in Pieces(most, cut)
    PROVE  n = most /\ n # 0
  BY DEF Pieces

\* A read that is one package.
LEMMA WholePackage ==
    ASSUME NEW m \in Msg
    PROVE  LET pkg == build_package(m.cType, m.payload)
           IN  /\ pkg \in Seq(Byte) /\ pkg # <<>> /\ Len(pkg) \in Nat
               /\ Len(pkg) <= MaxBuffer
               /\ SubSeq(pkg, 1, Len(pkg)) = pkg
               /\ Cut(pkg, Len(pkg)) = <<>>
               /\ parse_sockpackage(pkg) = {m}
               /\ \A got \in Seq(Seq(Byte)) :
                     ShownAfter(got, pkg) = Append(got, m.payload \o <<END>>)
<1> DEFINE pkg == build_package(m.cType, m.payload)
           l == Len(m.payload)
           line == m.payload \o <<END>>
<1>1. /\ Fits(m.cType, m.payload) /\ m.payload \in Seq(Byte) /\ l \in Nat
      /\ l <= MaxBuffer - 7 /\ MaxBuffer \in Nat
      /\ \A i \in 1..l : m.payload[i] # 0
  <2>1. Fits(m.cType, m.payload) /\ l \in Nat /\ \A i \in 1..l : m.payload[i] # 0
    BY MsgFits
  <2> QED
    BY <2>1, Constants DEF Fits, Overhead
<1>2. pkg \in Seq(Byte) /\ Len(pkg) = l + 7
  BY PackageIsBytes
<1>3. pkg \o <<>> = pkg
  BY <1>2, ConcatEmptySeq
<1>4. <<>> \in Seq(Byte) /\ Len(<<>>) = 0
  OBVIOUS
<1>5. parse_sockpackage(pkg) = {[cType |-> m.cType, payload |-> m.payload]}
  BY <1>1, <1>3, <1>4, RoundTrip
<1>6. parse_sockpackage(pkg) = {m}
  BY <1>5 DEF Msg
<1>7. PackageThen(pkg, m.cType, m.payload, <<>>)
  BY <1>1, <1>3, <1>4, PackageBytes
<1>8. /\ pkg[1] = START /\ pkg[l + 7] = END
      /\ \A i \in 1..l : pkg[6 + i] = m.payload[i]
  BY <1>7 DEF PackageThen
<1> HIDE DEF pkg
<1>9. StartAt(pkg) = {1}
  <2>1. 1 \in 1..Len(pkg) - 7 + 1 /\ \A j \in 1..Len(pkg) - 7 + 1 : 1 <= j
    BY <1>1, <1>2
  <2>2. 1 \in StartAt(pkg)
    BY <1>8, <2>1 DEF StartAt, Overhead
  <2> QED
    BY <1>2, <2>2, StartFound
<1>10. get_start_payload(pkg) = {7}
  <2>1. get_start_payload(pkg) # {}
    BY <1>2, <1>6, DecodersAgree
  <2>2. \A x \in get_start_payload(pkg) : x = 7
    BY <1>9 DEF get_start_payload
  <2> QED
    BY <2>1, <2>2
<1> DEFINE s == Cut(pkg, 6)
<1>11. s = line
  <2>1. 6 \in 0..Len(pkg) /\ Len(pkg) - 6 = l + 1
    BY <1>1, <1>2
  <2>2. /\ s \in Seq(Byte) /\ Len(s) = l + 1
        /\ \A i \in 1..l + 1 : s[i] = pkg[6 + i]
    <3>1. /\ s \in Seq(Byte) /\ Len(s) = Len(pkg) - 6
          /\ \A i \in 1..Len(pkg) - 6 : s[i] = pkg[6 + i]
      BY <1>2, <2>1, CutElements
    <3> QED
      BY <2>1, <3>1
  <2>3. <<END>> \in Seq(Byte) /\ Len(<<END>>) = 1 /\ <<END>>[1] = END /\ 1 \in 1..Len(<<END>>)
    BY Constants
  <2>4. /\ line \in Seq(Byte) /\ Len(line) = l + Len(<<END>>)
        /\ \A i \in 1..l : line[i] = m.payload[i]
        /\ line[l + 1] = <<END>>[1]
    BY <1>1, <2>3, Joined
  <2> HIDE DEF s, line, l
  <2>5. \A i \in 1..l + 1 : s[i] = line[i]
    <3>1. \A i \in 1..l + 1 : i = l + 1 \/ i \in 1..l
      BY <1>1
    <3>2. s[l + 1] = pkg[l + 7]
      <4>1. l + 1 \in 1..l + 1 /\ 6 + (l + 1) = l + 7
        BY <1>1
      <4> QED
        BY <2>2, <4>1
    <3>3. \A i \in 1..l : s[i] = m.payload[i]
      <4>1. \A i \in 1..l : i \in 1..l + 1
        BY <1>1
      <4> QED
        BY <1>8, <2>2, <4>1
    <3> QED
      BY <1>8, <2>3, <2>4, <3>1, <3>2, <3>3
  <2> QED
    BY <2>2, <2>3, <2>4, <2>5, SeqEqual
<1>12. /\ line \in Seq(Byte) /\ Len(line) = l + 1
       /\ \A i \in 1..l + 1 : line[i] # 0
  <2>1. <<END>> \in Seq(Byte) /\ Len(<<END>>) = 1 /\ <<END>>[1] = END /\ 1 \in 1..Len(<<END>>)
    BY Constants
  <2>2. /\ line \in Seq(Byte) /\ Len(line) = l + Len(<<END>>)
        /\ \A i \in 1..l : line[i] = m.payload[i]
        /\ line[l + 1] = <<END>>[1]
    BY <1>1, <2>1, Joined
  <2> HIDE DEF line, l
  <2>3. \A i \in 1..l + 1 : i = l + 1 \/ i \in 1..l
    BY <1>1
  <2> QED
    BY <1>1, <2>1, <2>2, <2>3, Constants
<1> HIDE DEF s, line
<1>13. CString(line) = line
  <2>1. Len(line) \in 1..Len(line) /\ Len(line) \in Nat
    BY <1>1, <1>12
  <2>2. PICK last \in Len(line)..Len(line) : CString(line) = SubSeq(line, 1, last)
    BY <1>12, <2>1, CStringBegins
  <2>3. last = Len(line)
    BY <2>1
  <2> QED
    BY <1>12, <2>2, <2>3, SubSeqFull
<1>14. ASSUME NEW got \in Seq(Seq(Byte))
       PROVE  ShownAfter(got, pkg) = Append(got, line)
  <2>1. CString(Cut(pkg, 7 - 1)) = line
    <3>1. 7 - 1 = 6
      OBVIOUS
    <3> QED
      BY <1>11, <1>13, <3>1 DEF s
  <2>2. \A pos : /\ get_start_payload(pkg) = {pos}
                  /\ CString(Cut(pkg, pos - 1)) \in Seq(Byte)
                  => ShownAfter(got, pkg) = Append(got, CString(Cut(pkg, pos - 1)))
    BY ShownAfterIs
  <2>3. CString(Cut(pkg, 7 - 1)) \in Seq(Byte)
    BY <1>12, <2>1
  <2>4. ShownAfter(got, pkg) = Append(got, CString(Cut(pkg, 7 - 1)))
    BY Zenon, <1>10, <2>2, <2>3
  <2> QED
    BY <2>1, <2>4
<1>15. SubSeq(pkg, 1, Len(pkg)) = pkg
  BY <1>2, SubSeqFull
<1>16. Cut(pkg, Len(pkg)) = <<>>
  <2> DEFINE c == Cut(pkg, Len(pkg))
  <2>1. Len(pkg) \in 0..Len(pkg)
    BY <1>1, <1>2
  <2>2. c \in Seq(Byte) /\ Len(c) = Len(pkg) - Len(pkg)
    BY <1>2, <2>1, CutElements
  <2> HIDE DEF c
  <2>3. Len(c) = 0
    BY <1>1, <1>2, <2>2
  <2>4. c = <<>>
    BY <2>2, <2>3, EmptySeq
  <2> QED
    BY <2>4 DEF c
<1>17. pkg # <<>> /\ Len(pkg) \in Nat /\ Len(pkg) <= MaxBuffer
  BY <1>1, <1>2, <1>4
<1> QED
  BY <1>2, <1>6, <1>14, <1>15, <1>16, <1>17 DEF pkg, line

\* What PatientInv says of a state whose packages and replies are as before.
LEMMA PatientSame ==
    ASSUME OneOnItsWay, UNCHANGED <<shown, answers, down, rest>>
    PROVE  OneOnItsWay'
  BY Zenon DEF OneOnItsWay

\* Nothing is on its way to a server that has handled all requests.
LEMMA NoneOnItsWay ==
    ASSUME StreamsInv, PatientRequests, up = <<>>, server = "idle"
    PROVE  Len(handled) = Len(sent)
<1>1. sent \in Seq(Request)
  BY Zenon DEF StreamsInv, RequestsInv
<1>2. sent # <<>> => up # build_package(MsgOf(Last(sent)).cType, MsgOf(Last(sent)).payload)
  <2> SUFFICES ASSUME sent # <<>>
               PROVE  up # build_package(MsgOf(Last(sent)).cType, MsgOf(Last(sent)).payload)
    OBVIOUS
  <2>1. Last(sent) \in Request
    BY <1>1 DEF Last
  <2>2. MsgOf(Last(sent)) \in Msg
    BY <2>1, RequestMsg
  <2> QED
    BY <2>2, WholePackage
<1> QED
  BY <1>2 DEF PatientRequests

\* Every step of a patient user, the client and the server keeps it.
LEMMA PatientUserSends ==
    ASSUME StreamsInv, Patient, delivery = "whole",
           NEW cmd \in Commands, NEW fields \in FieldsOf(cmd), UserSends(cmd, fields)
    PROVE  Patient'
<1> DEFINE s == [cType |-> cmd.cType, fields |-> fields]
           pkg == build_package(cmd.cType, Payload(fields))
<1>1. /\ pkg # <<>> /\ up' = up \o pkg /\ sent' = Append(sent, s)
      /\ client' = client /\ down' = down /\ server' = server
      /\ rest' = rest /\ active' = active /\ shown' = shown /\ handled' = handled
      /\ answers' = answers
      /\ \/ server = "failed"
         \/ server = "idle" /\ up = <<>> /\ down = <<>>
  BY DEF UserSends, Waited, Quiet
<1>2. s \in Request /\ MsgOf(s) \in Msg
  BY <1>1, CommandMsg
<1>3. pkg = build_package(MsgOf(s).cType, MsgOf(s).payload)
  BY DEF MsgOf
<1>4. pkg \in Seq(Byte)
  BY <1>2, <1>3, PackageIsBytes
<1>5. sent \in Seq(Request)
  BY Zenon DEF StreamsInv, RequestsInv
<1> HIDE DEF pkg, s
<1>6. sent' # <<>> /\ Len(sent') = Len(sent) + 1 /\ Last(sent') = s
  BY <1>1, <1>2, <1>5 DEF Last
<1>7. CASE server = "failed"
  <2>1. PatientRequests'
    BY <1>1, <1>7 DEF PatientRequests
  <2>2. client' = "up" => OneOnItsWay'
    BY <1>1, PatientSame DEF Patient
  <2> QED
    BY <1>1, <1>7, <2>1, <2>2 DEF Patient
<1>8. CASE server = "idle" /\ up = <<>> /\ down = <<>>
  <2>1. up' = pkg
    BY <1>1, <1>4, <1>8, ConcatEmptySeq
  <2>2. Len(handled) = Len(sent)
    BY <1>8, NoneOnItsWay DEF Patient
  <2>3. PatientRequests'
    BY <1>1, <1>3, <1>6, <1>8, <2>1, <2>2 DEF PatientRequests
  <2>4. client' = "up" => OneOnItsWay'
    BY <1>1, PatientSame DEF Patient
  <2> QED
    BY <1>1, <1>8, <2>3, <2>4 DEF Patient
<1> QED
  BY <1>1, <1>7, <1>8

\* The console reads the reply, whole.
LEMMA PatientRecvReads ==
    ASSUME StreamsInv, Patient, delivery = "whole", RecvReads
    PROVE  Patient'
<1>1. PICK n :
         /\ n \in Pieces(Least(MaxBuffer, Len(down)), "replies cut")
         /\ down' = Cut(down, n)
         /\ shown' = ShownAfter(shown, SubSeq(down, 1, n))
  BY RecvReadsIs
<1>2. /\ client' = client /\ up' = up /\ server' = server
      /\ rest' = rest /\ active' = active /\ sent' = sent /\ handled' = handled
      /\ answers' = answers /\ client = "up"
  BY DEF RecvReads, history
<1>3. n = Least(MaxBuffer, Len(down)) /\ n # 0
  <2>1. n \in Pieces(Least(MaxBuffer, Len(down)), "replies cut")
    BY <1>1
  <2> QED
    BY <2>1, WholePieces
<1>4. /\ down \in Seq(Byte) /\ shown \in Seq(Seq(Byte)) /\ answers \in Seq(Seq(Chars))
      /\ MaxBuffer \in Nat
  BY Constants DEF StreamsInv, TypeOK, RepliesInv
<1>5. down # <<>>
  <2> SUFFICES ASSUME down = <<>>
               PROVE  FALSE
    OBVIOUS
  <2>1. Len(down) = 0
    OBVIOUS
  <2> QED
    BY <1>3, <1>4, <2>1 DEF Least
<1>6. PICK k \in 0..Len(answers) :
        /\ shown = [i \in 1..k |-> answers[i] \o <<END>>]
        /\ \/ k = Len(answers) /\ down = <<>> /\ rest = <<>>
           \/ /\ k = Len(answers) - 1
              /\ \E m \in Msg :
                    /\ m.payload = Last(answers)
                    /\ \/ down = build_package(m.cType, m.payload) /\ rest = <<>>
                       \/ rest = build_package(m.cType, m.payload) /\ down = <<>>
  BY <1>2, Zenon DEF Patient, OneOnItsWay
<1>7. PICK m \in Msg :
         m.payload = Last(answers) /\ down = build_package(m.cType, m.payload)
  BY <1>5, <1>6
<1>8. k = Len(answers) - 1 /\ rest = <<>>
  BY <1>5, <1>6
<1>9. Len(down) \in Nat /\ Len(down) <= MaxBuffer
  BY <1>7, WholePackage
<1>10. n = Len(down)
  BY <1>3, <1>4, <1>9 DEF Least
<1>11. down' = <<>> /\ shown' = Append(shown, m.payload \o <<END>>)
  <2>1. SubSeq(down, 1, n) = down /\ Cut(down, n) = <<>>
    BY <1>7, <1>10, WholePackage
  <2>2. ShownAfter(shown, down) = Append(shown, m.payload \o <<END>>)
    BY <1>4, <1>7, WholePackage
  <2> QED
    BY <1>1, <2>1, <2>2
<1>12. shown' = [i \in 1..Len(answers) |-> answers[i] \o <<END>>]
  <2> DEFINE l == Len(answers)
             Line(i) == answers[i] \o <<END>>
  <2>1. l \in Nat /\ l = k + 1 /\ k \in Nat
    BY <1>4, <1>6, <1>8
  <2>2. m.payload \o <<END>> = Line(l)
    BY <1>7 DEF Last
  <2>3. shown = [i \in 1..k |-> Line(i)]
    BY <1>6
  <2> HIDE DEF l, Line
  <2>4. Append([i \in 1..k |-> Line(i)], Line(l)) = [i \in 1..k + 1 |-> Line(i)]
    BY <2>1
  <2>5. shown' = [i \in 1..l |-> Line(i)]
    BY <1>11, <2>1, <2>2, <2>3, <2>4
  <2> QED
    BY <2>5 DEF l, Line
<1>13. OneOnItsWay'
  <2>1. Len(answers) \in 0..Len(answers)
    BY <1>4
  <2>2. \E j \in 0..Len(answers') :
           /\ shown' = [i \in 1..j |-> answers'[i] \o <<END>>]
           /\ j = Len(answers') /\ down' = <<>> /\ rest' = <<>>
    BY <1>2, <1>8, <1>11, <1>12, <2>1
  <2> QED
    BY <2>2, Zenon DEF OneOnItsWay
<1>14. PatientRequests'
  BY <1>2, <1>5 DEF Patient, PatientRequests, MsgOf
<1> QED
  BY <1>2, <1>11, <1>13, <1>14 DEF Patient

\* The server reads the request, whole.
LEMMA PatientServerReads ==
    ASSUME StreamsInv, Patient, delivery = "whole", ServerReads
    PROVE  Patient'
<1>1. PICK n :
         /\ n \in Pieces(Least(MaxBuffer, Len(up)), "requests cut")
         /\ up' = Cut(up, n)
         /\ server' = IF parse_sockpackage(SubSeq(up, 1, n)) = {} THEN "stuck" ELSE "busy"
         /\ handled' = handled \o SetToSeq(parse_sockpackage(SubSeq(up, 1, n)))
  BY DEF ServerReads
<1>2. /\ client' = client /\ down' = down /\ rest' = rest
      /\ active' = active /\ shown' = shown /\ sent' = sent /\ answers' = answers
      /\ server = "idle"
  BY DEF ServerReads
<1>3. n = Least(MaxBuffer, Len(up)) /\ n # 0
  <2>1. n \in Pieces(Least(MaxBuffer, Len(up)), "requests cut")
    BY <1>1
  <2> QED
    BY <2>1, WholePieces
<1>4. /\ sent \in Seq(Request) /\ handled \in Seq(Msg)
      /\ MaxBuffer \in Nat
  <2>1. sent \in Seq(Request) /\ handled \in Seq(Msg)
    BY Zenon DEF StreamsInv, RequestsInv
  <2> QED
    BY <2>1, Constants
<1>5. up # <<>>
  <2> SUFFICES ASSUME up = <<>>
               PROVE  FALSE
    OBVIOUS
  <2>1. Len(up) = 0
    OBVIOUS
  <2> QED
    BY <1>3, <1>4, <2>1 DEF Least
<1> DEFINE m == MsgOf(Last(sent))
<1>6. /\ down = <<>> /\ sent # <<>> /\ Len(sent) = Len(handled) + 1
      /\ up = build_package(m.cType, m.payload)
  BY <1>2, <1>5 DEF Patient, PatientRequests
<1>7. m \in Msg
  <2>1. Last(sent) \in Request
    BY <1>4, <1>6 DEF Last
  <2> QED
    BY <2>1, RequestMsg
<1> HIDE DEF m
<1>8. Len(up) \in Nat /\ Len(up) <= MaxBuffer
  BY <1>6, <1>7, WholePackage
<1>9. n = Len(up)
  BY <1>3, <1>4, <1>8 DEF Least
<1>10. /\ SubSeq(up, 1, n) = up /\ Cut(up, n) = <<>> /\ parse_sockpackage(up) = {m}
  BY <1>6, <1>7, <1>9, WholePackage
<1>11. up' = <<>> /\ server' = "busy" /\ handled' = handled \o <<m>>
  BY <1>1, <1>10, OneOrNone
<1>12. Len(handled') = Len(handled) + 1
  BY <1>4, <1>7, <1>11
<1>13. PatientRequests'
  BY <1>2, <1>6, <1>11, <1>12 DEF PatientRequests
<1>14. client' = "up" => OneOnItsWay'
  BY <1>2, PatientSame DEF Patient
<1> QED
  BY <1>2, <1>6, <1>11, <1>13, <1>14 DEF Patient

\* The server answers the request it has read.
LEMMA PatientServerHandles ==
    ASSUME StreamsInv, Patient, delivery = "whole", ServerHandles
    PROVE  Patient'
<1>1. /\ client' = client /\ up' = up /\ down' = down
      /\ active' = active /\ shown' = shown /\ sent' = sent /\ handled' = handled
      /\ server = "busy"
  BY DEF ServerHandles, bytes
<1>2. down = <<>> /\ rest = <<>>
  BY <1>1 DEF StreamsInv, TypeOK, Patient
<1>3. PatientRequests'
  BY <1>1 DEF Patient, PatientRequests
<1>4. CASE server' = "returning" /\ UNCHANGED <<rest, answers>>
  <2>1. client' = "up" => OneOnItsWay'
    BY <1>1, <1>4, PatientSame DEF Patient
  <2> QED
    BY <1>1, <1>3, <1>4, <2>1 DEF Patient
<1>5. ASSUME NEW a \in Answers, NEW t \in {Last(handled).cType, LOGIN},
             rest' = build_package(t, a), rest' # <<>>, server' = "writing",
             answers' = Append(answers, a)
      PROVE  Patient'
  <2>1. handled \in Seq(Msg) /\ handled # <<>> /\ answers \in Seq(Seq(Chars))
    BY <1>1, Zenon DEF StreamsInv, RequestsInv, RepliesInv
  <2>2. Last(handled) \in Msg
    BY <2>1 DEF Last
  <2>3. t \in Byte \ {START}
    BY <2>2, LoginIsNoStart DEF Msg
  <2> DEFINE m == [cType |-> t, payload |-> a]
  <2>4. m \in Msg /\ a \in Seq(Chars)
    <3>1. m \in Msg
      BY <1>5, <2>3, ReplyMsg
    <3> QED
      BY <3>1 DEF Msg
  <2>5. m.cType = t /\ m.payload = a
    OBVIOUS
  <2> HIDE DEF m
  <2>6. /\ Len(answers') = Len(answers) + 1 /\ Last(answers') = a
        /\ \A i \in 1..Len(answers) : answers'[i] = answers[i]
        /\ Len(answers) \in Nat
    BY <1>5, <2>1, <2>4 DEF Last
  <2>7. ASSUME client = "up"
        PROVE  OneOnItsWay'
    <3>1. shown = [i \in 1..Len(answers) |-> answers[i] \o <<END>>]
      <4>1. \A x \in Msg : build_package(x.cType, x.payload) # <<>>
        BY WholePackage
      <4>2. PICK k \in 0..Len(answers) :
              /\ shown = [i \in 1..k |-> answers[i] \o <<END>>]
              /\ \/ k = Len(answers) /\ down = <<>> /\ rest = <<>>
                 \/ /\ k = Len(answers) - 1
                    /\ \E x \in Msg :
                          /\ x.payload = Last(answers)
                          /\ \/ down = build_package(x.cType, x.payload) /\ rest = <<>>
                             \/ rest = build_package(x.cType, x.payload) /\ down = <<>>
        BY <2>7, Zenon DEF Patient, OneOnItsWay
      <4>3. k = Len(answers)
        BY <1>2, <4>1, <4>2, Zenon
      <4> QED
        BY <4>2, <4>3
    <3>2. shown' = [i \in 1..Len(answers) |-> answers'[i] \o <<END>>]
      BY <1>1, <2>6, <3>1
    <3>3. Len(answers) \in 0..Len(answers') /\ Len(answers) = Len(answers') - 1
      BY <2>6
    <3>4. m.payload = Last(answers') /\ rest' = build_package(m.cType, m.payload)
          /\ down' = <<>>
      BY <1>1, <1>2, <1>5, <2>5, <2>6
    <3>5. \E j \in 0..Len(answers') :
             /\ shown' = [i \in 1..j |-> answers'[i] \o <<END>>]
             /\ j = Len(answers') - 1
             /\ \E x \in Msg :
                   /\ x.payload = Last(answers')
                   /\ rest' = build_package(x.cType, x.payload) /\ down' = <<>>
      BY <2>4, <3>2, <3>3, <3>4
    <3> QED
      BY <3>5, Zenon DEF OneOnItsWay
  <2> QED
    BY <1>1, <1>2, <1>3, <1>5, <2>7 DEF Patient
<1> QED
  BY <1>4, <1>5, Zenon DEF ServerHandles

\* A reply that is shorter than a buffer is written at once, if a socket holds
\* as much as a buffer.
LEMMA PatientServerWrites ==
    ASSUME StreamsInv, Patient, delivery = "whole", Capacity >= MaxBuffer, ServerWrites
    PROVE  Patient'
<1>1. PICK n :
         /\ n \in Pieces(Least(Len(rest), Capacity - Len(down)), "replies cut")
         /\ down' = down \o SubSeq(rest, 1, n)
         /\ rest' = Cut(rest, n)
         /\ server' = IF rest' = <<>> THEN "returning" ELSE "writing"
  BY DEF ServerWrites
<1>2. /\ client' = client /\ up' = up /\ active' = active
      /\ shown' = shown /\ sent' = sent /\ handled' = handled /\ answers' = answers
      /\ server = "writing"
  BY DEF ServerWrites, history
<1>3. /\ rest \in Seq(Byte) /\ Len(rest) <= MaxBuffer /\ rest # <<>> /\ down = <<>>
  BY <1>2 DEF StreamsInv, TypeOK, Patient
<1>4. n = Len(rest)
  <2>1. Capacity \in Nat
    BY Zenon, WireAssumption DEF WireAssumption
  <2>2. Least(Len(rest), Capacity - Len(down)) = Len(rest)
    <3>1. Len(down) = 0 /\ Len(rest) \in Nat
      BY <1>3
    <3>2. Capacity - Len(down) = Capacity
      BY <2>1, <3>1
    <3>3. Len(rest) <= Capacity
      BY <1>3, <2>1, <3>1, Constants
    <3> QED
      BY <3>2, <3>3 DEF Least
  <2>3. n \in Pieces(Least(Len(rest), Capacity - Len(down)), "replies cut")
    BY <1>1
  <2> QED
    BY <2>2, <2>3, WholePieces
<1>5. SubSeq(rest, 1, Len(rest)) = rest
  BY <1>3, SubSeqFull
<1>6. Cut(rest, Len(rest)) = <<>>
  <2> DEFINE c == Cut(rest, Len(rest))
  <2>1. Len(rest) \in 0..Len(rest) /\ Len(rest) \in Nat
    BY <1>3
  <2>2. c \in Seq(Byte) /\ Len(c) = Len(rest) - Len(rest)
    BY <1>3, <2>1, CutElements
  <2> HIDE DEF c
  <2>3. Len(c) = 0
    BY <2>1, <2>2
  <2>4. c = <<>>
    BY <2>2, <2>3, EmptySeq
  <2> QED
    BY <2>4 DEF c
<1>7. down' = rest /\ rest' = <<>> /\ server' = "returning"
  <2>1. <<>> \o rest = rest
    BY <1>3, ConcatEmptySeq
  <2> QED
    BY <1>1, <1>3, <1>4, <1>5, <1>6, <2>1
<1>8. PatientRequests'
  BY <1>2 DEF Patient, PatientRequests
<1>9. ASSUME client = "up"
      PROVE  OneOnItsWay'
  <2>1. PICK k \in 0..Len(answers) :
           /\ shown = [i \in 1..k |-> answers[i] \o <<END>>]
           /\ \/ k = Len(answers) /\ down = <<>> /\ rest = <<>>
              \/ /\ k = Len(answers) - 1
                 /\ \E m \in Msg :
                       /\ m.payload = Last(answers)
                       /\ \/ down = build_package(m.cType, m.payload) /\ rest = <<>>
                          \/ rest = build_package(m.cType, m.payload) /\ down = <<>>
    BY <1>9, Zenon DEF Patient, OneOnItsWay
  <2>2. PICK m \in Msg :
           m.payload = Last(answers) /\ rest = build_package(m.cType, m.payload)
    BY <1>3, <2>1
  <2>3. k = Len(answers) - 1
    BY <1>3, <2>1
  <2>4. \E j \in 0..Len(answers') :
           /\ shown' = [i \in 1..j |-> answers'[i] \o <<END>>]
           /\ j = Len(answers') - 1
           /\ \E x \in Msg :
                 /\ x.payload = Last(answers')
                 /\ down' = build_package(x.cType, x.payload) /\ rest' = <<>>
    BY <1>2, <1>7, <2>1, <2>2, <2>3
  <2> QED
    BY <2>4, Zenon DEF OneOnItsWay
<1> QED
  BY <1>2, <1>7, <1>8, <1>9 DEF Patient

\* Hanging up, a turn for an active thread, a failed write, an exception and a
\* return.
LEMMA PatientOthers ==
    ASSUME StreamsInv, Patient, delivery = "whole",
           ClientGoesDeaf \/ ClientLeaves \/ ServerActivates \/ ServerWriteFails
             \/ ServerThrows \/ ServerReturns \/ UNCHANGED vars
    PROVE  Patient'
<1>1. CASE ClientGoesDeaf
  <2>1. /\ client' = "deaf" /\ up' = up /\ down' = down
        /\ server' = server /\ active' = active
        /\ sent' = sent /\ handled' = handled
    BY <1>1 DEF ClientGoesDeaf, bytes, history
  <2>2. PatientRequests'
    BY <2>1 DEF Patient, PatientRequests
  <2> QED
    BY <2>1, <2>2 DEF Patient
<1>2. CASE ClientLeaves
  <2>1. /\ client' = "gone" /\ up' = up /\ down' = <<>>
        /\ server' = server /\ active' = active
        /\ sent' = sent /\ handled' = handled
    BY <1>2 DEF ClientLeaves, history
  <2>2. PatientRequests'
    BY <2>1 DEF Patient, PatientRequests
  <2> QED
    BY <2>1, <2>2 DEF Patient
<1>3. CASE ServerActivates
  BY <1>3 DEF ServerActivates, Patient, PatientRequests
<1>4. CASE ServerWriteFails
  <2>1. /\ client' = client /\ client = "gone" /\ up' = up /\ active' = active
        /\ server = "writing" /\ server' \in {"returning", "killed"}
        /\ sent' = sent /\ handled' = handled
    BY <1>4 DEF ServerWriteFails, bytes, history
  <2>2. PatientRequests'
    BY <2>1 DEF Patient, PatientRequests
  <2> QED
    BY <2>1, <2>2 DEF Patient
<1>5. CASE ServerReturns
  <2>1. /\ client' = client /\ up' = up /\ down' = down /\ rest' = rest
        /\ server = "returning" /\ active' = active /\ active = FALSE
        /\ shown' = shown /\ sent' = sent /\ handled' = handled /\ answers' = answers
    BY <1>5 DEF ServerReturns, bytes, history, Patient
  <2>2. server' = "idle"
    BY <1>5, <2>1 DEF ServerReturns
  <2>3. PatientRequests'
    BY <2>1 DEF Patient, PatientRequests
  <2>4. client' = "up" => OneOnItsWay'
    BY <2>1, PatientSame DEF Patient
  <2> QED
    BY <2>1, <2>2, <2>3, <2>4 DEF Patient
<1>6. CASE UNCHANGED vars
  <2>1. /\ client' = client /\ up' = up /\ down' = down /\ rest' = rest
        /\ server' = server /\ active' = active
        /\ shown' = shown /\ sent' = sent /\ handled' = handled /\ answers' = answers
    BY <1>6 DEF vars, bytes, history
  <2>2. PatientRequests'
    BY <2>1 DEF Patient, PatientRequests
  <2>3. client' = "up" => OneOnItsWay'
    BY <2>1, PatientSame DEF Patient
  <2> QED
    BY <2>1, <2>2, <2>3 DEF Patient
<1>7. CASE ServerThrows
  <2>1. /\ client' = client /\ up' = up /\ down' = down /\ rest' = rest
        /\ server = "busy" /\ server' = "failed" /\ active' = active
        /\ shown' = shown /\ sent' = sent /\ handled' = handled /\ answers' = answers
    BY <1>7 DEF ServerThrows, bytes, history
  <2>2. PatientRequests'
    BY <2>1 DEF PatientRequests
  <2>3. client' = "up" => OneOnItsWay'
    BY <2>1, PatientSame DEF Patient
  <2> QED
    BY <2>1, <2>2, <2>3 DEF Patient
<1> QED
  BY <1>1, <1>2, <1>3, <1>4, <1>5, <1>6, <1>7

\* Nothing is on its way at first.
LEMMA PatientInit ==
    ASSUME Init
    PROVE  Patient
<1>1. /\ client = "up" /\ up = <<>> /\ down = <<>> /\ server = "idle" /\ rest = <<>>
      /\ active = FALSE /\ shown = <<>> /\ sent = <<>> /\ handled = <<>> /\ answers = <<>>
  BY DEF Init
<1>2. PatientRequests
  BY <1>1 DEF PatientRequests
<1>3. OneOnItsWay
  <2>1. Len(answers) = 0 /\ 0 \in 0..Len(answers)
    BY <1>1
  <2>2. shown = [i \in 1..0 |-> answers[i] \o <<END>>]
    BY <1>1
  <2>3. \E k \in 0..Len(answers) :
           /\ shown = [i \in 1..k |-> answers[i] \o <<END>>]
           /\ k = Len(answers) /\ down = <<>> /\ rest = <<>>
    BY <1>1, <2>1, <2>2
  <2> QED
    BY <2>3, Zenon DEF OneOnItsWay
<1> QED
  BY <1>1, <1>2, <1>3 DEF Patient

\* Every step of a system whose user is patient.
LEMMA PatientNext ==
    ASSUME Capacity >= MaxBuffer, StreamsInv, PatientInv, [Next]_vars
    PROVE  PatientInv'
<1>1. delivery' = delivery
  BY DEF Next, User, UserSends, RecvReads, ClientGoesDeaf, ClientLeaves, Server,
         ServerReads, ServerActivates, ServerHandles, ServerThrows, ServerWrites,
         ServerWriteFails, ServerReturns, vars
<1>2. ASSUME delivery = "whole"
      PROVE  Patient'
  <2>1. Patient
    BY <1>2 DEF PatientInv
  <2>2. CASE User
    BY <1>2, <2>1, <2>2, PatientUserSends DEF User
  <2>3. CASE RecvReads
    BY <1>2, <2>1, <2>3, PatientRecvReads
  <2>4. CASE ClientGoesDeaf \/ ClientLeaves \/ UNCHANGED vars
    BY <1>2, <2>1, <2>4, PatientOthers
  <2>5. CASE Server
    BY <1>2, <2>1, <2>5, PatientServerReads, PatientServerHandles, PatientServerWrites,
       PatientOthers DEF Server
  <2> QED
    BY <2>2, <2>3, <2>4, <2>5 DEF Next
<1> QED
  BY <1>1, <1>2 DEF PatientInv

\* EpollWorker.cpp, handle_event and SendData, and TCPClient.cpp, recv_loop, over
\* a connection that does not cut: a socket holds more than the code's buffer, so
\* a reply is one write and one read, whatever is in the packages.  Who waits has
\* every request handled and gets every reply that fits a package, and no active
\* thread is ever started to lock him out; a handler that throws may, but takes
\* no reply with it that was made before.
THEOREM PatientUserGetsReplies ==
    ASSUME Capacity >= MaxBuffer
    PROVE  Spec => []PatientUserIsServed
<1>1. Init => PatientInv
  BY PatientInit DEF PatientInv
<1>2. StreamsInv /\ PatientInv /\ [Next]_vars => PatientInv'
  BY PatientNext
<1>3. StreamsInv /\ PatientInv => PatientUserIsServed
  <2> SUFFICES ASSUME StreamsInv, Patient, delivery = "whole"
               PROVE  /\ server # "stuck"
                      /\ client = "up" /\ Quiet => Len(handled) = Len(sent)
                      /\ client = "up" /\ Waited =>
                            shown = [i \in DOMAIN answers |-> answers[i] \o <<END>>]
    BY DEF PatientInv, PatientUserIsServed
  <2>1. server # "stuck"
    BY DEF Patient
  <2>2. Quiet => Len(handled) = Len(sent)
    BY NoneOnItsWay DEF Patient, Quiet
  <2>3. ASSUME client = "up", Waited
        PROVE  shown = [i \in DOMAIN answers |-> answers[i] \o <<END>>]
    <3>1. server \in {"idle", "failed"} /\ down = <<>>
      BY <2>3 DEF Waited, Quiet, Patient
    <3>2. rest = <<>> /\ answers \in Seq(Seq(Chars))
      BY <3>1 DEF StreamsInv, TypeOK, RepliesInv
    <3>3. \A x \in Msg : build_package(x.cType, x.payload) # <<>>
      BY WholePackage
    <3>4. PICK k \in 0..Len(answers) :
            /\ shown = [i \in 1..k |-> answers[i] \o <<END>>]
            /\ \/ k = Len(answers) /\ down = <<>> /\ rest = <<>>
               \/ /\ k = Len(answers) - 1
                  /\ \E x \in Msg :
                        /\ x.payload = Last(answers)
                        /\ \/ down = build_package(x.cType, x.payload) /\ rest = <<>>
                           \/ rest = build_package(x.cType, x.payload) /\ down = <<>>
      BY <2>3, Zenon DEF Patient, OneOnItsWay
    <3>5. k = Len(answers)
      BY <3>1, <3>2, <3>3, <3>4, Zenon
    <3>6. 1..Len(answers) = DOMAIN answers
      BY <3>2
    <3> QED
      BY <3>4, <3>5, <3>6
  <2> QED
    BY <2>1, <2>2, <2>3
<1> QED
  BY <1>1, <1>2, <1>3, StreamsAlways, PTL DEF Spec
=============================================================================

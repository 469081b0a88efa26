------------------------------ MODULE Framing ------------------------------
(***************************************************************************)
(* The packages of protocol.hpp: how SQLManager makes one, how EpollWorker *)
(* and ClientTCP find one in the bytes of a read, and how SQLManager       *)
(* takes the fields out of its payload.  A string is a sequence of bytes;  *)
(* indices start at 1 where the code's start at 0.                         *)
(*                                                                         *)
(*     START  type  length (4 bytes, big-endian)  payload  END             *)
(***************************************************************************)
EXTENDS Integers, Sequences, FiniteSets

CONSTANTS
    MaxBuffer,  \* MAX_BUFFERSIZE: bytes of a read, and of a package
    START, END, \* PACKAGE_START_BYTE, PACKAGE_END_BYTE
    SEP         \* '#', before each field

Byte == 0..255
Overhead == 7   \* bytes of a package besides its payload

\* The smallest package fits the buffer.  The last two bytes of a length are
\* enough for it, and START is none that comes before the last.
ASSUME FramingAssumption ==
    /\ MaxBuffer \in Overhead..65535
    /\ START \in Byte /\ 256 * START > MaxBuffer
    /\ END \in Byte \ {0, START}
    /\ SEP \in Byte \ {0}

BigEndian(n) ==
    <<(n \div 16777216) % 256, (n \div 65536) % 256, (n \div 256) % 256, n % 256>>

Number(a, b, c, d) == 16777216 * a + 65536 * b + 256 * c + d

LengthAt(data, i) == Number(data[i], data[i + 1], data[i + 2], data[i + 3])

BadBuildPackage(type, payload) ==
    IF Len(payload) > MaxBuffer - Overhead + 1
      THEN <<>>
      ELSE <<START, type>> \o BigEndian(Len(payload)) \o payload \o <<END>>

\* An empty string if the package would not fit a buffer.
build_package(type, payload) ==
    IF Len(payload) > MaxBuffer - Overhead
      THEN <<>>
      ELSE <<START, type>> \o BigEndian(Len(payload)) \o payload \o <<END>>

\* Where the scan for START ends: the first one with room for a package, if any.
StartAt(data) ==
    LET starts == {i \in 1..Len(data) - Overhead + 1 : data[i] = START}
    IN  {i \in starts : \A j \in starts : i <= j}

BadParse(data) ==
    {[cType |-> data[p + 1],
      payload |-> SubSeq(data, p + 6, Len(data) - 1)]
        : p \in {q \in StartAt(data) : data[Len(data)] = END}}

\* EpollWorker: the set of the one package found, or the empty set.  A length
\* with its highest bit set is negative, and as a size_t greater than any buffer.
parse_sockpackage(data) ==
    {[cType |-> data[p + 1],
      payload |-> SubSeq(data, p + 6, p + 5 + LengthAt(data, p + 2))]
        : p \in {q \in StartAt(data) :
                    LET offset == q + 6
                        nLen == LengthAt(data, q + 2)
                    IN  /\ nLen <= MaxBuffer
                        /\ offset + nLen <= Len(data)
                        /\ data[offset + nLen] = END}}

\* ClientTCP: where the payload starts; the empty set stands for -1.
get_start_payload(data) ==
    {p + 6 : p \in {q \in StartAt(data) :
                LET nLen == LengthAt(data, q + 2)
                    end_pos == q + 5 + nLen + 1
                IN  /\ nLen <= MaxBuffer
                    /\ ~(end_pos > Len(data) \/ data[end_pos] # END)}}

\* The pieces of the payload between SEPs, without the empty ones.
getdata(data) ==
    LET starts == {i \in 1..Len(data) :
                      data[i] # SEP /\ (i = 1 \/ data[i - 1] = SEP)}
        Field(i) == SubSeq(data, i,
                        CHOOSE e \in i..Len(data) :
                            /\ \A j \in i..e : data[j] # SEP
                            /\ e = Len(data) \/ data[e + 1] = SEP)
    IN  [k \in 1..Cardinality(starts) |->
            Field(CHOOSE i \in starts :
                    Cardinality({j \in starts : j <= i}) = k)]
=============================================================================

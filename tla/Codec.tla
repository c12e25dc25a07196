-------------------------------- MODULE Codec -------------------------------
(***************************************************************************)
(* Messages as bytes: Topic::toMessage(), fromMessage() and                *)
(* getNameFromMsg() of data.cpp, the two other messages of messages.h, and *)
(* the Datum and Topic of data.h as far as messages carry them.            *)
(*                                                                         *)
(* A byte is a number, a block of memory a sequence of bytes.  A name or a *)
(* string is a sequence of bytes without a 0.  A float is the four bytes   *)
(* that hold it, whatever number they stand for.  The host is              *)
(* little-endian, so htonl() and ntohl() turn four bytes round.  The length*)
(* of a string and a count are what an int can hold.                       *)
(***************************************************************************)
EXTENDS Integers, Sequences, SequencesExt

CONSTANTS MaxName,  \* the length to which toMessage() clips a name, 128
          Beyond    \* what may lie behind a packet in memory, up to a 0

ASSUME CodecAssumption == MaxName \in 0 .. 254 /\ Beyond \subseteq Seq(1 .. 255)

DT_FLOAT  == 0
DT_STRING == 1

CS_PUBLISH     == 1
CS_SUBSCRIBE   == 2
CS_KILLSERVER  == 3
CS_CLEARSERVER == 4
SC_NOTIFY      == 20
SC_KILLCLIENT  == 30

MaxInt == 2147483647

Byte   == 0 .. 255
Letter == 1 .. 255
Word   == [1 .. 4 -> Byte]
Text   == {s \in Seq(Letter) : Len(s) <= MaxInt}
Name   == Seq(Letter)

Float(bytes) == [t |-> DT_FLOAT, f |-> bytes]
String(s)    == [t |-> DT_STRING, s |-> s]

Datum == [t : {DT_FLOAT}, f : Word] \cup [t : {DT_STRING}, s : Text]
Data  == {d \in Seq(Datum) : Len(d) <= MaxInt}

(* What a function that takes a "const char *" makes of a block of memory. *)
CString(p) ==
    LET ends == {i \in 1 .. Len(p) : p[i] = 0}
    IN  IF ends = {} THEN p ELSE SubSeq(p, 1, Min(ends) - 1)

(* Four bytes of memory and the number that they are.                      *)
Host(n)   == <<n % 256, (n \div 256) % 256, (n \div 65536) % 256, (n \div 16777216) % 256>>
Number(b) == b[1] + 256 * b[2] + 65536 * b[3] + 16777216 * b[4]

Swapped(b) == Reverse(b)

Net(n)       == Swapped(Host(n))
NetNumber(b) == Number(Swapped(b))

-----------------------------------------------------------------------------
(* toMessage().  The length of a name counts its final 0.                  *)

NameLen(name) == Min({Len(name), MaxName}) + 1

(* Mutant: the length before a string is not counted.                      *)
DatumSizeBare(x) == IF x.t = DT_FLOAT THEN 1 + 4 ELSE 1 + Len(x.s)

DatumSize(x) == IF x.t = DT_FLOAT THEN 1 + 4 ELSE 1 + 4 + Len(x.s)

(* The first pass: the size of the buffer, not wrapped at 2^31.            *)
Sizes(name, d) ==
    LET size[i \in 0 .. Len(d)] ==
            IF i = 0 THEN 4 + 4 + 1 + NameLen(name) ELSE size[i - 1] + DatumSize(d[i])
    IN  size

SizeOf(name, d) == Sizes(name, d)[Len(d)]

(* Mutant: a float goes as it lies in memory.                              *)
DatumBytesRaw(x) ==
    IF x.t = DT_FLOAT THEN <<x.t>> \o x.f
                      ELSE <<x.t>> \o Net(Len(x.s)) \o x.s

DatumBytes(x) ==
    IF x.t = DT_FLOAT THEN <<x.t>> \o Swapped(x.f)
                      ELSE <<x.t>> \o Net(Len(x.s)) \o x.s

BytesUpTo(d) ==
    LET bytes[i \in 0 .. Len(d)] ==
            IF i = 0 THEN <<>> ELSE bytes[i - 1] \o DatumBytes(d[i])
    IN  bytes

DataBytes(d) == BytesUpTo(d)[Len(d)]

(* The second pass.  strcpy() copies the whole name; the items follow at   *)
(* NameLen, over the end of a name that is longer.  What that leaves of    *)
(* the name beyond the buffer is not sent.                                 *)
ToMessage(type, name, d) ==
    Net(type) \o Net(Len(d)) \o <<NameLen(name)>>
      \o SubSeq(Append(name, 0), 1, NameLen(name)) \o DataBytes(d)

(* strcpy() stays in the buffer.  If it does not, the program may end (it  *)
(* takes no more steps then) or go on.                                     *)
NameFits(name, d) == 4 + 4 + 1 + Len(name) + 1 <= SizeOf(name, d)

-----------------------------------------------------------------------------
(* The other two messages; what follows the name in a StrMsg is not set.   *)
(* A name that fills msg[] and more is copied beyond it, and not sent.     *)

MsgLen(name) == Min({Len(name) + 1, 256})

StrMsg(type, name) == Net(type) \o SubSeq(Append(name, 0), 1, MsgLen(name))
NoDataMsg(type)    == Net(type)

MsgType(p) == NetNumber(SubSeq(p, 1, 4))

(* What getNameFromMsg(), and the name in a StrMsg, may be taken for: at   *)
(* the end of the packet a name without a 0 goes on in what lies behind it.*)
NameFromMsg(p) == {CString(SubSeq(p, 10, Len(p)) \o behind) : behind \in Beyond}
MsgOf(p)       == {CString(SubSeq(p, 5, Len(p)) \o behind) : behind \in Beyond}

-----------------------------------------------------------------------------
(* fromMessage(): from "at" on, p has not been read.                       *)

Field(p, at) == SubSeq(p, at, at + 3)

Thrown == [thrown |-> TRUE]  \* the exception

TakeDatum(p, s) ==
    IF s = Thrown THEN Thrown
    ELSE IF p[s.at] = DT_FLOAT THEN
        [at |-> s.at + 5, d |-> Append(s.d, Float(Swapped(Field(p, s.at + 1))))]
    ELSE IF p[s.at] = DT_STRING THEN
        LET len == NetNumber(Field(p, s.at + 1))
        IN  [at |-> s.at + 5 + len,
             d  |-> Append(s.d, String(SubSeq(p, s.at + 5, s.at + 4 + len)))]
    ELSE Thrown

Reads(p) ==
    LET read[i \in 0 .. NetNumber(Field(p, 5))] ==
            IF i = 0 THEN [at |-> 10 + p[9], d |-> <<>>] ELSE TakeDatum(p, read[i - 1])
    IN  read

FromMessage(p) == Reads(p)[NetNumber(Field(p, 5))]
=============================================================================

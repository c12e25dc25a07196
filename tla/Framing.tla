------------------------------- MODULE Framing -------------------------------
(***************************************************************************)
(* How messages are cut into bytes and put together again (tcp.h): one     *)
(* direction of one connection, from basesend() at one end to              *)
(* TCPReceiver::update() at the other, which its caller (the loop of the   *)
(* broker, or the network thread of a client) calls until it returns       *)
(* false.                                                                  *)
(*                                                                         *)
(* A byte is known by the message that it belongs to and its place there:  *)
(* <<k, j>> is byte j of message k, the first SizeLen of them being its    *)
(* size.  A message is known by its size.                                  *)
(***************************************************************************)
EXTENDS Naturals, Sequences, FiniteSets

CONSTANTS SizeLen,      \* sizeof(uint32_t)
          Sizes,        \* the sizes of the messages that are sent
          KillSize,     \* the size of SC_KILLCLIENT
          Tries,        \* how often basesend() tries
          Faults,       \* whether write() and read() may fail without a
                        \* broken connection, or write() may be cut short
          Garbage,      \* what bytes that are no size may be read as
          MaxSignals,   \* bound: signals that the broker's handler takes
          MaxMessages   \* bound: messages besides the handler's

ASSUME FramingAssumption ==
    /\ SizeLen \in Nat \ {0} /\ Tries \in Nat \ {0}
    /\ KillSize \in Sizes /\ Sizes \subseteq Nat \ {0}
    /\ Faults \in BOOLEAN
    /\ Garbage \subseteq Nat
    /\ MaxSignals \in Nat /\ MaxMessages \in Nat

VARIABLES
    \* basesend()
    posted,      \* the sizes of the messages it was called with
    sender,      \* "idle", "size" or "data" (what it is about to write),
                 \* "thrown" (cannot send) or "gone" (socket closed)
    tries,       \* i, the number of the attempt
    first,       \* rv > 0: the size was written
    errno,       \* of the sender: "none", "EPIPE" or "other"
    signals,     \* signals taken so far
    \* the connection
    wire,        \* bytes written and not read
    sockError,   \* the ends that are to be told of a reset
    \* TCPReceiver
    recvdata,    \* a buffer is allocated: the size is known
    recvsize,
    buffer,      \* the bytes of this part so far; recvct is their number
    rv,          \* something was read in this call of update()
    portClosed,
    open,        \* the receiver's end
    delivered    \* the packets handed to process()

sendVars == <<posted, sender, tries, first, errno, signals>>
partVars == <<recvdata, recvsize, buffer>>
recvVars == <<partVars, rv, portClosed, open, delivered>>
vars == <<sendVars, wire, sockError, recvVars>>

-----------------------------------------------------------------------------
SizeBytes(k) == [j \in 1 .. SizeLen |-> <<k, j>>]

DataBytes(k) == [j \in 1 .. posted[k] |-> <<k, SizeLen + j>>]

Current == Len(posted)

Init ==
    /\ posted = <<>> /\ sender = "idle" /\ tries = 0 /\ first = FALSE
    /\ errno = "none" /\ signals = 0
    /\ wire = <<>> /\ sockError = {}
    /\ recvdata = FALSE /\ recvsize = 0 /\ buffer = <<>>
    /\ rv = FALSE /\ portClosed = FALSE /\ open = TRUE
    /\ delivered = <<>>

-----------------------------------------------------------------------------
(* basesend().                                                             *)

Begin(s) ==
    /\ posted' = Append(posted, s)
    /\ sender' = "size" /\ tries' = 0
    /\ UNCHANGED <<first, errno, wire, sockError, recvVars>>

Send(s) ==
    /\ sender = "idle" /\ signals = 0
    /\ Len(posted) < MaxMessages
    /\ Begin(s)
    /\ UNCHANGED signals

(* The broker's handler sends SC_KILLCLIENT, wherever the broker was, and  *)
(* does not return there.                                                  *)
Interrupt ==
    /\ signals < MaxSignals
    /\ sender \in {"idle", "size", "data"}
    /\ Begin(KillSize)
    /\ signals' = signals + 1

Reach(bytes) == IF open THEN wire \o bytes ELSE wire

Written(bytes) ==
    /\ wire' = Reach(bytes)
    /\ UNCHANGED <<errno, sockError>>

WrittenInPart(bytes) ==
    /\ Faults
    /\ \E n \in 1 .. Len(bytes) - 1 : wire' = Reach(SubSeq(bytes, 1, n))
    /\ UNCHANGED <<errno, sockError>>

WriteFails ==
    /\ \/ Faults /\ errno' = "other" /\ UNCHANGED sockError
       \/ "sender" \in sockError /\ errno' = "other" /\ sockError' = sockError \ {"sender"}
       \/ ~open /\ errno' = "EPIPE" /\ UNCHANGED sockError
    /\ UNCHANGED wire

(* write(), which has returned a positive number or not.                   *)
Write(bytes, positive) ==
    IF positive THEN Written(bytes) \/ WrittenInPart(bytes) ELSE WriteFails

WriteSize ==
    /\ sender = "size"
    /\ \E positive \in BOOLEAN : Write(SizeBytes(Current), positive) /\ first' = positive
    /\ sender' = "data"
    /\ UNCHANGED <<posted, tries, signals, recvVars>>

(* Mutant: the attempts are not counted.                                   *)
TryForEver ==
    /\ tries' = tries
    /\ sender' = "size"

(* Mutant: one attempt too many.                                           *)
TryOnceMore ==
    /\ tries' = tries + 1
    /\ sender' = IF tries' <= Tries THEN "size" ELSE "thrown"

TryAgain ==
    /\ tries' = tries + 1
    /\ sender' = IF tries' < Tries THEN "size" ELSE "thrown"

WriteData ==
    /\ sender = "data"
    /\ \E positive \in BOOLEAN :
        /\ Write(DataBytes(Current), positive)
        /\ IF (first /\ positive) \/ errno' = "EPIPE"
             THEN sender' = "idle" /\ UNCHANGED tries
             ELSE TryAgain
    /\ UNCHANGED <<posted, first, signals, recvVars>>

(* The sending process closes the connection, or ends wherever it is: by   *)
(* an exception, by SIGPIPE, or after its handler.                         *)
SenderGone ==
    /\ sender # "gone"
    /\ sender' = "gone"
    /\ UNCHANGED <<posted, tries, first, errno, signals, wire, sockError, recvVars>>

(* The same with unread data at the sender's end: the connection is reset, *)
(* and some of what is on the way may be lost.                             *)
SenderResets ==
    /\ sender # "gone" /\ open
    /\ sender' = "gone"
    /\ \E n \in 0 .. Len(wire) : wire' = SubSeq(wire, 1, n)
    /\ sockError' = sockError \cup {"receiver"}
    /\ UNCHANGED <<posted, tries, first, errno, signals, recvVars>>

-----------------------------------------------------------------------------
(* TCPReceiver::update().                                                  *)

(* Mutant: recvct is not subtracted.                                       *)
WantedWhole == IF recvdata THEN recvsize ELSE SizeLen

Wanted == (IF recvdata THEN recvsize ELSE SizeLen) - Len(buffer)

(* read() takes n bytes into the buffer.                                   *)
Read(n) ==
    /\ open
    /\ n \in 1 .. Wanted /\ n <= Len(wire)
    /\ wire' = SubSeq(wire, n + 1, Len(wire))
    /\ UNCHANGED <<sendVars, sockError, portClosed, open>>

Filled(n) == buffer \o SubSeq(wire, 1, n)

ReadPart(n) ==
    /\ Read(n) /\ n < Wanted
    /\ buffer' = Filled(n)
    /\ rv' = TRUE
    /\ UNCHANGED <<recvdata, recvsize, delivered>>

(* The size is complete.  Bytes that are no size may make malloc() fail.   *)
ReadSize(n) ==
    /\ Read(n) /\ n = Wanted /\ ~recvdata
    /\ \/ \E k \in 1 .. Len(posted) :
             Filled(n) = SizeBytes(k) /\ recvsize' = posted[k] /\ recvdata' = TRUE
       \/ /\ \A k \in 1 .. Len(posted) : Filled(n) # SizeBytes(k)
          /\ recvsize' \in Garbage /\ recvdata' \in BOOLEAN
    /\ buffer' = <<>>
    /\ rv' = TRUE
    /\ UNCHANGED delivered

(* Mutant: recvct keeps the number of the bytes of the packet.             *)
ReadDataUnreset(n) ==
    /\ Read(n) /\ n = Wanted /\ recvdata
    /\ delivered' = Append(delivered, Filled(n))
    /\ recvdata' = FALSE /\ recvsize' = 0 /\ buffer' = Filled(n)
    /\ rv' = FALSE

(* The packet is complete: it is processed, update() returns true, and is  *)
(* called again.                                                           *)
ReadData(n) ==
    /\ Read(n) /\ n = Wanted /\ recvdata
    /\ delivered' = Append(delivered, Filled(n))
    /\ recvdata' = FALSE /\ recvsize' = 0 /\ buffer' = <<>>
    /\ rv' = FALSE

(* The receiver's end is closed: what is on the way is lost, and the       *)
(* sender may be told of a reset.                                          *)
CloseEnd ==
    /\ open' = FALSE
    /\ wire' = <<>>
    /\ sockError' \in {sockError, sockError \cup {"sender"}}

(* read() has returned 0 or less, and update() returns whether it has read *)
(* anything before: if not, its caller closes the connection.              *)
Break ==
    /\ \/ rv /\ UNCHANGED <<wire, open, sockError>>
       \/ ~rv /\ CloseEnd
    /\ rv' = FALSE
    /\ UNCHANGED <<sendVars, partVars, delivered>>

(* Mutant: only an error ends the connection.                              *)
ReadNothingAgain ==
    /\ open /\ (Wanted = 0 \/ (wire = <<>> /\ sender = "gone" /\ "receiver" \notin sockError))
    /\ UNCHANGED vars

(* The end of the stream, or a read of no bytes because the size was 0.    *)
ReadNothing ==
    /\ open /\ (Wanted = 0 \/ (wire = <<>> /\ sender = "gone" /\ "receiver" \notin sockError))
    /\ Break
    /\ UNCHANGED portClosed

ReadError ==
    /\ open /\ Wanted # 0 /\ wire = <<>> /\ "receiver" \in sockError
    /\ portClosed' = TRUE
    /\ Break

(* A signal in the receiving process while it waits for bytes.             *)
ReadInterrupted ==
    /\ Faults
    /\ open /\ Wanted # 0 /\ wire = <<>>
    /\ portClosed' = TRUE
    /\ Break

(* The receiving process ends, or closes the connection by itself.         *)
ReceiverGone ==
    /\ open
    /\ CloseEnd
    /\ UNCHANGED <<sendVars, partVars, rv, portClosed, delivered>>

-----------------------------------------------------------------------------
SenderStep == WriteSize \/ WriteData

ReceiverStep ==
    \/ \E n \in 1 .. Len(wire) : ReadPart(n) \/ ReadSize(n) \/ ReadData(n)
    \/ ReadNothing \/ ReadError

Next ==
    \/ SenderStep \/ ReceiverStep
    \/ \E s \in Sizes : Send(s)
    \/ Interrupt
    \/ SenderGone \/ SenderResets
    \/ ReadInterrupted \/ ReceiverGone

Spec == Init /\ [][Next]_vars

(* A thread that is inside basesend() or update() is scheduled.            *)
FairSpec == Spec /\ WF_vars(SenderStep) /\ WF_vars(ReceiverStep)
-----------------------------------------------------------------------------
TypeOK ==
    /\ posted \in Seq(Sizes)
    /\ sender \in {"idle", "size", "data", "thrown", "gone"}
    /\ tries \in 0 .. Tries /\ first \in BOOLEAN
    /\ errno \in {"none", "EPIPE", "other"}
    /\ signals \in Nat
    /\ wire \in Seq(Nat \X Nat) /\ buffer \in Seq(Nat \X Nat)
    /\ sockError \subseteq {"sender", "receiver"}
    /\ recvdata \in BOOLEAN /\ recvsize \in Nat
    /\ rv \in BOOLEAN /\ portClosed \in BOOLEAN /\ open \in BOOLEAN
    /\ delivered \in Seq(Seq(Nat \X Nat))

(* Where the receiver is in the stream: the next byte that it expects.     *)
Here == <<Len(delivered) + 1, (IF recvdata THEN SizeLen ELSE 0) + Len(buffer) + 1>>

(* Where the sender is in the stream: the next byte that it will write.    *)
There ==
    IF sender = "idle" THEN <<Current + 1, 1>>
    ELSE <<Current, IF sender = "size" THEN 1 ELSE SizeLen + 1>>

(* The byte that comes after b, in a stream of messages of sizes p.        *)
After(p, b) ==
    IF b[2] < SizeLen + p[b[1]] THEN <<b[1], b[2] + 1>> ELSE <<b[1] + 1, 1>>

(* The packets that process() has got are the messages that were sent,     *)
(* byte for byte, from the first on, with none left out.                   *)
PacketsAreMessages ==
    /\ Len(delivered) <= Len(posted)
    /\ \A k \in 1 .. Len(delivered) : delivered[k] = DataBytes(k)

(* Bytes that follow each other in the stream; the bytes of a message are  *)
(* together.                                                               *)
Linked(p, w) ==
    \A i \in 1 .. Len(w) :
        /\ w[i][1] \in 1 .. Len(p)
        /\ w[i][2] \in 1 .. SizeLen + p[w[i][1]]
        /\ i < Len(w) => w[i + 1] = After(p, w[i])
        /\ \A l \in i .. Len(w) :
              w[i][2] + (l - i) <= SizeLen + p[w[i][1]] =>
                  w[l] = <<w[i][1], w[i][2] + (l - i)>>

(* What is between the two ends is exactly the stretch of the stream from  *)
(* the byte that the receiver expects to the one that the sender will      *)
(* write next (or had written last, when it is gone).                      *)
WireInStep ==
    /\ Linked(posted, wire)
    /\ wire # <<>> => wire[1] = Here
    /\ sender \in {"idle", "size", "data"} =>
          There = IF wire = <<>> THEN Here ELSE After(posted, wire[Len(wire)])

(* The receiver's buffer holds the bytes just before those.                *)
BufferInStep ==
    /\ recvdata => Len(delivered) < Len(posted) /\ recvsize = posted[Len(delivered) + 1]
    /\ Len(buffer) < (IF recvdata THEN recvsize ELSE SizeLen)
    /\ \A i \in 1 .. Len(buffer) :
          buffer[i] = <<Len(delivered) + 1, (IF recvdata THEN SizeLen ELSE 0) + i>>

(* Nothing is tried twice on a connection that is not broken, and nothing  *)
(* too often on any.                                                       *)
NoRetry ==
    /\ open => tries = 0 /\ errno = "none" /\ "sender" \notin sockError
    /\ open /\ sender = "data" => first
    /\ open => sender # "thrown"
    /\ sender \in {"size", "data"} => posted # <<>> /\ tries < Tries

InStep == PacketsAreMessages /\ NoRetry /\ (open => WireInStep /\ BufferInStep)

(* The data of the messages that basesend() was called with, and those     *)
(* that it may be called with.                                             *)
SentMessages == [k \in 1 .. Len(posted) |-> DataBytes(k)]

FifoMessage ==
    {[j \in 1 .. s |-> <<k, SizeLen + j>>] : k \in 1 .. MaxMessages + MaxSignals, s \in Sizes}

(* Whole messages, once and in order; and each is delivered, or the        *)
(* connection ends (tcp.h, "binary tcp, variable size recv blocks and send *)
(* blocks, each starting with a count").                                   *)
Channel == INSTANCE Fifo WITH
    Message <- FifoMessage, sent <- SentMessages, received <- delivered

ImplementsFifo == Channel!FairSpec

(* A process whose peer has gone does not wait or spin for ever: whatever  *)
(* the peer had written, update() returns false in the end.                *)
EndSeen == sender = "gone" ~> ~open

(* basesend() comes to an end, whatever fails.                             *)
SendEnds == sender \in {"size", "data"} ~> sender \in {"idle", "thrown", "gone"}
=============================================================================

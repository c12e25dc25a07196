-------------------------- MODULE BackpressureProofs --------------------------
(* Theorems about full socket buffers, for every number of clients, of     *)
(* publications and of faults and for buffers of every size.               *)
EXTENDS Backpressure, SequenceTheorems, TLAPS

USE DEF Size, Nothing

-----------------------------------------------------------------------------
(* Sequences that are moved along.                                         *)

(* A first message that is taken from what is on the way.                  *)
LEMMA HeadMoved ==
    ASSUME NEW S, NEW d \in Seq(S), d # <<>>
    PROVE  /\ Head(d) \in S /\ Tail(d) \in Seq(S) /\ Len(Tail(d)) = Len(d) - 1
           /\ <<Head(d)>> \o Tail(d) = d
  <1>1. Head(d) \in S /\ Tail(d) \in Seq(S) /\ Len(Tail(d)) = Len(d) - 1
    BY HeadTailProperties
  <1>2. Len(d) \in Nat \ {0} /\ SubSeq(d, 1, Len(d)) = d
    BY EmptySeq, SubSeqFull
  <1>3. SubSeq(d, 1, Len(d)) = <<d[1]>> \o SubSeq(d, 2, Len(d))
    BY <1>2, SubSeqRecursiveFirst
  <1>4. Tail(d) = SubSeq(d, 2, Len(d)) /\ Head(d) = d[1]
    BY TailIsSubSeq
  <1> QED BY <1>1, <1>2, <1>3, <1>4

(* What the network thread reads moves from the buffer to its packet.      *)
LEMMA ReadKeepsStream ==
    ASSUME NEW S, NEW g \in Seq(S), NEW d \in Seq(S), d # <<>>
    PROVE  (g \o <<Head(d)>>) \o Tail(d) = (g \o <<>>) \o d
  <1>1. Head(d) \in S /\ Tail(d) \in Seq(S) /\ <<Head(d)>> \o Tail(d) = d
    BY HeadMoved
  <1>2. <<Head(d)>> \in Seq(S)
    BY <1>1
  <1>3. (g \o <<Head(d)>>) \o Tail(d) = g \o d
    BY <1>1, <1>2, ConcatAssociative
  <1>4. g \o <<>> = g
    BY ConcatEmptySeq
  <1> QED BY <1>3, <1>4

(* What it processes moves from its packet to what has been processed.     *)
LEMMA ProcessKeepsStream ==
    ASSUME NEW S, NEW g \in Seq(S), NEW m \in S
    PROVE  Append(g, m) \o <<>> = g \o <<m>>
  <1>1. Append(g, m) \in Seq(S) /\ Append(g, m) = g \o <<m>>
    BY AppendProperties, AppendIsConcat
  <1> QED BY <1>1, ConcatEmptySeq

(* What the broker pushes moves into the buffer.                           *)
LEMMA PushKeepsStream ==
    ASSUME NEW S, NEW g \in Seq(S), NEW d \in Seq(S), NEW m \in S
    PROVE  (g \o Append(d, m)) \o <<>> = (g \o d) \o <<m>>
  <1>1. <<m>> \in Seq(S) /\ Append(d, m) \in Seq(S) /\ Append(d, m) = d \o <<m>>
    BY AppendProperties, AppendIsConcat
  <1>2. g \o Append(d, m) \in Seq(S)
    BY <1>1, ConcatProperties
  <1>3. (g \o Append(d, m)) \o <<>> = g \o (d \o <<m>>)
    BY <1>1, <1>2, ConcatEmptySeq
  <1> QED BY <1>1, <1>3, ConcatAssociative

(* What it handles is in its history and yet to be pushed.                 *)
LEMMA HandleKeepsStream ==
    ASSUME NEW S, NEW g \in Seq(S), NEW h \in Seq(S), NEW m \in S, g \o <<>> = h
    PROVE  g \o <<m>> = Append(h, m)
  <1>1. g \o <<>> = g
    BY ConcatEmptySeq
  <1> QED BY <1>1, AppendIsConcat

(* There is one least descriptor.                                          *)
LEMMA LeastUnique ==
    ASSUME NEW T, T \subseteq Client, NEW c, NEW d, Least(c, T), Least(d, T)
    PROVE  c = d
  <1>1. c \in T /\ d \in T /\ c <= d /\ d <= c
    BY DEF Least
  <1>2. c \in Nat /\ d \in Nat
    BY <1>1, BackpressureAssumption
  <1> QED BY <1>1, <1>2

-----------------------------------------------------------------------------
(* What a step leaves alone.                                               *)

(* The streams do not change with the threads that write to the broker.    *)
LEMMA SameOrderUnchanged ==
    ASSUME SameOrder, UNCHANGED <<role, process, netVars, down, todo, message, history>>
    PROVE  SameOrder'
  BY DEF SameOrder, Held, Pushes, netVars

(* The round does not change when something is written to the broker.      *)
LEMMA RoundUnchanged ==
    ASSUME RoundIsReady, UNCHANGED <<turn, at, message>>,
           \A c \in turn : Ready(c) => Ready(c)'
    PROVE  RoundIsReady'
  BY DEF RoundIsReady, Least

(* Nothing but the thread that calls publish(), and what it writes.        *)
LEMMA TypesButApp ==
    ASSUME TypeOK, UNCHANGED <<role, faults, process, netVars, down, brokerVars>>,
           app' \in [Client -> {"idle", "lock", "size", "data"}],
           calls' \in [Client -> 0 .. MaxPublishes],
           \A d \in Client : app'[d] # "idle" => calls'[d] > 0,
           up' \in [Client -> Seq(Parts)] \/ UNCHANGED up
    PROVE  TypeOK'
  BY DEF TypeOK, netVars, brokerVars

(* Nothing but the network thread.                                         *)
LEMMA TypesButNet ==
    ASSUME TypeOK, UNCHANGED <<role, faults, process, appVars, up, brokerVars>>,
           net' \in [Client -> {"read", "process"}],
           packet' \in [Client -> Messages \cup {Nothing}],
           \A d \in Client : net'[d] = "process" => packet'[d] \in Messages,
           got' \in [Client -> Seq(Messages)] \/ UNCHANGED got,
           down' \in [Client -> Seq(Messages)] \/ UNCHANGED down
    PROVE  TypeOK'
  BY DEF TypeOK, appVars, brokerVars

(* Nothing but whether a client runs.                                      *)
LEMMA TypesButFault ==
    ASSUME TypeOK, UNCHANGED <<role, appVars, netVars, up, brokerVars>>,
           process' \in [Client -> {"runs", "stopped", "gone"}],
           faults' \in 0 .. MaxFaults,
           down' \in [Client -> Seq(Messages)] \/ UNCHANGED down
    PROVE  TypeOK'
  BY DEF TypeOK, appVars, netVars, brokerVars

(* Nothing but the broker and the connections.                             *)
LEMMA TypesButBroker ==
    ASSUME TypeOK, UNCHANGED <<role, faults, process, appVars, netVars>>,
           up' \in [Client -> Seq(Parts)] \/ UNCHANGED up,
           down' \in [Client -> Seq(Messages)] \/ UNCHANGED down,
           turn' \subseteq Client, at' \in {"round", "data", "push"},
           todo' \subseteq role.subs,
           message' \in (IF at' = "push" THEN Messages ELSE {Nothing}),
           history' \in Seq(Messages)
    PROVE  TypeOK'
  BY DEF TypeOK, appVars, netVars

(* Nothing is promised to a client that is gone.                           *)
LEMMA SameOrderOfLeft ==
    ASSUME TypeOK, SameOrder, UNCHANGED <<role, netVars, todo, message, history>>,
           \A d \in Client :
               process'[d] # "gone" => process[d] # "gone" /\ down'[d] = down[d]
    PROVE  SameOrder'
  <1>1. role.subs \subseteq Client
    BY BackpressureAssumption DEF TypeOK
  <1> QED BY <1>1 DEF SameOrder, Held, Pushes, netVars

(* The state between the calls of publish() and the broker's rounds.       *)
LEMMA InitIInv == Init => IInv
  <1> SUFFICES ASSUME Init PROVE IInv
    OBVIOUS
  <1> USE BackpressureAssumption
  <1>1. TypeOK
    BY DEF Init, TypeOK
  <1>2. WithinRoom /\ RoundIsReady
    BY DEF Init, WithinRoom, RoundIsReady
  <1>3. SameOrder
    BY DEF Init, SameOrder, Held, Pushes
  <1> QED BY <1>1, <1>2, <1>3 DEF IInv, Init

(* The parts of the stream to a client are sequences of messages.          *)
LEMMA StreamsTyped ==
    ASSUME IInv, NEW c \in Client
    PROVE  /\ got[c] \in Seq(Messages) /\ down[c] \in Seq(Messages)
           /\ Held(c) \in Seq(Messages) /\ Pushes(c) \in Seq(Messages)
           /\ got[c] \o Held(c) \in Seq(Messages)
           /\ (got[c] \o Held(c)) \o down[c] \in Seq(Messages)
  <1>1. got[c] \in Seq(Messages) /\ down[c] \in Seq(Messages)
    BY DEF IInv, TypeOK
  <1>2. Held(c) \in Seq(Messages)
    <2>1. net[c] = "process" => packet[c] \in Messages
      BY DEF IInv, TypeOK
    <2> QED BY <2>1 DEF Held
  <1>3. Pushes(c) \in Seq(Messages)
    <2>1. c \in todo => message \in Messages
      BY DEF IInv, TypeOK
    <2> QED BY <2>1 DEF Pushes
  <1>4. got[c] \o Held(c) \in Seq(Messages)
    BY <1>1, <1>2, ConcatProperties
  <1> QED BY <1>1, <1>2, <1>3, <1>4, ConcatProperties

(* A step of one network thread: what matters is its own stream.           *)
LEMMA SameOrderButOne ==
    ASSUME IInv, NEW c \in Client,
           UNCHANGED <<role, process, todo, message, history>>,
           \A d \in Client \ {c} :
               got'[d] = got[d] /\ Held(d)' = Held(d) /\ down'[d] = down[d],
           ((got[c] \o Held(c))' \o down'[c]) \o Pushes(c)
               = ((got[c] \o Held(c)) \o down[c]) \o Pushes(c)
    PROVE  SameOrder'
  <1> SUFFICES ASSUME NEW d \in role.subs, process[d] # "gone"
               PROVE  ((got'[d] \o Held(d)') \o down'[d]) \o Pushes(d)' = history
    BY DEF SameOrder
  <1>1. d \in Client
    BY BackpressureAssumption DEF IInv, TypeOK
  <1>2. ((got[d] \o Held(d)) \o down[d]) \o Pushes(d) = history
    BY DEF IInv, SameOrder
  <1>3. Pushes(d)' = Pushes(d)
    BY DEF Pushes
  <1>4. CASE d = c
    BY <1>2, <1>3, <1>4
  <1>5. CASE d # c
    BY <1>1, <1>2, <1>3, <1>5
  <1> QED BY <1>4, <1>5

-----------------------------------------------------------------------------
(* One lemma for each action: it keeps the invariant.                      *)

(* A call of publish() begins.                                             *)
LEMMA PublishKeeps ==
    ASSUME IInv, NEW c \in Client, Publish(c)
    PROVE  IInv'
  <1> USE BackpressureAssumption DEF IInv, App
  <1>1. TypeOK'
    <2>1. /\ app' \in [Client -> {"idle", "lock", "size", "data"}]
          /\ calls' \in [Client -> 0 .. MaxPublishes]
          /\ \A d \in Client : app'[d] # "idle" => calls'[d] > 0
      BY DEF Publish, TypeOK
    <2>2. UNCHANGED <<role, faults, process, netVars, up, down, brokerVars>>
      BY DEF Publish
    <2> QED BY <2>1, <2>2, TypesButApp
  <1>2. WithinRoom'
    BY DEF Publish, WithinRoom
  <1>3. RoundIsReady'
    BY RoundUnchanged DEF Publish, brokerVars, Ready
  <1>4. SameOrder'
    BY SameOrderUnchanged DEF Publish, brokerVars
  <1> QED BY <1>1, <1>2, <1>3, <1>4 DEF Publish, brokerVars

(* It takes the mutex.                                                     *)
LEMMA LockKeeps ==
    ASSUME IInv, NEW c \in Client, Lock(c)
    PROVE  IInv'
  <1> USE BackpressureAssumption DEF IInv, App
  <1>1. TypeOK'
    BY DEF Lock, TypeOK, netVars, brokerVars
  <1>2. WithinRoom'
    BY DEF Lock, WithinRoom
  <1>3. RoundIsReady'
    BY RoundUnchanged DEF Lock, brokerVars, Ready
  <1>4. SameOrder'
    BY SameOrderUnchanged DEF Lock, brokerVars
  <1> QED BY <1>1, <1>2, <1>3, <1>4 DEF Lock, brokerVars

(* It writes the size or the data.                                         *)
LEMMA WriteKeeps ==
    ASSUME IInv, NEW c \in Client, WriteSize(c) \/ WriteData(c)
    PROVE  IInv'
  <1> USE BackpressureAssumption DEF IInv
  <1>1. PICK part \in {Size, "data"} : Write(c, part)
    BY DEF WriteSize, WriteData
  <1>2. /\ UNCHANGED <<role, faults, process, netVars, down, brokerVars>>
        /\ app[c] # "idle"
        /\ \E to \in {"idle", "data"} : app' = [app EXCEPT ![c] = to]
    BY DEF WriteSize, WriteData, App
  <1>3. calls[c] \in 1 .. MaxPublishes /\ up[c] \in Seq(Parts)
    BY <1>2 DEF TypeOK
  <1>4. <<part, calls[c]>> \in Parts
    BY <1>3 DEF Parts
  <1>5. /\ Append(up[c], <<part, calls[c]>>) \in Seq(Parts)
        /\ Append(up[c], <<part, calls[c]>>) # <<>>
        /\ Len(Append(up[c], <<part, calls[c]>>)) = Len(up[c]) + 1
    BY <1>3, <1>4, AppendProperties
  <1>6. up \in [Client -> Seq(Parts)]
    BY DEF TypeOK
  <1>7. /\ up' \in [Client -> Seq(Parts)] /\ calls' = calls
        /\ up'[c] # <<>> /\ Len(up'[c]) = Len(up[c]) + 1 /\ Len(up[c]) < UpRoom
        /\ \A d \in Client \ {c} : up'[d] = up[d]
    BY <1>1, <1>5, <1>6 DEF Write
  <1>8. TypeOK'
    <2>1. /\ app' \in [Client -> {"idle", "lock", "size", "data"}]
          /\ \A d \in Client : app'[d] # "idle" => app[d] # "idle"
      BY <1>2 DEF TypeOK
    <2>2. /\ calls' \in [Client -> 0 .. MaxPublishes]
          /\ \A d \in Client : app'[d] # "idle" => calls'[d] > 0
      BY <2>1, <1>7 DEF TypeOK
    <2> QED BY <2>1, <2>2, <1>2, <1>7, TypesButApp
  <1>9. WithinRoom'
    <2>1. Len(up[c]) \in Nat
      BY <1>3, LenProperties
    <2>2. Len(up'[c]) <= UpRoom
      BY ONLY <2>1, <1>7, BackpressureAssumption
    <2>3. \A d \in Client : Len(up[d]) <= UpRoom /\ Len(down[d]) <= DownRoom
      BY DEF WithinRoom
    <2>4. down' = down
      BY <1>2
    <2> QED BY ONLY <2>2, <2>3, <2>4, <1>7 DEF WithinRoom
  <1>10. RoundIsReady'
    <2>1. turn \subseteq Client
      BY DEF TypeOK
    <2>2. \A d \in turn : Ready(d) => Ready(d)'
      BY <2>1, <1>7 DEF Ready
    <2> QED BY <2>2, <1>2, RoundUnchanged DEF brokerVars
  <1>11. SameOrder'
    BY <1>2, SameOrderUnchanged DEF brokerVars
  <1> QED BY <1>2, <1>8, <1>9, <1>10, <1>11 DEF brokerVars

(* The network thread reads a message.                                     *)
LEMMA NetReadKeeps ==
    ASSUME IInv, NEW c \in Client, NetRead(c)
    PROVE  IInv'
  <1>1. /\ UNCHANGED <<role, faults, process, appVars, got, up, brokerVars>>
        /\ net[c] = "read" /\ down[c] # <<>>
        /\ net' = [net EXCEPT ![c] = "process"]
        /\ packet' = [packet EXCEPT ![c] = Head(down[c])]
        /\ down' = [down EXCEPT ![c] = Tail(down[c])]
    BY DEF NetRead
  <1>2. TypeOK
    BY DEF IInv
  <1>3. down \in [Client -> Seq(Messages)]
    BY <1>2 DEF TypeOK
  <1>4. /\ Head(down[c]) \in Messages /\ Tail(down[c]) \in Seq(Messages)
        /\ Len(Tail(down[c])) = Len(down[c]) - 1
    BY <1>1, <1>3, HeadMoved
  <1>5. /\ net' \in [Client -> {"read", "process"}]
        /\ packet' \in [Client -> Messages \cup {Nothing}]
        /\ down' \in [Client -> Seq(Messages)]
        /\ \A d \in Client : net'[d] = "process" => packet'[d] \in Messages
        /\ \A d \in Client \ {c} :
              net'[d] = net[d] /\ packet'[d] = packet[d] /\ down'[d] = down[d]
        /\ net'[c] = "process" /\ packet'[c] = Head(down[c]) /\ down'[c] = Tail(down[c])
    BY <1>1, <1>2, <1>3, <1>4 DEF TypeOK
  <1>6. TypeOK'
    BY <1>1, <1>2, <1>5, TypesButNet
  <1>7. WithinRoom'
    <2>1. Len(down[c]) \in Nat
      BY <1>3, LenProperties
    <2>2. \A d \in Client : Len(up[d]) <= UpRoom /\ Len(down[d]) <= DownRoom
      BY DEF WithinRoom, IInv
    <2>3. Len(down'[c]) <= DownRoom
      BY <2>1, <2>2, <1>4, <1>5, BackpressureAssumption
    <2> QED BY <2>2, <2>3, <1>1, <1>5 DEF WithinRoom
  <1>8. RoundIsReady'
    BY <1>1, RoundUnchanged DEF IInv, brokerVars, Ready
  <1>9. SameOrder'
    <2>1. got[c] \in Seq(Messages) /\ down[c] \in Seq(Messages)
      BY StreamsTyped
    <2>2. Held(c) = <<>> /\ Held(c)' = <<Head(down[c])>>
      BY <1>1, <1>5 DEF Held
    <2>3. (got[c] \o <<Head(down[c])>>) \o Tail(down[c]) = (got[c] \o <<>>) \o down[c]
      BY <2>1, <1>1, ReadKeepsStream
    <2>4. \A d \in Client \ {c} : Held(d)' = Held(d)
      BY <1>5 DEF Held
    <2> QED BY <1>1, <1>5, <2>2, <2>3, <2>4, SameOrderButOne DEF brokerVars
  <1> QED BY <1>1, <1>6, <1>7, <1>8, <1>9 DEF IInv, brokerVars

(* It processes the message.                                               *)
LEMMA NetProcessKeeps ==
    ASSUME IInv, NEW c \in Client, NetProcess(c)
    PROVE  IInv'
  <1>1. /\ UNCHANGED <<role, faults, process, appVars, up, down, brokerVars>>
        /\ net[c] = "process"
        /\ net' = [net EXCEPT ![c] = "read"]
        /\ got' = [got EXCEPT ![c] = Append(got[c], packet[c])]
        /\ packet' = [packet EXCEPT ![c] = Nothing]
    BY DEF NetProcess
  <1>2. TypeOK
    BY DEF IInv
  <1>3. packet[c] \in Messages /\ got[c] \in Seq(Messages)
    BY <1>1, <1>2 DEF TypeOK
  <1>4. Append(got[c], packet[c]) \in Seq(Messages)
    BY <1>3, AppendProperties
  <1>5. /\ net' \in [Client -> {"read", "process"}]
        /\ packet' \in [Client -> Messages \cup {Nothing}]
        /\ got' \in [Client -> Seq(Messages)]
        /\ \A d \in Client : net'[d] = "process" => packet'[d] \in Messages
        /\ \A d \in Client \ {c} :
              net'[d] = net[d] /\ packet'[d] = packet[d] /\ got'[d] = got[d]
        /\ net'[c] = "read" /\ got'[c] = Append(got[c], packet[c])
    BY <1>1, <1>2, <1>4 DEF TypeOK
  <1>6. TypeOK'
    BY <1>1, <1>2, <1>5, TypesButNet
  <1>7. WithinRoom'
    BY <1>1 DEF IInv, WithinRoom
  <1>8. RoundIsReady'
    BY <1>1, RoundUnchanged DEF IInv, brokerVars, Ready
  <1>9. SameOrder'
    <2>1. Held(c) = <<packet[c]>> /\ Held(c)' = <<>>
      BY <1>1, <1>5 DEF Held
    <2>2. Append(got[c], packet[c]) \o <<>> = got[c] \o <<packet[c]>>
      BY <1>3, ProcessKeepsStream
    <2>3. \A d \in Client \ {c} : Held(d)' = Held(d)
      BY <1>5 DEF Held
    <2> QED BY <1>1, <1>5, <2>1, <2>2, <2>3, SameOrderButOne DEF brokerVars
  <1> QED BY <1>1, <1>6, <1>7, <1>8, <1>9 DEF IInv, brokerVars

(* A client stops.                                                         *)
LEMMA StopKeeps ==
    ASSUME IInv, NEW c \in Client, Stop(c)
    PROVE  IInv'
  <1>1. /\ UNCHANGED <<role, appVars, netVars, up, down, brokerVars>>
        /\ faults < MaxFaults /\ faults' = faults + 1
        /\ process' = [process EXCEPT ![c] = "stopped"] /\ process[c] = "runs"
    BY DEF Stop, Fault, Runs
  <1>2. TypeOK
    BY DEF IInv
  <1>3. /\ process' \in [Client -> {"runs", "stopped", "gone"}]
        /\ \A d \in Client : process'[d] # "gone" => process[d] # "gone"
    BY <1>1, <1>2 DEF TypeOK
  <1>4. faults' \in 0 .. MaxFaults
    BY <1>1, <1>2, BackpressureAssumption DEF TypeOK
  <1>5. TypeOK'
    BY <1>1, <1>2, <1>3, <1>4, TypesButFault
  <1>6. WithinRoom'
    BY <1>1 DEF IInv, WithinRoom
  <1>7. RoundIsReady'
    BY <1>1, RoundUnchanged DEF IInv, brokerVars, Ready
  <1>8. SameOrder'
    BY <1>1, <1>2, <1>3, SameOrderOfLeft DEF IInv, netVars, brokerVars
  <1> QED BY <1>1, <1>5, <1>6, <1>7, <1>8 DEF IInv, brokerVars

(* A client leaves.                                                        *)
LEMMA LeaveKeeps ==
    ASSUME IInv, NEW c \in Client, Leave(c)
    PROVE  IInv'
  <1>1. /\ UNCHANGED <<role, appVars, netVars, up, brokerVars>>
        /\ (faults < MaxFaults /\ faults' = faults + 1) \/ UNCHANGED faults
        /\ process' = [process EXCEPT ![c] = "gone"]
        /\ down' = [down EXCEPT ![c] = <<>>]
    BY DEF Leave, Fault
  <1>2. TypeOK
    BY DEF IInv
  <1>3. /\ process' \in [Client -> {"runs", "stopped", "gone"}]
        /\ down' \in [Client -> Seq(Messages)] /\ down'[c] = <<>>
        /\ \A d \in Client \ {c} : down'[d] = down[d]
        /\ \A d \in Client : process'[d] # "gone" => d # c /\ process[d] # "gone"
    BY <1>1, <1>2 DEF TypeOK
  <1>4. faults' \in 0 .. MaxFaults
    BY <1>1, <1>2, BackpressureAssumption DEF TypeOK
  <1>5. TypeOK'
    BY <1>1, <1>2, <1>3, <1>4, TypesButFault
  <1>6. WithinRoom'
    <2>1. Len(<<>>) <= DownRoom
      BY BackpressureAssumption
    <2> QED BY <2>1, <1>1, <1>3 DEF IInv, WithinRoom
  <1>7. RoundIsReady'
    BY <1>1, RoundUnchanged DEF IInv, brokerVars, Ready
  <1>8. SameOrder'
    BY <1>1, <1>2, <1>3, SameOrderOfLeft DEF IInv, netVars, brokerVars
  <1> QED BY <1>1, <1>5, <1>6, <1>7, <1>8 DEF IInv, brokerVars

(* select() returns the descriptors with something to read.                *)
LEMMA SelectKeeps ==
    ASSUME IInv, Select
    PROVE  IInv'
  <1>1. /\ UNCHANGED <<up, down, at, todo, message, history>>
        /\ UNCHANGED <<role, faults, process, appVars, netVars>>
        /\ at = "round" /\ turn' = {c \in Client : Ready(c)}
    BY DEF Select, Broker
  <1>2. TypeOK'
    BY <1>1, TypesButBroker DEF IInv, TypeOK
  <1>3. WithinRoom'
    BY <1>1 DEF IInv, WithinRoom
  <1>4. RoundIsReady'
    BY <1>1 DEF RoundIsReady, Ready
  <1>5. SameOrder'
    BY <1>1, SameOrderUnchanged DEF IInv
  <1> QED BY <1>1, <1>2, <1>3, <1>4, <1>5 DEF IInv

(* What is left when the broker has read a part.                           *)
LEMMA PartRead ==
    ASSUME IInv, NEW c \in Client, Ready(c), up' = [up EXCEPT ![c] = Tail(@)]
    PROVE  /\ up' \in [Client -> Seq(Parts)] /\ Head(up[c]) \in Parts
           /\ Len(up'[c]) <= UpRoom
           /\ \A d \in Client \ {c} : up'[d] = up[d]
  <1>1. up \in [Client -> Seq(Parts)] /\ up[c] \in Seq(Parts)
    BY DEF IInv, TypeOK
  <1>2. /\ Head(up[c]) \in Parts /\ Tail(up[c]) \in Seq(Parts)
        /\ Len(Tail(up[c])) = Len(up[c]) - 1
    BY <1>1, HeadMoved DEF Ready
  <1>3. Len(up[c]) \in Nat /\ Len(up[c]) <= UpRoom
    BY <1>1, LenProperties DEF IInv, WithinRoom
  <1> QED BY <1>1, <1>2, <1>3, BackpressureAssumption

(* The broker reads the size of a message.                                 *)
LEMMA ReadSizeKeeps ==
    ASSUME IInv, NEW c \in Client, ReadSize(c)
    PROVE  IInv'
  <1>1. /\ UNCHANGED <<turn, down, todo, message, history>>
        /\ UNCHANGED <<role, faults, process, appVars, netVars>>
        /\ at = "round" /\ at' = "data" /\ Least(c, turn)
        /\ up' = [up EXCEPT ![c] = Tail(@)]
    BY DEF ReadSize, Broker
  <1>2. Ready(c)
    BY <1>1 DEF IInv, RoundIsReady, Least
  <1>3. /\ up' \in [Client -> Seq(Parts)] /\ Len(up'[c]) <= UpRoom
        /\ \A d \in Client \ {c} : up'[d] = up[d]
    BY <1>1, <1>2, PartRead
  <1>4. TypeOK'
    BY <1>1, <1>3, TypesButBroker DEF IInv, TypeOK
  <1>5. WithinRoom'
    BY <1>1, <1>3 DEF IInv, WithinRoom
  <1>6. RoundIsReady'
    <2> SUFFICES ASSUME NEW d \in turn, d # c PROVE Ready(d)'
      BY <1>1 DEF RoundIsReady, Least
    <2>1. Ready(d) /\ d \in Client
      BY <1>1 DEF IInv, RoundIsReady, TypeOK
    <2> QED BY <2>1, <1>3 DEF Ready
  <1>7. SameOrder'
    BY <1>1, SameOrderUnchanged DEF IInv, netVars
  <1>8. todo = {}
    BY <1>1 DEF IInv
  <1> QED BY <1>1, <1>4, <1>5, <1>6, <1>7, <1>8 DEF IInv

(* It reads the data of a message and handles it.                          *)
LEMMA ReadDataKeeps ==
    ASSUME IInv, NEW c \in Client, ReadData(c)
    PROVE  IInv'
  <1> DEFINE m == <<c, Head(up[c])[2]>>
  <1>1. /\ UNCHANGED <<turn, down>>
        /\ UNCHANGED <<role, faults, process, appVars, netVars>>
        /\ at = "data" /\ at' = "push" /\ Least(c, turn) /\ Ready(c)
        /\ up' = [up EXCEPT ![c] = Tail(@)]
        /\ message' = m /\ history' = Append(history, m) /\ todo' = role.subs
    BY DEF ReadData, Broker, Handle
  <1>2. /\ up' \in [Client -> Seq(Parts)] /\ Len(up'[c]) <= UpRoom
        /\ Head(up[c]) \in Parts
        /\ \A d \in Client \ {c} : up'[d] = up[d]
    BY <1>1, PartRead
  <1>3. m \in Messages
    BY <1>2 DEF Messages, Parts
  <1>4. m[1] = c
    OBVIOUS
  <1> HIDE DEF m
  <1>5. history \in Seq(Messages) /\ TypeOK
    BY DEF IInv, TypeOK
  <1>6. Append(history, m) \in Seq(Messages)
    BY <1>3, <1>5, AppendProperties
  <1>7. TypeOK'
    <2>1. turn' \subseteq Client
      BY <1>1, <1>5 DEF TypeOK
    <2> QED BY <2>1, <1>1, <1>2, <1>3, <1>5, <1>6, TypesButBroker
  <1>8. WithinRoom'
    BY <1>1, <1>2 DEF IInv, WithinRoom
  <1>9. RoundIsReady'
    <2> SUFFICES ASSUME NEW d \in turn, d # c PROVE Ready(d)'
      BY <1>1, <1>4 DEF RoundIsReady
    <2>1. turn \subseteq Client
      BY <1>5 DEF TypeOK
    <2>2. ~Least(d, turn)
      BY <2>1, <1>1, LeastUnique
    <2>3. Ready(d)
      BY <2>2, <1>1 DEF IInv, RoundIsReady
    <2> QED BY <2>1, <2>3, <1>2 DEF Ready
  <1>10. SameOrder'
    <2> SUFFICES ASSUME NEW d \in role.subs, process[d] # "gone"
                 PROVE  ((got[d] \o Held(d)) \o down[d]) \o <<m>> = Append(history, m)
      BY <1>1 DEF SameOrder, Held, Pushes, netVars
    <2>1. d \in Client
      BY <1>5, BackpressureAssumption DEF TypeOK
    <2>2. Pushes(d) = <<>>
      BY <1>1 DEF IInv, Pushes
    <2>3. ((got[d] \o Held(d)) \o down[d]) \o <<>> = history
      BY <2>2 DEF IInv, SameOrder
    <2>4. (got[d] \o Held(d)) \o down[d] \in Seq(Messages)
      BY <2>1, StreamsTyped
    <2> QED BY <2>3, <2>4, <1>3, <1>5, HandleKeepsStream
  <1> QED BY <1>1, <1>7, <1>8, <1>9, <1>10 DEF IInv

(* A round goes on after the descriptor at which it was.                   *)
LEMMA RoundGoesOn ==
    ASSUME IInv, NEW c, turn' = turn \ {c}, at' = "round", UNCHANGED up,
           \A d \in turn : Ready(d) \/ d = c
    PROVE  RoundIsReady' /\ turn' \subseteq Client
  BY DEF IInv, TypeOK, RoundIsReady, Ready

(* The connection is at its end.                                           *)
LEMMA ReadEndKeeps ==
    ASSUME IInv, NEW c \in Client, ReadEnd(c)
    PROVE  IInv'
  <1>1. /\ UNCHANGED <<up, down, todo, message, history>>
        /\ UNCHANGED <<role, faults, process, appVars, netVars>>
        /\ at = "data" /\ at' = "round" /\ Least(c, turn) /\ turn' = turn \ {c}
    BY DEF ReadEnd, Broker
  <1>2. \A d \in turn : Ready(d) \/ d = c
    <2> SUFFICES ASSUME NEW d \in turn, d # c PROVE Ready(d)
      OBVIOUS
    <2>1. ~Least(d, turn)
      BY <1>1, LeastUnique DEF IInv, TypeOK
    <2> QED BY <2>1, <1>1 DEF IInv, RoundIsReady
  <1>3. RoundIsReady' /\ turn' \subseteq Client
    BY <1>1, <1>2, RoundGoesOn
  <1>4. TypeOK'
    BY <1>1, <1>3, TypesButBroker DEF IInv, TypeOK
  <1>5. WithinRoom'
    BY <1>1 DEF IInv, WithinRoom
  <1>6. SameOrder'
    BY <1>1, SameOrderUnchanged DEF IInv
  <1>7. todo = {}
    BY <1>1 DEF IInv
  <1> QED BY <1>1, <1>3, <1>4, <1>5, <1>6, <1>7 DEF IInv

(* The broker pushes the message to a subscriber.                          *)
LEMMA PushKeeps ==
    ASSUME IInv, NEW c \in Client, Push(c)
    PROVE  IInv'
  <1>1. /\ UNCHANGED <<up, turn, at, message, history>>
        /\ UNCHANGED <<role, faults, process, appVars, netVars>>
        /\ at = "push" /\ Least(c, todo) /\ todo' = todo \ {c}
    BY DEF Push, Broker
  <1>2. TypeOK /\ c \in todo
    BY <1>1 DEF IInv, Least
  <1>3. message \in Messages /\ down[c] \in Seq(Messages) /\ down \in [Client -> Seq(Messages)]
    BY <1>1, <1>2 DEF TypeOK
  <1>4. /\ Append(down[c], message) \in Seq(Messages)
        /\ Len(Append(down[c], message)) = Len(down[c]) + 1
    BY <1>3, AppendProperties
  <1>5. \/ process[c] = "gone" /\ down' = down
        \/ Len(down[c]) < DownRoom /\ down' = [down EXCEPT ![c] = Append(@, message)]
    BY DEF Push
  <1>6. /\ down' \in [Client -> Seq(Messages)]
        /\ \A d \in Client \ {c} : down'[d] = down[d]
        /\ process[c] # "gone" => down'[c] = Append(down[c], message)
    BY <1>3, <1>4, <1>5
  <1>7. TypeOK'
    BY <1>1, <1>2, <1>6, TypesButBroker DEF TypeOK
  <1>8. WithinRoom'
    <2>1. Len(down[c]) \in Nat
      BY <1>3, LenProperties
    <2>2. \A d \in Client : Len(up[d]) <= UpRoom /\ Len(down[d]) <= DownRoom
      BY DEF IInv, WithinRoom
    <2>3. Len(down'[c]) <= DownRoom
      BY <2>1, <2>2, <1>3, <1>4, <1>5, BackpressureAssumption
    <2> QED BY <2>2, <2>3, <1>1, <1>6 DEF WithinRoom
  <1>9. RoundIsReady'
    BY <1>1, RoundUnchanged DEF IInv, Ready
  <1>10. SameOrder'
    <2> SUFFICES ASSUME NEW d \in role.subs, process[d] # "gone"
                 PROVE  ((got[d] \o Held(d)) \o down'[d]) \o Pushes(d)' = history
      BY <1>1 DEF SameOrder, Held, netVars
    <2>1. d \in Client
      BY <1>2, BackpressureAssumption DEF TypeOK
    <2>2. ((got[d] \o Held(d)) \o down[d]) \o Pushes(d) = history
      BY DEF IInv, SameOrder
    <2>3. CASE d = c
      <3>1. Pushes(d) = <<message>> /\ Pushes(d)' = <<>>
        BY <2>3, <1>1, <1>2 DEF Pushes
      <3>2. down'[d] = Append(down[d], message)
        BY <2>3, <1>6
      <3>3. got[d] \o Held(d) \in Seq(Messages)
        BY <2>1, StreamsTyped
      <3>4. ((got[d] \o Held(d)) \o Append(down[d], message)) \o <<>>
                = ((got[d] \o Held(d)) \o down[d]) \o <<message>>
        <4> DEFINE g == got[d] \o Held(d)
        <4>1. g \in Seq(Messages) /\ down[d] \in Seq(Messages) /\ message \in Messages
          BY <3>3, <2>3, <1>3
        <4> HIDE DEF g
        <4>2. (g \o Append(down[d], message)) \o <<>> = (g \o down[d]) \o <<message>>
          BY ONLY <4>1, PushKeepsStream
        <4> QED BY <4>2 DEF g
      <3> QED BY <2>2, <3>1, <3>2, <3>4
    <2>4. CASE d # c
      <3>1. Pushes(d)' = Pushes(d) /\ down'[d] = down[d]
        BY <2>1, <2>4, <1>1, <1>6 DEF Pushes
      <3> QED BY <2>2, <3>1
    <2> QED BY <2>3, <2>4
  <1> QED BY <1>1, <1>7, <1>8, <1>9, <1>10 DEF IInv

(* It has pushed it to all of them.                                        *)
LEMMA PushedKeeps ==
    ASSUME IInv, Pushed
    PROVE  IInv'
  <1>1. /\ UNCHANGED <<up, down, todo, history>>
        /\ UNCHANGED <<role, faults, process, appVars, netVars>>
        /\ at = "push" /\ at' = "round" /\ todo = {}
        /\ turn' = turn \ {message[1]} /\ message' = Nothing
    BY DEF Pushed, Broker
  <1>2. RoundIsReady' /\ turn' \subseteq Client
    <2>1. \A d \in turn : Ready(d) \/ d = message[1]
      BY <1>1 DEF IInv, RoundIsReady
    <2> QED BY <2>1, <1>1, RoundGoesOn
  <1>3. TypeOK'
    BY <1>1, <1>2, TypesButBroker DEF IInv, TypeOK
  <1>4. WithinRoom'
    BY <1>1 DEF IInv, WithinRoom
  <1>5. SameOrder'
    BY <1>1 DEF IInv, SameOrder, Held, Pushes, netVars
  <1> QED BY <1>1, <1>2, <1>3, <1>4, <1>5 DEF IInv

-----------------------------------------------------------------------------
(* The theorems.                                                           *)

(* Every step keeps the invariant.                                         *)
THEOREM Inductive == IInv /\ [Next]_vars => IInv'
  <1> SUFFICES ASSUME IInv, [Next]_vars PROVE IInv'
    OBVIOUS
  <1>1. CASE Select
    BY <1>1, SelectKeeps
  <1>2. CASE Pushed
    BY <1>2, PushedKeeps
  <1>3. ASSUME NEW c \in Client, ReadSize(c) PROVE IInv'
    BY <1>3, ReadSizeKeeps
  <1>4. ASSUME NEW c \in Client, ReadData(c) PROVE IInv'
    BY <1>4, ReadDataKeeps
  <1>5. ASSUME NEW c \in Client, ReadEnd(c) PROVE IInv'
    BY <1>5, ReadEndKeeps
  <1>6. ASSUME NEW c \in Client, Push(c) PROVE IInv'
    BY <1>6, PushKeeps
  <1>7. ASSUME NEW c \in Client, Publish(c) PROVE IInv'
    BY <1>7, PublishKeeps
  <1>8. ASSUME NEW c \in Client, AppStep(c) PROVE IInv'
    BY <1>8, LockKeeps, WriteKeeps DEF AppStep
  <1>9. ASSUME NEW c \in Client, NetStep(c) PROVE IInv'
    BY <1>9, NetReadKeeps, NetProcessKeeps DEF NetStep
  <1>10. ASSUME NEW c \in Client, Stop(c) \/ Leave(c) PROVE IInv'
    BY <1>10, StopKeeps, LeaveKeeps
  <1>11. CASE UNCHANGED vars
    <2>1. /\ UNCHANGED <<role, faults, process, appVars, netVars>>
          /\ UNCHANGED <<up, down, turn, at, todo, message, history>>
      BY <1>11 DEF vars, brokerVars
    <2>2. TypeOK'
      BY <2>1, TypesButBroker DEF IInv, TypeOK
    <2>3. WithinRoom' /\ RoundIsReady'
      BY <2>1 DEF IInv, WithinRoom, RoundIsReady, Ready, Least
    <2>4. SameOrder'
      BY <2>1, SameOrderUnchanged DEF IInv
    <2> QED BY <2>1, <2>2, <2>3, <2>4 DEF IInv
  <1> QED BY <1>1, <1>2, <1>3, <1>4, <1>5, <1>6, <1>7, <1>8, <1>9, <1>10, <1>11
          DEF Next, BrokerStep

(* Types, room and rounds: what the broker reads is always there, and no   *)
(* buffer holds more than it can.                                          *)
THEOREM Invariance == Spec => []IInv
  <1> QED BY InitIInv, Inductive, PTL DEF Spec

(* All subscribers see all publications in the order of the broker,        *)
(* whoever waits for whom and whatever the sizes of the buffers            *)
(* (MyServer::publish(), MyClient::process()).                             *)
THEOREM OneOrder == Spec => []SameOrder
  <1>1. IInv => SameOrder
    BY DEF IInv
  <1> QED BY <1>1, Invariance, PTL
=============================================================================

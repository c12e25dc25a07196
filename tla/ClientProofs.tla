---------------------------- MODULE ClientProofs -----------------------------
(* Theorems about the client library, for every number of threads, Topic   *)
(* objects, topic names and notices.                                       *)
EXTENDS Client, SequenceTheorems, TLAPS

Noted == [type : {"SC_NOTIFY"}, name : SubNames, data : [val : Nat]]
Inbound == Noted \cup {KillClient}

Sent == [name : SubNames, version : Nat, answer : BOOLEAN]

(* What the types of TypeOK say where they are used.                       *)
LEMMA Typed ==
    ASSUME TypeOK
    PROVE  /\ inbound \in Seq(Inbound) /\ count \in Nat /\ notices \in Seq(Sent)
           /\ \A k \in 1 .. count : notices[k] \in Sent
           /\ \A n \in DOMAIN topics : n \in SubNames /\ topics[n] \in Object
           /\ \A o \in Object : held[o] \in Nat /\ o # NoObject
           /\ \A t \in Thread, n \in SubNames : got[t][n] \in Nat
           /\ \A k \in 1 .. Len(inbound) :
                 /\ inbound[k] \in Inbound
                 /\ inbound[k] # KillClient => inbound[k] \in Noted
           /\ \A m \in Noted : m.type = "SC_NOTIFY" /\ m.name \in SubNames /\ m.data.val \in Nat
           /\ KillClient.type = "SC_KILLCLIENT" /\ KillClient \notin Noted
  <1>1. inbound \in Seq(Inbound)
    BY DEF TypeOK, Inbound, Noted
  <1>2. \A k \in 1 .. Len(inbound) : inbound[k] \in Inbound
    BY <1>1, ElementOfSeq
  <1>3. /\ notices \in Seq(Sent) /\ count \in Nat
        /\ \A k \in 1 .. count : notices[k] \in Sent
    <2>1. notices \in Seq(Sent)
      BY DEF TypeOK, Sent
    <2> QED BY <2>1, LenProperties, ElementOfSeq DEF count
  <1>4. \A n \in DOMAIN topics : n \in SubNames /\ topics[n] \in Object
    BY DEF TypeOK, IsMap
  <1>5. \A o \in Object : held[o] \in Nat /\ o # NoObject
    BY ClientAssumption DEF TypeOK, NoObject
  <1>6. \A t \in Thread, n \in SubNames : got[t][n] \in Nat
    BY DEF TypeOK
  <1>7. \A m \in Noted : m.type = "SC_NOTIFY" /\ m.name \in SubNames /\ m.data.val \in Nat
    BY DEF Noted
  <1>8. KillClient.type = "SC_KILLCLIENT"
    BY DEF KillClient
  <1> QED BY <1>1, <1>2, <1>3, <1>4, <1>5, <1>6, <1>7, <1>8 DEF Inbound

(* The message at the head of the stream, and the stream without it.       *)
LEMMA HeadOfStream ==
    ASSUME TypeOK, inbound # <<>>
    PROVE  /\ Head(inbound) = inbound[1] /\ Head(inbound) \in Inbound
           /\ 1 \in 1 .. Len(inbound)
           /\ Tail(inbound) \in Seq(Inbound)
           /\ \A k \in 1 .. Len(Tail(inbound)) :
                 k + 1 \in 1 .. Len(inbound) /\ Tail(inbound)[k] = inbound[k + 1]
  <1>1. inbound \in Seq(Inbound)
    BY Typed
  <1>2. Len(inbound) \in Nat /\ Len(inbound) # 0
    BY <1>1, EmptySeq, LenProperties
  <1>3. Head(inbound) = inbound[1]
    BY <1>1
  <1> QED BY <1>1, <1>2, <1>3, HeadTailProperties

(* The first of the subscriptions that the broker has not read.            *)
LEMMA HeadOfAsked ==
    ASSUME TypeOK, asked # <<>>
    PROVE  /\ 1 \in 1 .. Len(asked) /\ Head(asked) = asked[1]
           /\ \A k \in 1 .. Len(Tail(asked)) :
                 k + 1 \in 1 .. Len(asked) /\ Tail(asked)[k] = asked[k + 1]
  <1>1. asked \in Seq(SubNames)
    BY DEF TypeOK
  <1>2. Len(asked) \in Nat /\ Len(asked) # 0
    BY <1>1, EmptySeq, LenProperties
  <1>3. Head(asked) = asked[1]
    BY <1>1
  <1> QED BY <1>1, <1>2, <1>3, HeadTailProperties

(* The first state.                                                        *)
LEMMA InitOK == Init => IInv
  <1> SUFFICES ASSUME Init PROVE IInv
    OBVIOUS
  <1> USE DEF Init
  <1>0. count = 0
    BY EmptySeq DEF count
  <1>1. TypeOK
    <2>1. inbound \in Seq(Noted \cup {KillClient})
      BY EmptySeq
    <2>2. IsMap(topics, SubNames, Object)
      BY DEF IsMap, EmptyMap
    <2>3. asked \in Seq(SubNames) /\ notices \in Seq(Sent)
      BY EmptySeq
    <2>4. call \in [Thread -> [name : SubNames \cup {"none"}, wait : GetWaits]]
      BY DEF NoCall, GetWaits
    <2> QED BY <2>1, <2>2, <2>3, <2>4 DEF TypeOK, Noted, Sent
  <1>2. CallsOK /\ NoKillWhileUp /\ OwnObjects /\ ConnectedWhileUp
    BY DEF CallsOK, Gets, NoKillWhileUp, OwnObjects, ConnectedWhileUp, EmptyMap
  <1>3. InOrder
    BY <1>0, EmptySeq DEF InOrder, Later
  <1>4. HeldIsNew /\ AwaitedIsNew
    BY DEF HeldIsNew, AwaitedIsNew, Gets, EmptyMap
  <1>5. AskedOK /\ VersionsGrow /\ OwnNotices
    BY <1>0, EmptySeq DEF AskedOK, VersionsGrow, OwnNotices, Gets, EmptyMap
  <1> QED BY <1>1, <1>2, <1>3, <1>4, <1>5 DEF IInv

-----------------------------------------------------------------------------
(* Types.                                                                  *)

(* A signal.                                                               *)
LEMMA SignalTyped ==
    ASSUME TypeOK, NEW condition \in BOOLEAN, SignalIf(condition)
    PROVE  /\ waittopic' \in {NoTopic, AnyTopic} \cup {Topic(n) : n \in SubNames}
           /\ waiters' \subseteq waiters
  <1>1. CASE condition
    <2>1. waiters' \subseteq waiters
      BY <1>1 DEF SignalIf
    <2> QED BY <1>1, <2>1 DEF SignalIf
  <1>2. CASE ~condition
    BY <1>2 DEF SignalIf, TypeOK
  <1> QED BY <1>1, <1>2

(* The steps of the network thread.                                        *)
LEMMA ReadTyped ==
    ASSUME TypeOK, Read
    PROVE  inbound' \in Seq(Noted \cup {KillClient})
  BY HeadOfStream DEF Read, Inbound

LEMMA NetTyped ==
    ASSUME TypeOK, Net
    PROVE  TypeOK'
  <1> USE DEF netVars, topicVars, threadVars, wireVars, brokerVars
  <1>1. CASE ProcessKill
    <2>1. /\ waittopic' \in {NoTopic, AnyTopic} \cup {Topic(n) : n \in SubNames}
          /\ waiters' \subseteq waiters
      BY <1>1, SignalTyped DEF ProcessKill
    <2>2. inbound' \in Seq(Noted \cup {KillClient})
      BY <1>1, ReadTyped DEF ProcessKill
    <2> QED BY <1>1, <2>1, <2>2 DEF TypeOK, ProcessKill, Read, Waiting, Noted
  <1>2. CASE ProcessNotify
    <2> DEFINE n == Head(inbound).name
               here == {topics[m] : m \in {n} \cap DOMAIN topics}
    <2>1. /\ waittopic' \in {NoTopic, AnyTopic} \cup {Topic(m) : m \in SubNames}
          /\ waiters' \subseteq waiters
      BY <1>2, SignalTyped DEF ProcessNotify
    <2>2. inbound' \in Seq(Noted \cup {KillClient})
      BY <1>2, ReadTyped DEF ProcessNotify
    <2>3. Head(inbound).data.val \in Nat
      BY <1>2, HeadOfStream, Typed DEF ProcessNotify, Read, Inbound
    <2>4. held' \in [Object -> Nat]
      BY <1>2, <2>3 DEF ProcessNotify, TypeOK
    <2>5. state' \in [Object -> {"TOPIC_NODATA", "TOPIC_UNCHANGED", "TOPIC_CHANGED"}]
      BY <1>2 DEF ProcessNotify, TypeOK
    <2>6. /\ net' = "test"
          /\ UNCHANGED <<client, topics, threadVars, asked, brokerVars, server, mutex, alive>>
          /\ running' = running
      BY <1>2 DEF ProcessNotify, Read
    <2> HIDE DEF here, n
    <2> QED BY <2>1, <2>2, <2>4, <2>5, <2>6 DEF TypeOK, Waiting, Noted
  <1>3. CASE NetTest \/ NetClosed \/ NetDelete \/ NetStop
    BY <1>3 DEF NetTest, NetClosed, NetDelete, NetStop, TypeOK, Waiting
  <1> QED BY <1>1, <1>2, <1>3 DEF Net

(* The steps of the broker.                                                *)
LEMMA NoteTyped ==
    ASSUME TypeOK, NEW n \in SubNames, NEW v \in Nat, NEW answer \in BOOLEAN,
           Note(n, v, answer)
    PROVE  /\ inbound' \in Seq(Noted \cup {KillClient})
           /\ notices' \in Seq(Sent)
  <1>1. Notify(n, UserData(count + 1)) \in Noted
    BY Typed DEF Notify, UserData, Noted
  <1>2. [name |-> n, version |-> v, answer |-> answer] \in Sent
    BY DEF Sent
  <1>3. inbound \in Seq(Noted \cup {KillClient}) /\ notices \in Seq(Sent)
    BY Typed DEF Inbound
  <1> QED BY <1>1, <1>2, <1>3, AppendProperties DEF Note

LEMMA ServerTyped ==
    ASSUME TypeOK,
           \/ \E n \in SubNames : ServerPublish(n) \/ ServerAnswer(n)
           \/ ServerClear \/ ServerKill \/ ServerGone
    PROVE  TypeOK'
  <1> USE DEF netVars, topicVars, threadVars
  <1>1. /\ inbound \in Seq(Noted \cup {KillClient}) /\ notices \in Seq(Sent)
        /\ asked \in Seq(SubNames) /\ <<>> \in Seq(SubNames)
    BY Typed, EmptySeq DEF Inbound, TypeOK
  <1>2. ASSUME NEW n \in SubNames, ServerPublish(n) PROVE TypeOK'
    <2>1. published' \in Nat /\ stored' \in [SubNames -> Nat]
      BY <1>2 DEF ServerPublish, TypeOK
    <2>2. inbound' \in Seq(Noted \cup {KillClient}) /\ notices' \in Seq(Sent)
      BY <1>1, <1>2, <2>1, NoteTyped DEF ServerPublish
    <2> QED BY <1>2, <2>1, <2>2 DEF ServerPublish, TypeOK, Waiting, Noted, Sent
  <1>3. ASSUME NEW n \in SubNames, ServerAnswer(n) PROVE TypeOK'
    <2>1. asked' \in Seq(SubNames) /\ known' \subseteq SubNames
      BY <1>1, <1>3, HeadTailProperties DEF ServerAnswer, TypeOK
    <2>2. inbound' \in Seq(Noted \cup {KillClient}) /\ notices' \in Seq(Sent)
      BY <1>1, <1>3, NoteTyped DEF ServerAnswer, TypeOK
    <2> QED BY <1>3, <2>1, <2>2 DEF ServerAnswer, TypeOK, Waiting, Noted, Sent
  <1>4. CASE ServerClear
    BY <1>4 DEF ServerClear, TypeOK, Waiting
  <1>5. CASE ServerKill
    <2>1. inbound' \in Seq(Noted \cup {KillClient})
      BY <1>1, <1>5, AppendProperties DEF ServerKill
    <2> QED BY <1>1, <1>5, <2>1 DEF ServerKill, BrokerEnds, TypeOK, Waiting, Noted
  <1>6. CASE ServerGone
    <2>1. inbound' \in Seq(Noted \cup {KillClient})
      BY <1>1, <1>6, EmptySeq DEF ServerGone
    <2> QED BY <1>1, <1>6, <2>1 DEF ServerGone, BrokerEnds, TypeOK, Waiting, Noted
  <1> QED BY <1>2, <1>3, <1>4, <1>5, <1>6

(* The steps of a thread of the application: what they do to its own state *)
(* and to the topics.                                                      *)
LEMMA ReturnTopicTyped ==
    ASSUME TypeOK, CallsOK, NEW t \in Thread, NEW o \in Object,
           pc[t] = "get" \/ Waiting(t), t \notin waiters, call[t].name \in SubNames,
           ReturnTopic(t, o), UNCHANGED <<netVars, wireVars, mutex, alive>>
    PROVE  TypeOK'
  <1> USE DEF netVars, wireVars, brokerVars
  <1>1. held[o] \in Nat
    BY Typed
  <1>2. got' \in [Thread -> [SubNames -> Nat]]
    BY <1>1 DEF ReturnTopic, TypeOK
  <1>3. /\ pc' \in [Thread -> {"idle", "get", "subscribe", "request",
                               "waitdata", "waitnew", "waitany"}]
        /\ call' \in [Thread -> [name : SubNames \cup {"none"}, wait : GetWaits]]
        /\ obj' \in [Thread -> Object \cup {NoObject}]
    BY DEF ReturnTopic, Return, TypeOK, NoCall, GetWaits
  <1>4. state' \in [Object -> {"TOPIC_NODATA", "TOPIC_UNCHANGED", "TOPIC_CHANGED"}]
    BY DEF ReturnTopic, TypeOK
  <1>5. waiters' \subseteq {s \in Thread : Waiting(s)'}
    BY DEF ReturnTopic, Return, TypeOK, Waiting
  <1>6. waittopic' = NoTopic /\ UNCHANGED <<topics, held, waiters>>
    BY DEF ReturnTopic
  <1> QED BY <1>2, <1>3, <1>4, <1>5, <1>6 DEF TypeOK, Waiting

LEMMA CondWaitTyped ==
    ASSUME TypeOK, NEW t \in Thread, NEW where \in {"waitdata", "waitnew", "waitany"},
           NEW o \in Object \cup {NoObject},
           NEW w \in {NoTopic, AnyTopic} \cup {Topic(n) : n \in SubNames},
           CondWait(t, where, o, w), UNCHANGED <<netVars, wireVars, mutex, alive>>
    PROVE  TypeOK'
  <1> USE DEF netVars, topicVars, wireVars, brokerVars
  <1>1. pc' \in [Thread -> {"idle", "get", "subscribe", "request",
                            "waitdata", "waitnew", "waitany"}]
    BY DEF CondWait, TypeOK
  <1>2. obj' \in [Thread -> Object \cup {NoObject}]
    BY DEF CondWait, TypeOK
  <1>3. waiters' \subseteq {s \in Thread : Waiting(s)'}
    BY DEF CondWait, TypeOK, Waiting
  <1>4. waittopic' = w /\ UNCHANGED <<topicVars, call, got>>
    BY DEF CondWait
  <1> QED BY <1>1, <1>2, <1>3, <1>4 DEF TypeOK, Waiting

(* The object that a waiting get() has, and the one that get() finds.      *)
LEMMA Awaits ==
    ASSUME TypeOK, CallsOK, NEW t \in Thread, Waiting(t), pc[t] # "waitany"
    PROVE  /\ Gets(t) /\ pc[t] \in {"waitdata", "waitnew"} /\ obj[t] \in Object
           /\ call[t].name \in DOMAIN topics /\ call[t].name \in SubNames
           /\ Topic(call[t].name) \in {NoTopic, AnyTopic} \cup {Topic(n) : n \in SubNames}
  <1>1. Gets(t)
    BY DEF Waiting, Gets
  <1>2. obj[t] \in Object /\ call[t].name \in DOMAIN topics
    BY <1>1 DEF CallsOK
  <1>3. call[t].name \in SubNames
    BY <1>2, Typed
  <1> QED BY <1>1, <1>2, <1>3 DEF Gets

LEMMA Finds ==
    ASSUME TypeOK, NEW t \in Thread, NEW o, Found(t, o)
    PROVE  /\ pc[t] = "get" /\ t \notin waiters
           /\ call[t].name \in DOMAIN topics /\ call[t].name \in SubNames
           /\ o = topics[call[t].name] /\ o \in Object
           /\ Topic(call[t].name) \in {NoTopic, AnyTopic} \cup {Topic(n) : n \in SubNames}
  <1>1. pc[t] = "get" /\ call[t].name \in DOMAIN topics /\ o = topics[call[t].name]
    BY DEF Found
  <1>2. call[t].name \in SubNames /\ o \in Object
    BY <1>1, Typed
  <1>3. t \notin waiters
    BY <1>1 DEF TypeOK, Waiting
  <1> QED BY <1>1, <1>2, <1>3

(* The steps that only begin or end a call.                                *)
LEMMA CallTyped ==
    ASSUME TypeOK, NEW t \in Thread, t \notin waiters,
           pc' = [pc EXCEPT ![t] = pc'[t]], 
           pc'[t] \in {"idle", "get", "subscribe", "request"},
           call' = [call EXCEPT ![t] = call'[t]],
           call'[t] \in [name : SubNames \cup {"none"}, wait : GetWaits],
           obj' = obj \/ obj' = [obj EXCEPT ![t] = NoObject],
           waittopic' \in {waittopic, NoTopic},
           UNCHANGED <<netVars, topicVars, got, wireVars, waiters, mutex, alive>>
    PROVE  TypeOK'
  <1> USE DEF netVars, topicVars, wireVars, brokerVars
  <1>1. pc' \in [Thread -> {"idle", "get", "subscribe", "request",
                            "waitdata", "waitnew", "waitany"}]
    BY DEF TypeOK
  <1>2. call' \in [Thread -> [name : SubNames \cup {"none"}, wait : GetWaits]]
    BY DEF TypeOK
  <1>3. obj' \in [Thread -> Object \cup {NoObject}]
    BY DEF TypeOK
  <1>4. waiters' \subseteq {s \in Thread : Waiting(s)'}
    BY DEF TypeOK, Waiting
  <1>5. waittopic' \in {NoTopic, AnyTopic} \cup {Topic(n) : n \in SubNames}
    BY DEF TypeOK
  <1> QED BY <1>1, <1>2, <1>3, <1>4, <1>5 DEF TypeOK

(* The steps up to lock().                                                 *)
LEMMA CallsTyped ==
    ASSUME TypeOK, CallsOK, NEW t \in Thread, Calls(t)
    PROVE  TypeOK'
  <1> USE DEF netVars, topicVars, wireVars, threadVars, brokerVars
  <1>1. ASSUME Enter(t, "get") \/ Enter(t, "subscribe") \/ Enter(t, "request"),
               call' = [call EXCEPT ![t] = call'[t]],
               call'[t] \in [name : SubNames \cup {"none"}, wait : GetWaits]
        PROVE  TypeOK'
    <2>1. t \notin waiters
      BY <1>1 DEF Enter, TypeOK, Waiting
    <2>2. pc' = [pc EXCEPT ![t] = pc'[t]] /\ pc'[t] \in {"get", "subscribe", "request"}
      BY <1>1 DEF Enter, TypeOK
    <2>3. UNCHANGED <<netVars, topicVars, obj, got, wireVars, waittopic, waiters,
                      mutex, alive>>
      BY <1>1 DEF Enter
    <2> QED BY <1>1, <2>1, <2>2, <2>3, CallTyped
  <1>2. call[t] \in [name : SubNames \cup {"none"}, wait : GetWaits]
    BY DEF TypeOK
  <1>3. ASSUME NEW n \in SubNames, NEW w \in GetWaits, CallGet(t, n, w) PROVE TypeOK'
    <2>1. call' = [call EXCEPT ![t] = call'[t]] /\ call'[t] = [name |-> n, wait |-> w]
      BY <1>3 DEF CallGet, TypeOK
    <2> QED BY <1>1, <1>3, <2>1 DEF CallGet
  <1>4. ASSUME NEW n \in SubNames, CallSubscribe(t, n) PROVE TypeOK'
    <2>1. /\ call' = [call EXCEPT ![t] = call'[t]]
          /\ call'[t] \in [name : SubNames \cup {"none"}, wait : GetWaits]
      BY <1>2, <1>4 DEF CallSubscribe, TypeOK
    <2> QED BY <1>1, <1>4, <2>1 DEF CallSubscribe
  <1>5. CASE CallRequest(t)
    <2>1. call' = [call EXCEPT ![t] = call'[t]] /\ call'[t] = call[t]
      BY <1>5 DEF CallRequest, TypeOK
    <2> QED BY <1>1, <1>2, <1>5, <2>1 DEF CallRequest
  <1>6. CASE WaitForAny(t)
    <2>1. CondWait(t, "waitany", NoObject, AnyTopic) /\ UNCHANGED <<netVars, wireVars, mutex, alive>>
      BY <1>6 DEF WaitForAny
    <2> QED BY <2>1, CondWaitTyped
  <1> QED BY <1>3, <1>4, <1>5, <1>6 DEF Calls

(* The steps from lock() on.                                               *)
LEMMA ReturnTyped ==
    ASSUME TypeOK, NEW t \in Thread, t \notin waiters, Return(t),
           waittopic' \in {waittopic, NoTopic},
           UNCHANGED <<netVars, topicVars, got, wireVars, waiters, mutex, alive>>
    PROVE  TypeOK'
  <1>1. /\ pc' = [pc EXCEPT ![t] = pc'[t]] /\ pc'[t] = "idle"
        /\ call' = [call EXCEPT ![t] = call'[t]] /\ call'[t] = NoCall
        /\ obj' = [obj EXCEPT ![t] = NoObject]
    BY DEF Return, TypeOK
  <1>2. NoCall \in [name : SubNames \cup {"none"}, wait : GetWaits]
    BY DEF NoCall, GetWaits
  <1> QED BY <1>1, <1>2, CallTyped

(* A request.                                                              *)
LEMMA NewTopicTyped ==
    ASSUME TypeOK, NEW n \in SubNames, NewTopic(n)
    PROVE  /\ IsMap(topics', SubNames, Object)
           /\ state' \in [Object -> {"TOPIC_NODATA", "TOPIC_UNCHANGED", "TOPIC_CHANGED"}]
           /\ held' \in [Object -> Nat]
  <1> DEFINE rest == InUse(DOMAIN topics \ {n})
  <1>1. PICK o \in Object :
          /\ topics' = Put(topics, n, o)
          /\ state' = [p \in Object |-> IF p \in rest THEN state[p] ELSE "TOPIC_NODATA"]
          /\ held' = [p \in Object |-> IF p \in rest THEN held[p] ELSE 0]
    BY DEF NewTopic
  <1> HIDE DEF rest
  <1>2. IsMap(topics', SubNames, Object)
    BY <1>1 DEF Put, IsMap, TypeOK
  <1> QED BY <1>1, <1>2 DEF TypeOK

LEMMA SendsTyped ==
    ASSUME TypeOK, NEW t \in Thread, NEW kind \in {"subscribe", "request"}, Sends(t, kind),
           /\ IsMap(topics', SubNames, Object)
           /\ state' \in [Object -> {"TOPIC_NODATA", "TOPIC_UNCHANGED", "TOPIC_CHANGED"}]
           /\ held' \in [Object -> Nat],
           asked' \in Seq(SubNames), mutex' \in {"free", "lost"}
    PROVE  TypeOK'
  <1> USE DEF netVars, brokerVars
  <1>1. /\ pc' \in [Thread -> {"idle", "get", "subscribe", "request",
                               "waitdata", "waitnew", "waitany"}]
        /\ call' \in [Thread -> [name : SubNames \cup {"none"}, wait : GetWaits]]
    BY DEF Sends, TypeOK, NoCall, GetWaits
  <1>2. waiters' \subseteq {s \in Thread : Waiting(s)'}
    BY DEF Sends, TypeOK, Waiting
  <1>3. UNCHANGED <<netVars, obj, got, inbound, brokerVars, server, waittopic, alive>>
    BY DEF Sends
  <1> QED BY <1>1, <1>2, <1>3 DEF TypeOK

LEMMA RequestsTyped ==
    ASSUME TypeOK, CallsOK, NEW t \in Thread,
           Subscribed(t) \/ Requested(t) \/ RequestThrows(t)
    PROVE  TypeOK'
  <1>1. /\ asked \in Seq(SubNames) /\ mutex \in {"free", "lost"}
        /\ IsMap(topics, SubNames, Object)
        /\ state \in [Object -> {"TOPIC_NODATA", "TOPIC_UNCHANGED", "TOPIC_CHANGED"}]
        /\ held \in [Object -> Nat]
    BY DEF TypeOK
  <1>2. ASSUME Sends(t, "subscribe") PROVE call[t].name \in SubNames
    BY <1>2 DEF Sends, CallsOK
  <1>3. CASE Subscribed(t)
    <2>1. asked' \in Seq(SubNames)
      BY <1>1, <1>2, <1>3, AppendProperties DEF Subscribed
    <2> QED BY <1>1, <1>2, <1>3, <2>1, NewTopicTyped, SendsTyped DEF Subscribed
  <1>4. CASE Requested(t)
    BY <1>1, <1>4, SendsTyped DEF Requested, topicVars
  <1>5. CASE RequestThrows(t)
    BY <1>1, <1>2, <1>5, NewTopicTyped, SendsTyped DEF RequestThrows, topicVars
  <1> QED BY <1>3, <1>4, <1>5

LEMMA LockedTyped ==
    ASSUME TypeOK, CallsOK, NEW t \in Thread, Locked(t)
    PROVE  TypeOK'
  <1> USE DEF netVars, topicVars, wireVars, brokerVars
  <1>1. CASE GetNotFound(t)
    BY <1>1, ReturnTyped DEF GetNotFound, TypeOK, Waiting
  <1>2. ASSUME NEW o \in Object, GetNoData(t, o) PROVE TypeOK'
    BY <1>2, Finds, ReturnTyped DEF GetNoData, Found
  <1>3. ASSUME NEW o \in Object, GetTopic(t, o) PROVE TypeOK'
    BY <1>3, Finds, ReturnTopicTyped DEF GetTopic, Found
  <1>4. ASSUME NEW o \in Object, GetWait(t, o) PROVE TypeOK'
    BY <1>4, Finds, CondWaitTyped DEF GetWait, Found
  <1>5. CASE GetAborted(t)
    BY <1>5, ReturnTyped DEF GetAborted, Woken
  <1>6. CASE GetWaitAgain(t)
    BY <1>6, Awaits, CondWaitTyped DEF GetWaitAgain, Woken
  <1>7. CASE GetWaited(t)
    BY <1>7, Awaits, ReturnTopicTyped DEF GetWaited, Woken
  <1>8. CASE AnyArrived(t)
    <2>1. pc' = [pc EXCEPT ![t] = pc'[t]] /\ pc'[t] = "idle"
      BY <1>8 DEF AnyArrived, TypeOK
    <2>2. call' = [call EXCEPT ![t] = call'[t]]
      BY <1>8 DEF AnyArrived, TypeOK
    <2>3. call'[t] \in [name : SubNames \cup {"none"}, wait : GetWaits]
      BY <1>8 DEF AnyArrived, TypeOK
    <2> QED BY <1>8, <2>1, <2>2, <2>3, CallTyped DEF AnyArrived, Woken
  <1> QED BY <1>1, <1>2, <1>3, <1>4, <1>5, <1>6, <1>7, <1>8, RequestsTyped DEF Locked

LEMMA TypeKept ==
    ASSUME TypeOK, CallsOK, [Next]_vars
    PROVE  TypeOK'
  <1> USE DEF netVars, topicVars, wireVars, threadVars, brokerVars
  <1>1. ASSUME NEW t \in Thread, SpuriousWakeup(t) PROVE TypeOK'
    BY <1>1 DEF SpuriousWakeup, TypeOK, Waiting
  <1>2. ASSUME NEW t \in Thread, Dies(t) PROVE TypeOK'
    BY <1>2 DEF Dies, TypeOK, Waiting, NoCall, GetWaits
  <1>3. CASE UNCHANGED vars
    BY <1>3 DEF vars, TypeOK, Waiting
  <1> QED BY <1>1, <1>2, <1>3, NetTyped, ServerTyped, LockedTyped, CallsTyped DEF Next

-----------------------------------------------------------------------------
(* The client and the broker that is up.                                   *)

Up == ConnectedWhileUp /\ NoKillWhileUp

LEMMA UpKept ==
    ASSUME TypeOK, Up, [Next]_vars
    PROVE  Up'
  <1> USE DEF Up, ConnectedWhileUp, NoKillWhileUp, netVars, topicVars, wireVars, threadVars
  <1>1. ASSUME Read PROVE NoKillWhileUp' /\ alive /\ UNCHANGED <<server, mutex>>
    BY <1>1, HeadOfStream DEF Read, Lock
  <1>2. CASE ProcessKill
    <2>1. Head(inbound) = KillClient
      BY <1>2, HeadOfStream, Typed DEF ProcessKill, Read, Inbound
    <2>2. server # "up"
      BY <1>2, <2>1, HeadOfStream DEF ProcessKill, Read
    <2> QED BY <1>2, <2>2 DEF ProcessKill, Read
  <1>3. CASE ProcessNotify
    <2>1. net' = "test" /\ UNCHANGED <<running, client, server, mutex, alive>>
      BY <1>3 DEF ProcessNotify, Read
    <2> QED BY <1>1, <1>3, <2>1 DEF ProcessNotify
  <1>4. CASE NetTest \/ NetClosed \/ NetDelete \/ NetStop
    BY <1>4 DEF NetTest, NetClosed, NetDelete, NetStop
  <1>5. ASSUME NEW n \in SubNames, ServerPublish(n) \/ ServerAnswer(n) PROVE Up'
    <2>1. ASSUME NEW v, NEW answer, Note(n, v, answer)
          PROVE  \A k \in 1 .. Len(inbound') :
                    \/ k \in 1 .. Len(inbound) /\ inbound'[k] = inbound[k]
                    \/ inbound'[k] # KillClient
      <3>1. Notify(n, UserData(count + 1)) \in Noted
        BY Typed DEF Notify, UserData, Noted
      <3>2. /\ Notify(n, UserData(count + 1)) \in Inbound
            /\ Notify(n, UserData(count + 1)) # KillClient
        BY <3>1, Typed DEF Inbound
      <3> QED BY <2>1, <3>2, Typed, AppendProperties, LenProperties DEF Note
    <2>2. \A k \in 1 .. Len(inbound') :
             \/ k \in 1 .. Len(inbound) /\ inbound'[k] = inbound[k]
             \/ inbound'[k] # KillClient
      BY <1>5, <2>1 DEF ServerPublish, ServerAnswer
    <2>3. UNCHANGED <<running, client, net, server, mutex, alive>>
      BY <1>5 DEF ServerPublish, ServerAnswer
    <2> QED BY <2>2, <2>3
  <1>6. CASE ServerClear \/ ServerKill \/ ServerGone
    BY <1>6 DEF ServerClear, ServerKill, ServerGone
  <1>7. ASSUME NEW t \in Thread, Dies(t) PROVE Up'
    BY <1>7 DEF Dies
  <1>8. ASSUME NEW t \in Thread, Locked(t) PROVE Up'
    BY <1>8 DEF Locked, GetNotFound, GetNoData, GetTopic, GetWait, Found, GetAborted,
       GetWaitAgain, GetWaited, AnyArrived, Woken, Subscribed, Requested, Sends,
       RequestThrows
  <1>9. ASSUME NEW t \in Thread, Calls(t) \/ SpuriousWakeup(t) PROVE Up'
    BY <1>9 DEF Calls, CallGet, CallSubscribe, CallRequest, Enter, WaitForAny, SpuriousWakeup
  <1>10. CASE UNCHANGED vars
    BY <1>10 DEF vars
  <1> QED BY <1>2, <1>3, <1>4, <1>5, <1>6, <1>7, <1>8, <1>9, <1>10 DEF Next, Net

-----------------------------------------------------------------------------
(* The topics, what is on its way to them, and what has been returned.     *)

Kept == CallsOK /\ OwnObjects /\ InOrder /\ HeldIsNew /\ AwaitedIsNew /\ OwnNotices

(* A thread that waits in get() goes on waiting, for the same object.      *)
SameWait(t) ==
    Gets(t)' => pc'[t] = pc[t] /\ obj'[t] = obj[t] /\ call'[t] = call[t]

(* What has not been read of the stream is what is left of it.             *)
Rest ==
    \/ inbound' = inbound
    \/ inbound' = <<>>
    \/ inbound # <<>> /\ inbound' = Tail(inbound)

(* What is of a topic stays so: notices are only added.                    *)
LEMMA OfQuiet ==
    ASSUME UNCHANGED notices, NEW n, NEW k
    PROVE  Of(n, k)' <=> Of(n, k)
  BY DEF Of, count

(* The same of the next state.                                             *)
OfNext(n, k) == k \in 1 .. count' /\ notices'[k].name = n

LEMMA OwnNext ==
    ASSUME \A k \in 1 .. Len(inbound') : inbound'[k] # KillClient =>
              OfNext(inbound'[k].name, inbound'[k].data.val),
           \A n \in DOMAIN topics' :
              state'[topics'[n]] # "TOPIC_NODATA" => OfNext(n, held'[topics'[n]]),
           \A t \in Thread :
              /\ Gets(t)' /\ state'[obj'[t]] # "TOPIC_NODATA"
                    => OfNext(call'[t].name, held'[obj'[t]])
              /\ \A n \in SubNames : got'[t][n] > 0 => OfNext(n, got'[t][n])
    PROVE  OwnNotices'
  BY DEF OwnNotices, Of, OfNext

LEMMA OfNote ==
    ASSUME TypeOK, NEW m, NEW v, NEW answer, Note(m, v, answer), NEW n, NEW k
    PROVE  /\ Of(n, k) => OfNext(n, k)
           /\ OfNext(m, count + 1)
  <1>1. notices \in Seq(Sent) /\ count = Len(notices) /\ count \in Nat
    BY Typed DEF count
  <1> DEFINE new == [name |-> m, version |-> v, answer |-> answer]
  <1>2. notices' = Append(notices, new)
    BY DEF Note
  <1>3. /\ count' = count + 1
        /\ \A i \in 1 .. count : notices'[i] = notices[i]
        /\ notices'[count + 1] = new
    BY <1>1, <1>2 DEF count
  <1>4. new.name = m
    OBVIOUS
  <1> HIDE DEF new
  <1> QED BY <1>1, <1>3, <1>4 DEF Of, OfNext

LEMMA RestOf ==
    ASSUME TypeOK, Rest
    PROVE  \E i \in {0, 1} : \A k \in 1 .. Len(inbound') :
              k + i \in 1 .. Len(inbound) /\ inbound'[k] = inbound[k + i]
  <1>1. Len(inbound) \in Nat
    BY Typed, LenProperties
  <1>2. CASE inbound' = inbound
    BY <1>1, <1>2
  <1>3. CASE inbound' = <<>>
    BY <1>3, EmptySeq
  <1>4. CASE inbound # <<>> /\ inbound' = Tail(inbound)
    BY <1>4, HeadOfStream
  <1> QED BY <1>2, <1>3, <1>4 DEF Rest

(* Reading a part of the stream leaves the rest in order.                  *)
LEMMA RestInOrder ==
    ASSUME TypeOK, InOrder, Rest, UNCHANGED <<topics, held, got, notices, count>>
    PROVE  InOrder'
  <1>1. PICK i \in {0, 1} : \A k \in 1 .. Len(inbound') :
              k + i \in 1 .. Len(inbound) /\ inbound'[k] = inbound[k + i]
    BY RestOf
  <1>2. ASSUME NEW k \in 1 .. Len(inbound'), inbound'[k] # KillClient
        PROVE  /\ inbound'[k].name \in DOMAIN topics
               /\ inbound'[k].data.val <= count
               /\ Later(inbound'[k].data.val)
               /\ \A j \in 1 .. k - 1 : inbound'[j] # KillClient =>
                     inbound'[j].data.val < inbound'[k].data.val
    <2>1. k + i \in 1 .. Len(inbound) /\ inbound'[k] = inbound[k + i]
      BY <1>1
    <2>2. \A j \in 1 .. k - 1 : j + i \in 1 .. (k + i) - 1 /\ inbound'[j] = inbound[j + i]
      BY <1>1, Typed, LenProperties
    <2> QED BY <1>2, <2>1, <2>2 DEF InOrder
  <1> QED BY <1>2 DEF InOrder, Later

LEMMA QuietKeeps ==
    ASSUME TypeOK, Kept, Rest,
           UNCHANGED <<topics, state, held, got, notices, count>>,
           \A t \in Thread : /\ SameWait(t)
                             /\ pc'[t] = "subscribe" => call'[t].name \in SubNames
    PROVE  Kept'
  <1> USE DEF Kept
  <1>1. CallsOK'
    BY DEF CallsOK, SameWait, Gets
  <1>2. OwnObjects'
    BY DEF OwnObjects, SameWait, Gets
  <1>3. InOrder'
    BY RestInOrder
  <1>4. HeldIsNew'
    BY DEF HeldIsNew
  <1>5. AwaitedIsNew'
    BY DEF AwaitedIsNew, SameWait, Gets, MustWait
  <1>6. OwnNotices'
    <2>1. \A k \in 1 .. Len(inbound') : inbound'[k] # KillClient =>
              Of(inbound'[k].name, inbound'[k].data.val)
      BY RestOf DEF OwnNotices
    <2> QED BY <2>1, OfQuiet DEF OwnNotices, SameWait, Gets
  <1> QED BY <1>1, <1>2, <1>3, <1>4, <1>5, <1>6

(* The stream of the next state, and all that is held and returned then.   *)
Above(v, h, g) ==
    /\ \A o \in Object : h[o] < v
    /\ \A t \in Thread, n \in SubNames : g[t][n] < v

LEMMA NextInOrder ==
    ASSUME Above(count' + 1, held', got'),
           \A k \in 1 .. Len(inbound') : inbound'[k] # KillClient =>
              /\ inbound'[k].name \in DOMAIN topics'
              /\ inbound'[k].data.val <= count'
              /\ Above(inbound'[k].data.val, held', got')
              /\ \A j \in 1 .. k - 1 : inbound'[j] # KillClient =>
                    inbound'[j].data.val < inbound'[k].data.val
    PROVE  InOrder'
  BY DEF InOrder, Later, Above

(* A new notice is newer than everything.                                  *)
LEMMA NoteKeeps ==
    ASSUME TypeOK, Kept, NEW n \in DOMAIN topics, NEW v, NEW answer, Note(n, v, answer),
           UNCHANGED <<topics, state, held, got, pc, call, obj>>
    PROVE  Kept'
  <1> USE DEF Kept
  <1> DEFINE m == Notify(n, UserData(count + 1))
  <1>1. count' = count + 1 /\ count \in Nat /\ count' \in Nat
    BY Typed, AppendProperties DEF Note, count
  <1>2. m \in Noted /\ m.name = n /\ m.data.val = count + 1
    BY <1>1, Typed DEF Notify, UserData, Noted
  <1>3. UNCHANGED <<topics, state, held, got, pc, call, obj>> /\ n \in DOMAIN topics
    OBVIOUS
  <1>4. CallsOK' /\ OwnObjects' /\ HeldIsNew' /\ AwaitedIsNew'
    BY <1>3 DEF CallsOK, OwnObjects, HeldIsNew, AwaitedIsNew, Gets, MustWait
  <1>5. Above(count + 1, held', got') /\ Above(count' + 1, held', got')
    BY <1>1, <1>3, Typed DEF InOrder, Later, Above
  <1>6. inbound' = Append(inbound, m) /\ m \in Inbound /\ inbound \in Seq(Inbound)
    BY <1>2, Typed DEF Note, Inbound
  <1> HIDE DEF m
  <1>7. /\ Len(inbound) \in Nat /\ Len(inbound') = Len(inbound) + 1
        /\ \A k \in 1 .. Len(inbound) : inbound'[k] = inbound[k]
        /\ inbound'[Len(inbound) + 1] = m
    BY <1>6, AppendProperties, LenProperties
  <1>8. ASSUME NEW k \in 1 .. Len(inbound'), inbound'[k] # KillClient
        PROVE  /\ inbound'[k].name \in DOMAIN topics
               /\ inbound'[k].data.val <= count'
               /\ Above(inbound'[k].data.val, held', got')
               /\ \A j \in 1 .. k - 1 : inbound'[j] # KillClient =>
                     inbound'[j].data.val < inbound'[k].data.val
    <2>1. \A j \in 1 .. Len(inbound) : inbound[j] # KillClient =>
              inbound[j].data.val \in Nat /\ inbound[j].data.val <= count
      BY Typed DEF InOrder
    <2>2. CASE k \in 1 .. Len(inbound)
      <3>1. inbound'[k] = inbound[k] /\ \A j \in 1 .. k - 1 : inbound'[j] = inbound[j]
        BY <1>7, <2>2
      <3> QED BY <1>1, <1>3, <1>8, <2>1, <2>2, <3>1 DEF InOrder, Later, Above
    <2>3. CASE k = Len(inbound) + 1
      <3>1. inbound'[k] = m
        BY <1>7, <2>3
      <3>2. \A j \in 1 .. k - 1 : j \in 1 .. Len(inbound) /\ inbound'[j] = inbound[j]
        BY <1>7, <2>3
      <3>3. \A j \in 1 .. k - 1 : inbound'[j] # KillClient =>
                inbound'[j].data.val < m.data.val
        BY <1>1, <1>2, <2>1, <3>2
      <3> QED BY <1>1, <1>2, <1>3, <1>5, <3>1, <3>3
    <2> QED BY <1>7, <2>2, <2>3
  <1>9. InOrder'
    BY <1>3, <1>5, <1>8, NextInOrder
  <1>10. OwnNotices'
    <2>1. \A l, k : Of(l, k) => OfNext(l, k)
      BY OfNote
    <2>2. ASSUME NEW k \in 1 .. Len(inbound'), inbound'[k] # KillClient
          PROVE  OfNext(inbound'[k].name, inbound'[k].data.val)
      <3>1. CASE k \in 1 .. Len(inbound)
        BY <1>7, <2>1, <2>2, <3>1 DEF OwnNotices
      <3>2. CASE k = Len(inbound) + 1
        <4>1. inbound'[k].name = n /\ inbound'[k].data.val = count + 1
          BY <1>2, <1>7, <3>2
        <4>2. OfNext(n, count + 1)
          BY OfNote
        <4> QED BY <4>1, <4>2
      <3> QED BY <1>7, <3>1, <3>2
    <2>3. \A l \in DOMAIN topics' :
              state'[topics'[l]] # "TOPIC_NODATA" => OfNext(l, held'[topics'[l]])
      BY <1>3, <2>1 DEF OwnNotices
    <2>4. \A t \in Thread :
              /\ Gets(t)' /\ state'[obj'[t]] # "TOPIC_NODATA"
                    => OfNext(call'[t].name, held'[obj'[t]])
              /\ \A l \in SubNames : got'[t][l] > 0 => OfNext(l, got'[t][l])
      BY <1>3, <2>1 DEF OwnNotices, Gets
    <2> QED BY <2>2, <2>3, <2>4, OwnNext
  <1> QED BY <1>4, <1>9, <1>10

LEMMA ServerKillKeeps ==
    ASSUME TypeOK, Kept, ServerKill
    PROVE  Kept'
  <1> USE DEF Kept, topicVars, threadVars
  <1>1. UNCHANGED <<topics, state, held, got, notices, count, pc, call, obj>>
    BY DEF ServerKill, BrokerEnds, count
  <1>2. CallsOK' /\ OwnObjects' /\ HeldIsNew' /\ AwaitedIsNew'
    BY <1>1 DEF CallsOK, OwnObjects, HeldIsNew, AwaitedIsNew, Gets, MustWait
  <1>3. inbound' = Append(inbound, KillClient) /\ inbound \in Seq(Inbound)
    BY Typed DEF ServerKill
  <1>4. /\ Len(inbound) \in Nat /\ Len(inbound') = Len(inbound) + 1
        /\ \A k \in 1 .. Len(inbound) : inbound'[k] = inbound[k]
        /\ inbound'[Len(inbound) + 1] = KillClient
    BY <1>3, AppendProperties, LenProperties DEF Inbound
  <1>5. \A k \in 1 .. Len(inbound') : inbound'[k] # KillClient =>
            /\ k \in 1 .. Len(inbound) /\ inbound'[k] = inbound[k]
            /\ \A j \in 1 .. k - 1 : inbound'[j] = inbound[j]
    BY <1>4
  <1>6. InOrder'
    BY <1>1, <1>5, NextInOrder DEF InOrder, Later, Above
  <1>7. OwnNotices'
    BY <1>1, <1>5, OfQuiet DEF OwnNotices, Gets
  <1> QED BY <1>2, <1>6, <1>7

(* process(): the topic's object gets newer data than all that is held,    *)
(* and no other object gets any.                                           *)
LEMMA ProcessNotifyKeeps ==
    ASSUME TypeOK, Kept, ProcessNotify
    PROVE  Kept'
  <1> USE DEF Kept, threadVars, brokerVars
  <1> DEFINE n == Head(inbound).name
             v == Head(inbound).data.val
             here == {topics[m] : m \in {n} \cap DOMAIN topics}
  <1>1. inbound # <<>> /\ inbound' = Tail(inbound)
        /\ UNCHANGED <<topics, got, notices, count, pc, call, obj>>
    BY DEF ProcessNotify, Read, count
  <1>2. Head(inbound) = inbound[1] /\ Head(inbound) \in Noted /\ 1 \in 1 .. Len(inbound)
    BY <1>1, HeadOfStream, Typed DEF Inbound, ProcessNotify
  <1>3. n \in DOMAIN topics /\ v \in Nat /\ v <= count /\ Later(v)
    BY <1>2, Typed DEF InOrder
  <1> DEFINE o == topics[n]
  <1>4. here = {o} /\ o \in Object /\ n \in SubNames
    BY <1>3, Typed
  <1>5. /\ \A p \in Object : held'[p] = IF p = o THEN v ELSE held[p]
        /\ \A p \in Object : state'[p] = IF p = o THEN "TOPIC_CHANGED" ELSE state[p]
    <2>1. /\ held' = [p \in Object |-> IF p \in here THEN v ELSE held[p]]
          /\ state' = [p \in Object |-> IF p \in here THEN "TOPIC_CHANGED" ELSE state[p]]
      BY DEF ProcessNotify
    <2> HIDE DEF here, o, v
    <2> QED BY <1>4, <2>1
  <1>6. /\ \A p \in Object : held[p] < v /\ held[p] \in Nat
        /\ \A t \in Thread, m \in SubNames : got[t][m] < v /\ got[t][m] \in Nat
    BY <1>3, Typed DEF Later
  <1>7. \A k \in 1 .. Len(inbound') :
            k + 1 \in 1 .. Len(inbound) /\ inbound'[k] = inbound[k + 1]
    BY <1>1, HeadOfStream
  <1>8. Len(inbound) \in Nat /\ Len(inbound') \in Nat
    BY <1>1, HeadOfStream, Typed, LenProperties
  <1> HIDE DEF o, v, here, n
  <1>9. CallsOK' /\ OwnObjects'
    BY <1>1 DEF CallsOK, OwnObjects, Gets
  <1>10. \A w \in Nat : Later(w) /\ v < w => Above(w, held', got')
    BY <1>1, <1>5 DEF Later, Above
  <1>11. InOrder'
    <2>1. Later(count + 1) /\ v < count + 1 /\ count + 1 \in Nat
      BY <1>3, Typed DEF InOrder
    <2>2. ASSUME NEW k \in 1 .. Len(inbound'), inbound'[k] # KillClient
          PROVE  /\ inbound'[k].name \in DOMAIN topics
                 /\ inbound'[k].data.val <= count
                 /\ Above(inbound'[k].data.val, held', got')
                 /\ \A j \in 1 .. k - 1 : inbound'[j] # KillClient =>
                       inbound'[j].data.val < inbound'[k].data.val
      <3>1. k + 1 \in 1 .. Len(inbound) /\ inbound'[k] = inbound[k + 1]
        BY <1>7
      <3> DEFINE w == inbound[k + 1].data.val
      <3>2. w \in Nat /\ Later(w) /\ inbound[k + 1].name \in DOMAIN topics /\ w <= count
        BY <2>2, <3>1, Typed DEF InOrder
      <3>3. v < w
        <4>1. 1 \in 1 .. (k + 1) - 1 /\ inbound[1] # KillClient
          BY <1>2, <1>8, Typed
        <4> QED BY <1>2, <2>2, <3>1, <4>1 DEF InOrder, v
      <3>4. Above(w, held', got')
        BY <1>10, <3>2, <3>3
      <3>5. \A j \in 1 .. k - 1 :
                j + 1 \in 1 .. (k + 1) - 1 /\ inbound'[j] = inbound[j + 1]
        BY <1>7, <1>8
      <3> QED BY <2>2, <3>1, <3>2, <3>4, <3>5 DEF InOrder
    <2> QED BY <1>1, <1>10, <2>1, <2>2, NextInOrder
  <1>12. HeldIsNew'
    <2>1. \A p \in Object : state'[p] # "TOPIC_NODATA" => held'[p] > 0
      BY <1>3, <1>5, <1>6 DEF HeldIsNew
    <2>2. ASSUME NEW t \in Thread, NEW m \in DOMAIN topics
          PROVE  /\ state'[topics[m]] # "TOPIC_NODATA" => held'[topics[m]] >= got[t][m]
                 /\ state'[topics[m]] = "TOPIC_CHANGED" => held'[topics[m]] > got[t][m]
      <3>1. topics[m] \in Object /\ m \in SubNames
        BY Typed
      <3>2. v > got[t][m] /\ v >= got[t][m]
        BY <1>3, <1>6, <3>1
      <3> QED BY <1>5, <3>1, <3>2 DEF HeldIsNew
    <2> QED BY <1>1, <2>1, <2>2 DEF HeldIsNew
  <1>13. AwaitedIsNew'
    <2>1. ASSUME NEW t \in Thread, Gets(t)
          PROVE  /\ ~MustWait(t)' => held'[obj[t]] > got[t][call[t].name]
                 /\ LET p == topics[call[t].name]
                    IN  p # obj[t] /\ state'[p] # "TOPIC_NODATA" => held'[p] > held'[obj[t]]
      <3> DEFINE m == call[t].name
                 p == topics[m]
      <3>1. obj[t] \in Object /\ m \in DOMAIN topics /\ m \in SubNames /\ p \in Object
        BY <2>1, Typed DEF CallsOK
      <3>2. obj[t] = o => m = n
        BY <1>3, <2>1 DEF OwnObjects, o
      <3>3. ~MustWait(t)' => held'[obj[t]] > got[t][m]
        <4>1. CASE obj[t] = o
          BY <1>3, <1>5, <1>6, <3>1, <4>1
        <4>2. CASE obj[t] # o
          <5>1. state'[obj[t]] = state[obj[t]] /\ held'[obj[t]] = held[obj[t]]
            BY <1>5, <3>1, <4>2
          <5> QED BY <1>1, <2>1, <5>1 DEF AwaitedIsNew, MustWait
        <4> QED BY <4>1, <4>2
      <3>4. p # obj[t] /\ state'[p] # "TOPIC_NODATA" => held'[p] > held'[obj[t]]
        <4> SUFFICES ASSUME p # obj[t], state'[p] # "TOPIC_NODATA"
                     PROVE  held'[p] > held'[obj[t]]
          OBVIOUS
        <4>1. obj[t] # o
          BY <3>2 DEF o
        <4>2. held'[obj[t]] = held[obj[t]] /\ held[obj[t]] < v
          BY <1>5, <1>6, <3>1, <4>1
        <4>3. CASE p = o
          BY <1>3, <1>5, <1>6, <3>1, <4>2, <4>3
        <4>4. CASE p # o
          BY <1>5, <2>1, <3>1, <4>2, <4>4 DEF AwaitedIsNew
        <4> QED BY <4>3, <4>4
      <3> QED BY <3>3, <3>4
    <2> QED BY <1>1, <2>1 DEF AwaitedIsNew, Gets
  <1>14. OwnNotices'
    <2>1. Of(n, v)
      BY <1>2, Typed DEF OwnNotices, n, v
    <2>2. \A k \in 1 .. Len(inbound') : inbound'[k] # KillClient =>
              Of(inbound'[k].name, inbound'[k].data.val)
      BY <1>7 DEF OwnNotices
    <2>3. ASSUME NEW m \in DOMAIN topics, state'[topics[m]] # "TOPIC_NODATA"
          PROVE  Of(m, held'[topics[m]])
      <3>1. topics[m] \in Object /\ (topics[m] = o => m = n)
        BY <1>3, Typed DEF OwnObjects, o
      <3> QED BY <1>5, <2>1, <2>3, <3>1 DEF OwnNotices
    <2>4. ASSUME NEW t \in Thread, Gets(t), state'[obj[t]] # "TOPIC_NODATA"
          PROVE  Of(call[t].name, held'[obj[t]])
      <3>1. obj[t] \in Object /\ (obj[t] = o => call[t].name = n)
        BY <1>3, <2>4 DEF OwnObjects, CallsOK, o
      <3> QED BY <1>5, <2>1, <2>4, <3>1 DEF OwnNotices
    <2> QED BY <1>1, <2>2, <2>3, <2>4, OfQuiet DEF OwnNotices, Gets
  <1> QED BY <1>9, <1>11, <1>12, <1>13, <1>14

(* get() returns a topic that has data, as new as what the thread has been *)
(* returned of it and, if the topic has another object by now, older than  *)
(* what that holds.                                                        *)
MayReturn(t, o) ==
    LET n == call[t].name
    IN  /\ n \in DOMAIN topics /\ o \in Object
        /\ state[o] # "TOPIC_NODATA" /\ held[o] >= got[t][n]
        /\ topics[n] # o /\ state[topics[n]] # "TOPIC_NODATA" => held[topics[n]] > held[o]
        /\ Of(n, held[o])

LEMMA ReturnTopicKeeps ==
    ASSUME TypeOK, Kept, NEW t \in Thread, NEW o,
           MayReturn(t, o), ReturnTopic(t, o), UNCHANGED <<inbound, notices, count>>
    PROVE  Kept'
  <1> USE DEF Kept
  <1> DEFINE n == call[t].name
  <1>1. n \in DOMAIN topics /\ n \in SubNames /\ o \in Object /\ topics[n] \in Object
    BY Typed DEF MayReturn
  <1>2. UNCHANGED <<topics, held>>
    BY DEF ReturnTopic
  <1>3. \A p \in Object : state'[p] = IF p = o THEN "TOPIC_UNCHANGED" ELSE state[p]
    BY <1>1 DEF ReturnTopic, TypeOK
  <1>4. \A s \in Thread, m \in SubNames :
            got'[s][m] = IF s = t /\ m = n THEN held[o] ELSE got[s][m]
    BY <1>1 DEF ReturnTopic, TypeOK
  <1>5. \A s \in Thread : Gets(s)' =>
            /\ s # t /\ Gets(s)
            /\ pc'[s] = pc[s] /\ obj'[s] = obj[s] /\ call'[s] = call[s]
    BY DEF ReturnTopic, Return, TypeOK, Gets
  <1>6. \A s \in Thread : pc'[s] = "subscribe" => call'[s].name \in SubNames
    BY DEF ReturnTopic, Return, TypeOK, CallsOK
  <1>7. /\ state[o] # "TOPIC_NODATA" /\ held[o] >= got[t][n] /\ Of(n, held[o])
        /\ topics[n] # o /\ state[topics[n]] # "TOPIC_NODATA" => held[topics[n]] > held[o]
    BY DEF MayReturn
  <1> HIDE DEF n
  <1>8. CallsOK' /\ OwnObjects'
    BY <1>2, <1>5, <1>6 DEF CallsOK, OwnObjects
  <1>9. InOrder'
    <2>1. ASSUME NEW v \in Nat, Later(v) PROVE Above(v, held', got')
      BY <1>1, <1>2, <1>4, <2>1 DEF Later, Above
    <2>2. count + 1 \in Nat /\ Later(count + 1)
      BY Typed DEF InOrder
    <2>3. \A k \in 1 .. Len(inbound) : inbound[k] # KillClient => inbound[k].data.val \in Nat
      BY Typed
    <2> QED BY <1>2, <2>1, <2>2, <2>3, NextInOrder DEF InOrder
  <1>10. HeldIsNew'
    <2>1. \A p \in Object : state'[p] # "TOPIC_NODATA" => held'[p] > 0
      BY <1>2, <1>3, <1>7 DEF HeldIsNew
    <2>2. ASSUME NEW s \in Thread, NEW m \in DOMAIN topics
          PROVE  /\ state'[topics[m]] # "TOPIC_NODATA" => held[topics[m]] >= got'[s][m]
                 /\ state'[topics[m]] = "TOPIC_CHANGED" => held[topics[m]] > got'[s][m]
      <3>1. topics[m] \in Object /\ m \in SubNames
        BY Typed
      <3>2. /\ state[topics[m]] # "TOPIC_NODATA" => held[topics[m]] >= got[s][m]
            /\ state[topics[m]] = "TOPIC_CHANGED" => held[topics[m]] > got[s][m]
        BY DEF HeldIsNew
      <3>3. CASE s = t /\ m = n
        <4>1. got'[s][m] = held[o] /\ held[o] \in Nat /\ held[topics[m]] \in Nat
          BY <1>1, <1>4, <3>1, <3>3, Typed
        <4>2. CASE topics[m] = o
          BY <1>1, <1>3, <4>1, <4>2
        <4>3. CASE topics[m] # o
          <5>1. state'[topics[m]] = state[topics[m]]
            BY <1>3, <3>1, <4>3
          <5>2. state[topics[m]] # "TOPIC_NODATA" => held[topics[m]] > held[o]
            BY <1>7, <3>3, <4>3
          <5> QED BY <4>1, <5>1, <5>2
        <4> QED BY <4>2, <4>3
      <3>4. CASE ~(s = t /\ m = n)
        <4>1. got'[s][m] = got[s][m]
          BY <1>4, <3>1, <3>4
        <4>2. CASE topics[m] = o
          <5>1. state'[topics[m]] = "TOPIC_UNCHANGED"
            BY <1>1, <1>3, <4>2
          <5> QED BY <1>7, <3>2, <4>1, <4>2, <5>1
        <4>3. CASE topics[m] # o
          BY <1>3, <3>1, <3>2, <4>1, <4>3
        <4> QED BY <4>2, <4>3
      <3> QED BY <3>3, <3>4
    <2> QED BY <1>2, <2>1, <2>2 DEF HeldIsNew
  <1>11. AwaitedIsNew'
    <2>1. ASSUME NEW s \in Thread, Gets(s), s # t, pc'[s] = pc[s], obj'[s] = obj[s]
          PROVE  /\ ~MustWait(s)' => held[obj[s]] > got'[s][call[s].name]
                 /\ LET p == topics[call[s].name]
                    IN  p # obj[s] /\ state'[p] # "TOPIC_NODATA" => held[p] > held[obj[s]]
      <3>1. /\ obj[s] \in Object /\ call[s].name \in DOMAIN topics
            /\ call[s].name \in SubNames /\ topics[call[s].name] \in Object
        BY <2>1, Typed DEF CallsOK
      <3>2. got'[s][call[s].name] = got[s][call[s].name]
        BY <1>4, <2>1, <3>1
      <3>3. ~MustWait(s)' => ~MustWait(s)
        BY <1>3, <1>7, <2>1, <3>1 DEF MustWait, Gets
      <3>4. \A p \in Object : state'[p] # "TOPIC_NODATA" => state[p] # "TOPIC_NODATA"
        BY <1>3, <1>7
      <3> QED BY <2>1, <3>1, <3>2, <3>3, <3>4 DEF AwaitedIsNew
    <2> QED BY <1>2, <1>5, <2>1 DEF AwaitedIsNew
  <1>12. OwnNotices'
    <2>1. \A p \in Object : state'[p] # "TOPIC_NODATA" => state[p] # "TOPIC_NODATA"
      BY <1>3, <1>7
    <2>2. \A m \in DOMAIN topics : topics[m] \in Object
      BY Typed
    <2>3. \A s \in Thread : Gets(s) => obj[s] \in Object
      BY DEF CallsOK
    <2>4. \A s \in Thread, m \in SubNames : got'[s][m] > 0 => Of(m, got'[s][m])
      BY <1>4, <1>7 DEF OwnNotices
    <2> QED BY <1>2, <1>5, <2>1, <2>2, <2>3, <2>4, OfQuiet DEF OwnNotices
  <1> QED BY <1>8, <1>9, <1>10, <1>11, <1>12

(* get() begins to wait: the topic is the one it found, and has nothing    *)
(* that the wait would end for.                                            *)
LEMMA GetWaitKeeps ==
    ASSUME TypeOK, Kept, NEW t \in Thread, NEW o \in Object, GetWait(t, o)
    PROVE  Kept'
  <1> USE DEF Kept, topicVars, wireVars, brokerVars
  <1>1. UNCHANGED <<topics, state, held, got, call, inbound, notices, count>>
    BY DEF GetWait, Found, CondWait, count
  <1>2. call[t].name \in DOMAIN topics /\ o = topics[call[t].name]
    BY DEF GetWait, Found
  <1>3. \A s \in Thread : IF s = t THEN obj'[s] = o
                                   ELSE obj'[s] = obj[s] /\ pc'[s] = pc[s]
    BY DEF GetWait, CondWait, TypeOK
  <1>4. \/ pc'[t] = "waitdata" /\ state[o] = "TOPIC_NODATA"
        \/ pc'[t] = "waitnew" /\ state[o] = "TOPIC_UNCHANGED"
    BY DEF GetWait, CondWait, TypeOK
  <1>5. CallsOK'
    BY <1>1, <1>2, <1>3, <1>4 DEF CallsOK, Gets
  <1>6. OwnObjects'
    BY <1>1, <1>2, <1>3, <1>4 DEF OwnObjects, Gets
  <1>7. InOrder' /\ HeldIsNew'
    BY <1>1 DEF InOrder, HeldIsNew, Later
  <1>8. AwaitedIsNew'
    BY <1>1, <1>2, <1>3, <1>4 DEF AwaitedIsNew, Gets, MustWait
  <1>9. OwnNotices'
    BY <1>1, <1>2, <1>3, OfQuiet DEF OwnNotices, Gets
  <1> QED BY <1>5, <1>6, <1>7, <1>8, <1>9

(* subscribe(): the topic's object is one that no topic and no thread has. *)
LEMMA NewTopicKeeps ==
    ASSUME TypeOK, Kept, NEW t \in Thread, Sends(t, "subscribe"), NewTopic(call[t].name)
    PROVE  Kept'
  <1> USE DEF Kept
  <1> DEFINE n == call[t].name
             rest == InUse(DOMAIN topics \ {n})
  <1>1. PICK o \in Object \ InUse(DOMAIN topics) :
          /\ topics' = Put(topics, n, o)
          /\ state' = [p \in Object |-> IF p \in rest THEN state[p] ELSE "TOPIC_NODATA"]
          /\ held' = [p \in Object |-> IF p \in rest THEN held[p] ELSE 0]
    BY DEF NewTopic
  <1>2. n \in SubNames
    BY DEF Sends, CallsOK
  <1>3. /\ o \in Object /\ o \notin rest
        /\ \A s \in Thread : obj[s] \in rest /\ obj[s] # o
        /\ \A m \in DOMAIN topics : topics[m] # o /\ (m # n => topics[m] \in rest)
    BY <1>1 DEF InUse
  <1> HIDE DEF n, rest
  <1>4. /\ DOMAIN topics' = DOMAIN topics \cup {n}
        /\ \A m \in DOMAIN topics' : topics'[m] = IF m = n THEN o ELSE topics[m]
    BY <1>1 DEF Put
  <1>5. /\ \A p \in Object : p \notin rest => state'[p] = "TOPIC_NODATA" /\ held'[p] = 0
        /\ \A p \in Object : p \in rest => state'[p] = state[p] /\ held'[p] = held[p]
    BY <1>1
  <1>6. UNCHANGED <<got, obj, inbound, notices, count>>
    BY DEF Sends, brokerVars, count
  <1>7. \A s \in Thread : Gets(s)' => Gets(s) /\ pc'[s] = pc[s] /\ call'[s] = call[s]
    BY DEF Sends, TypeOK, Gets
  <1>8. \A s \in Thread : pc'[s] = "subscribe" => call'[s].name \in SubNames
    BY DEF Sends, TypeOK, CallsOK
  <1>9. CallsOK'
    BY <1>4, <1>6, <1>7, <1>8 DEF CallsOK
  <1>10. OwnObjects'
    BY <1>1, <1>3, <1>4, <1>6, <1>7 DEF OwnObjects
  <1>11. InOrder'
    <2>1. ASSUME NEW v \in Nat, Later(v), v > 0 PROVE Above(v, held', got')
      BY <1>5, <1>6, <2>1 DEF Later, Above
    <2>2. count + 1 \in Nat /\ Later(count + 1) /\ count + 1 > 0
      BY Typed DEF InOrder
    <2>3. ASSUME NEW k \in 1 .. Len(inbound), inbound[k] # KillClient
          PROVE  inbound[k].data.val \in Nat /\ inbound[k].data.val > 0
      <3>1. inbound[k].data.val \in Nat /\ Later(inbound[k].data.val)
        BY <2>3, Typed DEF InOrder
      <3>2. held[o] < inbound[k].data.val /\ held[o] \in Nat
        BY <1>3, <3>1, Typed DEF Later
      <3> QED BY <3>1, <3>2
    <2> QED BY <1>4, <1>6, <2>1, <2>2, <2>3, NextInOrder DEF InOrder
  <1>12. HeldIsNew'
    <2>1. \A p \in Object : state'[p] # "TOPIC_NODATA" => held'[p] > 0
      BY <1>5 DEF HeldIsNew
    <2>2. ASSUME NEW s \in Thread, NEW m \in DOMAIN topics'
          PROVE  /\ state'[topics'[m]] # "TOPIC_NODATA" => held'[topics'[m]] >= got[s][m]
                 /\ state'[topics'[m]] = "TOPIC_CHANGED" => held'[topics'[m]] > got[s][m]
      <3>1. CASE m = n
        BY <1>3, <1>4, <1>5, <3>1
      <3>2. CASE m # n
        <4>1. m \in DOMAIN topics /\ topics'[m] = topics[m] /\ topics[m] \in Object
          BY <1>4, <3>2, Typed
        <4>2. state'[topics[m]] = state[topics[m]] /\ held'[topics[m]] = held[topics[m]]
          BY <1>3, <1>5, <3>2, <4>1
        <4> QED BY <4>1, <4>2 DEF HeldIsNew
      <3> QED BY <3>1, <3>2
    <2> QED BY <1>6, <2>1, <2>2 DEF HeldIsNew
  <1>13. AwaitedIsNew'
    <2>1. ASSUME NEW s \in Thread, Gets(s), pc'[s] = pc[s]
          PROVE  /\ ~MustWait(s)' => held'[obj[s]] > got[s][call[s].name]
                 /\ LET p == topics'[call[s].name]
                    IN  p # obj[s] /\ state'[p] # "TOPIC_NODATA" => held'[p] > held'[obj[s]]
      <3>1. obj[s] \in Object /\ call[s].name \in DOMAIN topics
        BY <2>1 DEF CallsOK
      <3>2. state'[obj[s]] = state[obj[s]] /\ held'[obj[s]] = held[obj[s]]
        BY <1>3, <1>5, <3>1
      <3>3. ~MustWait(s)' => ~MustWait(s)
        BY <1>6, <2>1, <3>2 DEF MustWait
      <3>4. CASE call[s].name = n
        <4>1. state'[topics'[call[s].name]] = "TOPIC_NODATA"
          BY <1>1, <1>3, <1>4, <1>5, <3>4
        <4> QED BY <2>1, <3>2, <3>3, <4>1 DEF AwaitedIsNew
      <3>5. CASE call[s].name # n
        <4>1. /\ topics'[call[s].name] = topics[call[s].name]
              /\ topics[call[s].name] \in Object
          BY <1>4, <3>1, <3>5, Typed
        <4>2. /\ state'[topics[call[s].name]] = state[topics[call[s].name]]
              /\ held'[topics[call[s].name]] = held[topics[call[s].name]]
          BY <1>3, <1>5, <3>1, <3>5, <4>1
        <4> QED BY <2>1, <3>2, <3>3, <4>1, <4>2 DEF AwaitedIsNew
      <3> QED BY <3>4, <3>5
    <2> QED BY <1>6, <1>7, <2>1 DEF AwaitedIsNew
  <1>14. OwnNotices'
    <2>1. ASSUME NEW m \in DOMAIN topics', state'[topics'[m]] # "TOPIC_NODATA"
          PROVE  Of(m, held'[topics'[m]])
      <3>1. m # n
        BY <1>3, <1>4, <1>5, <2>1
      <3>2. m \in DOMAIN topics /\ topics'[m] = topics[m] /\ topics[m] \in Object
        BY <1>4, <3>1, Typed
      <3> QED BY <1>3, <1>5, <2>1, <3>1, <3>2 DEF OwnNotices
    <2>2. ASSUME NEW s \in Thread, Gets(s), state'[obj[s]] # "TOPIC_NODATA"
          PROVE  Of(call[s].name, held'[obj[s]])
      <3>1. obj[s] \in Object /\ obj[s] \in rest
        BY <1>3, <2>2 DEF CallsOK
      <3> QED BY <1>5, <2>2, <3>1 DEF OwnNotices
    <2> QED BY <1>6, <1>7, <2>1, <2>2, OfQuiet DEF OwnNotices
  <1> QED BY <1>9, <1>10, <1>11, <1>12, <1>13, <1>14

(* What the two actions that return a topic know of it.                    *)
LEMMA FoundMayReturn ==
    ASSUME TypeOK, Kept, NEW t \in Thread, NEW o \in Object, GetTopic(t, o)
    PROVE  MayReturn(t, o)
  BY Finds DEF GetTopic, MayReturn, Kept, HeldIsNew, OwnNotices

LEMMA WaitedMayReturn ==
    ASSUME TypeOK, Kept, NEW t \in Thread, GetWaited(t)
    PROVE  /\ MayReturn(t, obj[t])
           /\ held[obj[t]] > got[t][call[t].name]
  <1>1. /\ Gets(t) /\ pc[t] \in {"waitdata", "waitnew"} /\ obj[t] \in Object
        /\ call[t].name \in DOMAIN topics /\ call[t].name \in SubNames
    BY Awaits DEF GetWaited, Woken, Kept
  <1>2. ~MustWait(t)
    BY DEF GetWaited
  <1>3. state[obj[t]] # "TOPIC_NODATA"
    BY <1>1, <1>2 DEF MustWait
  <1>4. /\ held[obj[t]] > got[t][call[t].name]
        /\ topics[call[t].name] # obj[t] /\ state[topics[call[t].name]] # "TOPIC_NODATA"
              => held[topics[call[t].name]] > held[obj[t]]
    BY <1>1, <1>2 DEF Kept, AwaitedIsNew
  <1>5. held[obj[t]] \in Nat /\ got[t][call[t].name] \in Nat
    BY <1>1, Typed
  <1>6. Of(call[t].name, held[obj[t]])
    BY <1>1, <1>3 DEF Kept, OwnNotices
  <1> QED BY <1>1, <1>3, <1>4, <1>5, <1>6 DEF MayReturn

(* The rest of what a thread of the application does touches no topic.     *)
LEMMA QuietCall ==
    ASSUME TypeOK, Kept, NEW t \in Thread,
           \/ GetNotFound(t) \/ (\E o \in Object : GetNoData(t, o))
           \/ GetAborted(t) \/ GetWaitAgain(t) \/ AnyArrived(t)
           \/ Sends(t, "request") /\ UNCHANGED topicVars
           \/ Calls(t) \/ SpuriousWakeup(t) \/ Dies(t)
    PROVE  Kept'
  <1> USE DEF netVars, topicVars, wireVars, threadVars, brokerVars
  <1>1. UNCHANGED <<topics, state, held, got, notices, count, inbound>>
    BY DEF GetNotFound, GetNoData, Found, GetAborted, GetWaitAgain, CondWait, AnyArrived,
       Woken, Sends, Calls, CallGet, CallSubscribe, CallRequest, Enter, WaitForAny,
       SpuriousWakeup, Dies, count
  <1>2. Rest
    BY <1>1 DEF Rest
  <1>3. \A s \in Thread : pc[s] = "subscribe" => call[s].name \in SubNames
    BY DEF Kept, CallsOK
  <1> DEFINE Quiet == \A s \in Thread :
                          /\ SameWait(s)
                          /\ pc'[s] = "subscribe" => call'[s].name \in SubNames
  <1>4. ASSUME Return(t) PROVE Quiet
    BY <1>3, <1>4 DEF Return, TypeOK, SameWait, Gets
  <1>5. CASE GetNotFound(t) \/ (\E o \in Object : GetNoData(t, o)) \/ GetAborted(t)
    BY <1>1, <1>2, <1>4, <1>5, QuietKeeps DEF GetNotFound, GetNoData, GetAborted
  <1>6. CASE GetWaitAgain(t)
    <2>1. pc' = pc /\ obj' = obj /\ call' = call
      BY <1>6 DEF GetWaitAgain, CondWait, TypeOK
    <2>2. Quiet
      BY <1>3, <2>1 DEF SameWait
    <2> QED BY <1>1, <1>2, <2>2, QuietKeeps
  <1>7. CASE AnyArrived(t) \/ Sends(t, "request") \/ CallRequest(t) \/ WaitForAny(t)
    <2>1. Quiet
      BY <1>3, <1>7 DEF AnyArrived, Sends, CallRequest, Enter, WaitForAny, CondWait,
         TypeOK, SameWait, Gets
    <2> QED BY <1>1, <1>2, <2>1, QuietKeeps
  <1>8. ASSUME NEW n \in SubNames, NEW w \in GetWaits, CallGet(t, n, w) PROVE Kept'
    <2>1. Quiet
      BY <1>3, <1>8 DEF CallGet, Enter, TypeOK, SameWait, Gets
    <2> QED BY <1>1, <1>2, <2>1, QuietKeeps
  <1>9. ASSUME NEW n \in SubNames, CallSubscribe(t, n) PROVE Kept'
    <2>1. call'[t].name = n /\ \A s \in Thread : s # t => call'[s] = call[s]
      BY <1>9 DEF CallSubscribe, TypeOK
    <2>2. Quiet
      BY <1>3, <1>9, <2>1 DEF CallSubscribe, Enter, TypeOK, SameWait, Gets
    <2> QED BY <1>1, <1>2, <2>2, QuietKeeps
  <1>10. CASE SpuriousWakeup(t) \/ Dies(t)
    <2>1. Quiet
      BY <1>3, <1>10 DEF SpuriousWakeup, Dies, SameWait, Gets
    <2> QED BY <1>1, <1>2, <2>1, QuietKeeps
  <1> QED BY <1>5, <1>6, <1>7, <1>8, <1>9, <1>10 DEF Calls

LEMMA KeptKept ==
    ASSUME TypeOK, Kept, AskedOK, [Next]_vars
    PROVE  Kept'
  <1> USE DEF netVars, topicVars, wireVars, threadVars, brokerVars
  <1>1. ASSUME UNCHANGED <<topics, state, held, got, notices, pc, obj, call>>, Rest
        PROVE  Kept'
    <2>1. \A t \in Thread : /\ SameWait(t)
                            /\ pc'[t] = "subscribe" => call'[t].name \in SubNames
      BY <1>1 DEF Kept, CallsOK, SameWait
    <2>2. count' = count
      BY <1>1 DEF count
    <2> QED BY <1>1, <2>1, <2>2, QuietKeeps
  <1>2. CASE ProcessKill
    BY <1>1, <1>2 DEF ProcessKill, Read, Rest
  <1>3. CASE ProcessNotify
    BY <1>3, ProcessNotifyKeeps
  <1>4. CASE NetTest \/ NetClosed \/ NetDelete \/ NetStop
    BY <1>1, <1>4 DEF NetTest, NetClosed, NetDelete, NetStop, Rest
  <1>5. CASE ServerClear \/ ServerGone
    BY <1>1, <1>5 DEF ServerClear, ServerGone, BrokerEnds, Rest
  <1>6. CASE UNCHANGED vars
    BY <1>1, <1>6 DEF vars, Rest
  <1>7. ASSUME NEW n \in SubNames, ServerPublish(n) PROVE Kept'
    <2>1. known \subseteq DOMAIN topics
      BY DEF AskedOK
    <2>2. CASE n \in known
      BY <1>7, <2>1, <2>2, NoteKeeps DEF ServerPublish
    <2>3. CASE n \notin known
      BY <1>1, <1>7, <2>3 DEF ServerPublish, Rest
    <2> QED BY <2>2, <2>3
  <1>8. ASSUME NEW n \in SubNames, ServerAnswer(n) PROVE Kept'
    <2>1. n \in DOMAIN topics
      BY <1>8, HeadOfAsked DEF ServerAnswer, AskedOK
    <2>2. CASE stored[n] # 0
      BY <1>8, <2>1, <2>2, NoteKeeps DEF ServerAnswer
    <2>3. CASE stored[n] = 0
      BY <1>1, <1>8, <2>3 DEF ServerAnswer, Rest
    <2> QED BY <2>2, <2>3
  <1>9. ASSUME NEW t \in Thread, NEW o \in Object, GetTopic(t, o) PROVE Kept'
    BY <1>9, FoundMayReturn, ReturnTopicKeeps DEF GetTopic, Found, count
  <1>10. ASSUME NEW t \in Thread, GetWaited(t) PROVE Kept'
    BY <1>10, WaitedMayReturn, ReturnTopicKeeps DEF GetWaited, Woken, count
  <1>11. ASSUME NEW t \in Thread, Subscribed(t) \/ Requested(t) \/ RequestThrows(t)
         PROVE  Kept'
    <2>1. \/ Sends(t, "subscribe") /\ NewTopic(call[t].name)
          \/ Sends(t, "request") /\ UNCHANGED topicVars
      BY <1>11 DEF Subscribed, Requested, RequestThrows
    <2> QED BY <2>1, NewTopicKeeps, QuietCall
  <1>12. ASSUME NEW t \in Thread, Locked(t) PROVE Kept'
    BY <1>9, <1>10, <1>11, <1>12, GetWaitKeeps, QuietCall DEF Locked
  <1>13. ASSUME NEW t \in Thread, Calls(t) \/ SpuriousWakeup(t) \/ Dies(t) PROVE Kept'
    BY <1>13, QuietCall
  <1> QED BY <1>2, <1>3, <1>4, <1>5, <1>6, <1>7, <1>8, <1>12, <1>13, ServerKillKeeps
          DEF Next, Net

-----------------------------------------------------------------------------
(* The broker's part: the subscriptions it has read, and the versions that *)
(* it sends.                                                               *)

(* No topic is ever taken out of the client's map.                         *)
LEMMA TopicsStay ==
    ASSUME [Next]_vars
    PROVE  DOMAIN topics \subseteq DOMAIN topics'
  <1> USE DEF netVars, topicVars, wireVars, threadVars, brokerVars
  <1>1. ASSUME NEW n, NewTopic(n) PROVE DOMAIN topics \subseteq DOMAIN topics'
    BY <1>1 DEF NewTopic, Put
  <1>2. ASSUME NEW t \in Thread, Locked(t) PROVE DOMAIN topics \subseteq DOMAIN topics'
    BY <1>1, <1>2 DEF Locked, GetNotFound, GetNoData, GetTopic, GetWait, GetAborted,
       GetWaitAgain, GetWaited, AnyArrived, ReturnTopic, CondWait, Subscribed, Requested,
       RequestThrows
  <1>3. ASSUME NEW t \in Thread, Calls(t) \/ SpuriousWakeup(t) \/ Dies(t)
        PROVE  topics' = topics
    BY <1>3 DEF Calls, CallGet, CallSubscribe, CallRequest, Enter, WaitForAny, CondWait,
       SpuriousWakeup, Dies
  <1>4. CASE Net
    BY <1>4 DEF Net, NetTest, ProcessKill, ProcessNotify, Read, NetClosed, NetDelete, NetStop
  <1>5. CASE \/ \E n \in SubNames : ServerPublish(n) \/ ServerAnswer(n)
             \/ ServerClear \/ ServerKill \/ ServerGone
    BY <1>5 DEF ServerPublish, ServerAnswer, ServerClear, ServerKill, ServerGone
  <1> QED BY <1>2, <1>3, <1>4, <1>5 DEF Next, vars

(* What the client's own steps leave to the broker.                        *)
LEMMA NotTheBroker ==
    ASSUME \/ Net \/ UNCHANGED vars
           \/ \E t \in Thread : Locked(t) \/ Calls(t) \/ SpuriousWakeup(t) \/ Dies(t)
    PROVE  /\ UNCHANGED <<brokerVars, server>>
           /\ \/ UNCHANGED asked
              \/ \E t \in Thread : Subscribed(t)
  <1> USE DEF netVars, topicVars, wireVars, threadVars, brokerVars
  <1>1. ASSUME NEW t \in Thread, Locked(t)
        PROVE  UNCHANGED <<brokerVars, server>> /\ (UNCHANGED asked \/ Subscribed(t))
    BY <1>1 DEF Locked, GetNotFound, GetNoData, GetTopic, GetWait, Found, GetAborted,
       GetWaitAgain, GetWaited, AnyArrived, Woken, Subscribed, Requested, RequestThrows, Sends
  <1>2. ASSUME NEW t \in Thread, Calls(t) \/ SpuriousWakeup(t) \/ Dies(t)
        PROVE  UNCHANGED <<brokerVars, server, asked>>
    BY <1>2 DEF Calls, CallGet, CallSubscribe, CallRequest, Enter, WaitForAny,
       SpuriousWakeup, Dies
  <1>3. CASE Net
    BY <1>3 DEF Net, NetTest, ProcessKill, ProcessNotify, Read, NetClosed, NetDelete, NetStop
  <1> QED BY <1>1, <1>2, <1>3 DEF vars

LEMMA AskedKept ==
    ASSUME TypeOK, AskedOK, [Next]_vars
    PROVE  AskedOK'
  <1> USE DEF AskedOK, brokerVars
  <1>1. DOMAIN topics \subseteq DOMAIN topics'
    BY TopicsStay
  <1>2. ASSUME UNCHANGED known, UNCHANGED asked PROVE AskedOK'
    BY <1>1, <1>2
  <1>3. ASSUME NEW n \in SubNames, ServerPublish(n) PROVE AskedOK'
    BY <1>2, <1>3 DEF ServerPublish
  <1>4. ASSUME NEW n \in SubNames, ServerAnswer(n) PROVE AskedOK'
    BY <1>1, <1>4, HeadOfAsked DEF ServerAnswer
  <1>5. CASE ServerClear
    BY <1>2, <1>5 DEF ServerClear
  <1>6. CASE ServerKill \/ ServerGone
    BY <1>6, EmptySeq DEF ServerKill, ServerGone, BrokerEnds
  <1>7. ASSUME NEW t \in Thread, Subscribed(t), UNCHANGED known PROVE AskedOK'
    <2>1. call[t].name \in DOMAIN topics'
      BY <1>7 DEF Subscribed, NewTopic, Put
    <2>2. asked' = asked \/ asked' = Append(asked, call[t].name)
      BY <1>7 DEF Subscribed
    <2>3. asked \in Seq(SubNames)
      BY DEF TypeOK
    <2>4. CASE asked' = Append(asked, call[t].name)
      <3>1. \A k \in 1 .. Len(asked') :
               \/ k \in 1 .. Len(asked) /\ asked'[k] = asked[k]
               \/ asked'[k] = call[t].name
        BY <2>3, <2>4, AppendProperties, LenProperties
      <3> QED BY <1>1, <1>7, <2>1, <3>1
    <2> QED BY <1>2, <1>7, <2>2, <2>4
  <1> QED BY <1>2, <1>3, <1>4, <1>5, <1>6, <1>7, NotTheBroker DEF Next

(* A notice whose version is as new as those of its topic before it, and   *)
(* newer if it is no answer.                                               *)
LEMMA NoteVersions ==
    ASSUME TypeOK, VersionsGrow, NEW n \in SubNames, NEW v \in Nat, NEW answer \in BOOLEAN,
           Note(n, v, answer), server' = server,
           published' \in Nat, published <= published', v <= published',
           stored' \in [SubNames -> Nat], stored'[n] = v,
           \A m \in SubNames : m # n => stored'[m] = stored[m],
           \A k \in 1 .. count : notices[k].name = n =>
              notices[k].version <= v /\ (answer \/ notices[k].version < v)
    PROVE  VersionsGrow'
  <1> DEFINE new == [name |-> n, version |-> v, answer |-> answer]
  <1>1. /\ notices \in Seq(Sent) /\ count = Len(notices) /\ count \in Nat
        /\ \A k \in 1 .. count : notices[k] \in Sent
    BY Typed DEF count
  <1>2. /\ count' = count + 1
        /\ \A k \in 1 .. count : notices'[k] = notices[k]
        /\ notices'[count + 1] = new
    BY <1>1 DEF Note, count
  <1>3. new.name = n /\ new.version = v /\ new.answer = answer
    OBVIOUS
  <1> HIDE DEF new
  <1>4. published \in Nat /\ stored \in [SubNames -> Nat]
    BY DEF TypeOK
  <1>5. \A m \in SubNames : stored'[m] <= published'
    BY <1>4 DEF VersionsGrow
  <1>6. ASSUME NEW k \in 1 .. count
        PROVE  /\ server = "up" => notices[k].version <= published'
               /\ stored'[notices[k].name] # 0 =>
                     notices[k].version <= stored'[notices[k].name]
               /\ \A j \in 1 .. k - 1 : notices[j].name = notices[k].name =>
                     /\ notices[j].version <= notices[k].version
                     /\ notices[k].answer \/ notices[j].version < notices[k].version
    <2>1. notices[k].name \in SubNames /\ notices[k].version \in Nat
      BY <1>1 DEF Sent
    <2> QED BY <1>4, <2>1 DEF VersionsGrow
  <1>7. \A k \in 1 .. count' : k \in 1 .. count \/ k = count + 1
    BY <1>1, <1>2
  <1>8. \A k \in 1 .. count : \A j \in 1 .. k - 1 : j \in 1 .. count
    BY <1>1
  <1>9. \A j \in 1 .. (count + 1) - 1 : j \in 1 .. count
    BY <1>1
  <1> QED BY <1>1, <1>2, <1>3, <1>5, <1>6, <1>7, <1>8, <1>9 DEF VersionsGrow

LEMMA VersionsKept ==
    ASSUME TypeOK, VersionsGrow, [Next]_vars
    PROVE  VersionsGrow'
  <1> USE DEF brokerVars
  <1>1. /\ published \in Nat /\ stored \in [SubNames -> Nat]
        /\ \A k \in 1 .. count : notices[k].name \in SubNames /\ notices[k].version \in Nat
    BY Typed DEF TypeOK, Sent
  <1>2. ASSUME UNCHANGED <<stored, published, notices, server>> PROVE VersionsGrow'
    BY <1>2 DEF VersionsGrow, count
  <1>3. ASSUME NEW n \in SubNames, ServerPublish(n) PROVE VersionsGrow'
    <2>1. /\ published' = published + 1 /\ stored' = [stored EXCEPT ![n] = published']
          /\ server = "up" /\ server' = server
      BY <1>3 DEF ServerPublish
    <2>2. \A k \in 1 .. count : notices[k].version < published'
      BY <1>1, <2>1 DEF VersionsGrow
    <2>3. CASE n \in known
      <3>1. Note(n, published', FALSE)
        BY <1>3, <2>3 DEF ServerPublish
      <3>2. /\ published' \in Nat /\ stored' \in [SubNames -> Nat] /\ stored'[n] = published'
            /\ \A m \in SubNames : m # n => stored'[m] = stored[m]
        BY <1>1, <2>1
      <3>3. \A k \in 1 .. count : notices[k].name = n =>
                notices[k].version <= published'
                  /\ (FALSE \/ notices[k].version < published')
        BY <1>1, <2>2, <3>2
      <3>4. published <= published' /\ published' <= published'
        BY <1>1, <2>1, <3>2
      <3> QED BY <2>1, <3>1, <3>2, <3>3, <3>4, NoteVersions
    <2>4. CASE n \notin known
      <3>1. UNCHANGED notices
        BY <1>3, <2>4 DEF ServerPublish
      <3>2. count' = count
        BY <3>1 DEF count
      <3>3. \A m \in SubNames : stored'[m] = IF m = n THEN published + 1 ELSE stored[m]
        BY <1>1, <2>1
      <3> QED BY <1>1, <2>1, <2>2, <3>1, <3>2, <3>3 DEF VersionsGrow
    <2> QED BY <2>3, <2>4
  <1>4. ASSUME NEW n \in SubNames, ServerAnswer(n) PROVE VersionsGrow'
    <2>1. CASE stored[n] # 0
      <3>1. /\ Note(n, stored[n], TRUE) /\ UNCHANGED <<stored, published, server>>
        BY <1>4, <2>1 DEF ServerAnswer
      <3>2. \A k \in 1 .. count : notices[k].name = n => notices[k].version <= stored[n]
        BY <2>1 DEF VersionsGrow
      <3>3. stored[n] <= published /\ stored[n] \in Nat
        BY <1>1 DEF VersionsGrow
      <3>4. \A k \in 1 .. count : notices[k].name = n =>
                notices[k].version <= stored[n]
                  /\ (TRUE \/ notices[k].version < stored[n])
        BY <3>2
      <3>5. /\ published' \in Nat /\ published <= published' /\ stored[n] <= published'
            /\ stored' \in [SubNames -> Nat] /\ stored'[n] = stored[n]
        BY <1>1, <3>1, <3>3
      <3> QED BY <3>1, <3>3, <3>4, <3>5, NoteVersions
    <2>2. CASE stored[n] = 0
      BY <1>2, <1>4, <2>2 DEF ServerAnswer
    <2> QED BY <2>1, <2>2
  <1>5. ASSUME UNCHANGED notices, published' \in Nat, stored' = [n \in SubNames |-> 0],
               server' = "up" => published' = published /\ server = "up"
        PROVE  VersionsGrow'
    <2>1. count' = count
      BY <1>5 DEF count
    <2>2. \A n \in SubNames : stored'[n] = 0
      BY <1>5
    <2> QED BY <1>1, <1>5, <2>1, <2>2 DEF VersionsGrow
  <1>6. CASE ServerClear
    BY <1>1, <1>5, <1>6 DEF ServerClear
  <1>7. CASE ServerKill \/ ServerGone
    BY <1>5, <1>7 DEF ServerKill, ServerGone, BrokerEnds
  <1> QED BY <1>2, <1>3, <1>4, <1>6, <1>7, NotTheBroker DEF Next

-----------------------------------------------------------------------------
(* The inductive invariant: every waiting get() has an object of its own   *)
(* topic that will hold newer data than the thread has been returned, what *)
(* is on its way comes in the order sent, and the client is whole as long  *)
(* as the broker is up.                                                    *)
THEOREM ClientInvariance == Spec => []IInv
  <1>1. IInv /\ [Next]_vars => IInv'
    <2> SUFFICES ASSUME IInv, [Next]_vars PROVE IInv'
      OBVIOUS
    <2>1. TypeOK /\ Up /\ Kept /\ CallsOK /\ AskedOK /\ VersionsGrow
      BY DEF IInv, Up, Kept
    <2>2. TypeOK' /\ Up' /\ Kept'
      BY <2>1, TypeKept, UpKept, KeptKept
    <2>3. AskedOK' /\ VersionsGrow'
      BY <2>1, AskedKept, VersionsKept
    <2> QED BY <2>2, <2>3 DEF IInv, Up, Kept
  <1> QED BY InitOK, <1>1, PTL DEF Spec

(* As long as the broker is up, the thread runs, the client object lives,  *)
(* and no call that has passed the check of running kills the process.     *)
THEOREM AlwaysConnectedWhileUp == Spec => []ConnectedWhileUp
  <1>1. IInv => ConnectedWhileUp
    BY DEF IInv
  <1> QED BY ClientInvariance, <1>1, PTL

(* What get() returns is a notice of the topic that it named, never in an  *)
(* older version than what the same thread was returned before.  With      *)
(* GET_WAITNEW the notice is a later one, and its version newer unless it  *)
(* answers a subscription: whatever the other threads do meanwhile,        *)
(* subscriptions to the same topic included.                               *)
THEOREM ReadsAlwaysAdvance == Spec => ReadsAdvance
  <1>1. ASSUME IInv, NEW t \in Thread, Returns(t)
        PROVE  LET n == call[t].name IN Advances(t, n, got[t][n], got'[t][n])
    <2> DEFINE n   == call[t].name
               old == got[t][n]
               new == got'[t][n]
    <2>1. TypeOK /\ Kept /\ VersionsGrow
      BY <1>1 DEF IInv, Kept
    <2>2. /\ n \in SubNames /\ Of(n, new) /\ old \in Nat /\ old <= new
          /\ call[t].wait = "GET_WAITNEW" => old < new
      <3>1. ASSUME NEW o, MayReturn(t, o), ReturnTopic(t, o)
            PROVE  /\ n \in SubNames /\ Of(n, new) /\ old \in Nat /\ old <= new
                   /\ new = held[o]
        <4>1. n \in SubNames /\ o \in Object /\ held[o] \in Nat /\ old \in Nat
          BY <2>1, <3>1, Typed DEF MayReturn
        <4>2. new = held[o]
          BY <2>1, <3>1, <4>1 DEF ReturnTopic, TypeOK
        <4> QED BY <3>1, <4>1, <4>2 DEF MayReturn
      <3>2. CASE GetWaited(t)
        <4>1. /\ MayReturn(t, obj[t]) /\ ReturnTopic(t, obj[t])
              /\ held[obj[t]] > old
          BY <2>1, <3>2, WaitedMayReturn DEF GetWaited
        <4>2. held[obj[t]] \in Nat
          BY <2>1, <4>1, Typed DEF MayReturn
        <4> QED BY <3>1, <4>1, <4>2
      <3>3. ASSUME NEW o \in Object, GetTopic(t, o)
            PROVE  /\ n \in SubNames /\ Of(n, new) /\ old \in Nat /\ old <= new
                   /\ call[t].wait = "GET_WAITNEW" => old < new
        <4>1. MayReturn(t, o) /\ ReturnTopic(t, o)
          BY <2>1, <3>3, FoundMayReturn DEF GetTopic
        <4>2. o = topics[n] /\ n \in DOMAIN topics /\ held[o] \in Nat
          BY <2>1, <3>3, Finds, Typed DEF GetTopic
        <4>3. call[t].wait = "GET_WAITNEW" => held[o] > old
          BY <2>1, <3>3, <4>2 DEF Kept, HeldIsNew, GetTopic
        <4> QED BY <3>1, <4>1, <4>2, <4>3
      <3> QED BY <1>1, <3>2, <3>3 DEF Returns
    <2>3. old > 0 => Of(n, old)
      BY <2>1, <2>2 DEF Kept, OwnNotices
    <2> HIDE DEF n, old, new
    <2>4. old > 0 => /\ notices[old].version <= notices[new].version
                     /\ old < new => \/ notices[new].answer
                                     \/ notices[old].version < notices[new].version
      <3> SUFFICES ASSUME old > 0
                   PROVE  /\ notices[old].version <= notices[new].version
                          /\ old < new => \/ notices[new].answer
                                          \/ notices[old].version < notices[new].version
        OBVIOUS
      <3>1. /\ old \in 1 .. count /\ notices[old].name = n
            /\ new \in 1 .. count /\ notices[new].name = n
            /\ notices[old].version \in Nat
        BY <2>1, <2>2, <2>3, Typed DEF Of, Sent
      <3>2. CASE old < new
        <4>1. old \in 1 .. new - 1
          BY <3>1, <3>2, Typed
        <4> QED BY <2>1, <3>1, <4>1 DEF VersionsGrow
      <3>3. CASE ~(old < new)
        <4>1. old = new
          BY <2>1, <2>2, <3>1, <3>3, Typed
        <4> QED BY <3>1, <3>3, <4>1
      <3> QED BY <3>2, <3>3
    <2>5. Advances(t, n, old, new)
      BY <2>2, <2>4 DEF Advances, Of
    <2> QED BY <2>5 DEF n, old, new
  <1>2. IInv /\ [Next]_vars =>
          [\A t \in Thread : Returns(t) =>
              LET n == call[t].name IN Advances(t, n, got[t][n], got'[t][n])]_vars
    BY <1>1
  <1> QED BY ClientInvariance, <1>2, PTL DEF Spec, ReadsAdvance

-----------------------------------------------------------------------------
(* With one thread, waittopic names what it waits for.                     *)
WaitIsNamed ==
    \A t \in waiters :
        waittopic = IF pc[t] = "waitany" THEN AnyTopic ELSE Topic(call[t].name)

OneThread == \A s, t \in Thread : s = t

LEMMA NamedKept ==
    ASSUME OneThread, IInv, WaitIsNamed, [Next]_vars
    PROVE  WaitIsNamed'
  <1> USE DEF netVars, topicVars, wireVars, threadVars, brokerVars
  <1>1. TypeOK /\ CallsOK /\ waiters \subseteq Thread
    BY DEF IInv, TypeOK
  <1>2. ASSUME NEW condition \in BOOLEAN, SignalIf(condition), pc' = pc, call' = call
        PROVE  WaitIsNamed'
    <2>1. CASE condition
      <3>1. waiters' = {}
        BY <1>1, <1>2, <2>1 DEF SignalIf, OneThread
      <3> QED BY <3>1 DEF WaitIsNamed
    <2>2. CASE ~condition
      BY <1>2, <2>2 DEF SignalIf, WaitIsNamed
    <2> QED BY <2>1, <2>2
  <1>3. CASE ProcessKill
    BY <1>2, <1>3 DEF ProcessKill, Read
  <1>4. CASE ProcessNotify
    BY <1>2, <1>4 DEF ProcessNotify, Read
  <1>5. ASSUME pc' = pc, call' = call, waittopic' = waittopic, waiters' \subseteq waiters
        PROVE  WaitIsNamed'
    BY <1>5 DEF WaitIsNamed
  <1>6. CASE \/ NetTest \/ NetClosed \/ NetDelete \/ NetStop \/ UNCHANGED vars
             \/ (\E n \in SubNames : ServerPublish(n) \/ ServerAnswer(n))
             \/ ServerClear \/ ServerKill \/ ServerGone
             \/ (\E t \in Thread : SpuriousWakeup(t))
    <2>1. pc' = pc /\ call' = call /\ waittopic' = waittopic /\ waiters' \subseteq waiters
      BY <1>6 DEF NetTest, NetClosed, NetDelete, NetStop, vars, ServerPublish, ServerAnswer,
         ServerClear, ServerKill, ServerGone, SpuriousWakeup
    <2> QED BY <1>5, <2>1
  <1>7. ASSUME NEW t \in Thread, waiters' = waiters, t \notin waiters PROVE WaitIsNamed'
    BY <1>1, <1>7 DEF WaitIsNamed, OneThread
  <1>8. ASSUME NEW t \in Thread, Locked(t) PROVE WaitIsNamed'
    <2>1. ASSUME NEW where, NEW o, CondWait(t, where, o, Topic(call[t].name)),
                 where # "waitany"
          PROVE  WaitIsNamed'
      BY <1>1, <2>1 DEF CondWait, WaitIsNamed, OneThread, TypeOK
    <2>2. CASE (\E o \in Object : GetWait(t, o)) \/ GetWaitAgain(t)
      BY <2>1, <2>2 DEF GetWait, GetWaitAgain
    <2>3. CASE \/ GetNotFound(t) \/ (\E o \in Object : GetNoData(t, o) \/ GetTopic(t, o))
               \/ GetAborted(t) \/ GetWaited(t) \/ AnyArrived(t)
               \/ Subscribed(t) \/ Requested(t) \/ RequestThrows(t)
      <3>1. waiters' = waiters /\ t \notin waiters
        BY <1>1, <2>3 DEF GetNotFound, GetNoData, Found, GetTopic, ReturnTopic, GetAborted,
           GetWaited, Woken, AnyArrived, Subscribed, Requested, RequestThrows, Sends,
           TypeOK, Waiting
      <3> QED BY <1>7, <3>1
    <2> QED BY <1>8, <2>2, <2>3 DEF Locked
  <1>9. ASSUME NEW t \in Thread, Calls(t) PROVE WaitIsNamed'
    <2>1. CASE WaitForAny(t)
      BY <1>1, <2>1 DEF WaitForAny, CondWait, WaitIsNamed, OneThread, TypeOK
    <2>2. ASSUME Enter(t, "get") \/ Enter(t, "subscribe") \/ Enter(t, "request")
          PROVE  WaitIsNamed'
      <3>1. waiters' = waiters /\ t \notin waiters
        BY <1>1, <2>2 DEF Enter, TypeOK, Waiting
      <3> QED BY <1>7, <3>1
    <2> QED BY <1>9, <2>1, <2>2 DEF Calls, CallGet, CallSubscribe, CallRequest
  <1>10. ASSUME NEW t \in Thread, Dies(t) PROVE WaitIsNamed'
    BY <1>10 DEF Dies, WaitIsNamed
  <1> QED BY <1>3, <1>4, <1>6, <1>8, <1>9, <1>10 DEF Next, Net

(* notify() signals the thread that waits for the topic of the notice, or  *)
(* for any: proved for a program in which only one thread calls the API.   *)
(* (With two, the second to wait overwrites the name the first waits for.) *)
THEOREM NoticeAlwaysWakes ==
    ASSUME OneThread PROVE Spec => NotifyWakesWaiters
  <1>1. Init => WaitIsNamed
    BY DEF Init, WaitIsNamed
  <1>2. ASSUME IInv, WaitIsNamed, NEW t \in waiters, ProcessNotify,
               pc[t] = "waitany" \/ Head(inbound).name = call[t].name
        PROVE  t \notin waiters'
    <2> DEFINE n    == Head(inbound).name
               here == {topics[m] : m \in {n} \cap DOMAIN topics}
    <2>1. TypeOK /\ Kept /\ inbound # <<>> /\ Head(inbound).type = "SC_NOTIFY"
      BY <1>2 DEF IInv, Kept, ProcessNotify, Read
    <2>2. n \in DOMAIN topics
      <3>1. /\ Head(inbound) = inbound[1] /\ 1 \in 1 .. Len(inbound)
            /\ inbound[1] # KillClient
        BY <2>1, HeadOfStream, Typed
      <3> QED BY <2>1, <3>1 DEF Kept, InOrder
    <2>3. here # {}
      BY <2>2
    <2>4. waittopic \in {AnyTopic, Topic(n)}
      BY <1>2 DEF WaitIsNamed
    <2>5. SignalIf(here # {} /\ waittopic \in {AnyTopic, Topic(n)})
      BY <1>2 DEF ProcessNotify
    <2> HIDE DEF here, n
    <2>6. SignalIf(TRUE)
      BY <2>3, <2>4, <2>5
    <2> QED BY <2>1, <2>6 DEF SignalIf, OneThread, TypeOK
  <1>3. IInv /\ WaitIsNamed /\ [Next]_vars =>
          [\A t \in waiters :
              ProcessNotify /\ (pc[t] = "waitany" \/ Head(inbound).name = call[t].name)
                 => t \notin waiters']_vars
    BY <1>2
  <1>4. IInv /\ WaitIsNamed /\ [Next]_vars => WaitIsNamed'
    BY NamedKept
  <1> QED BY ClientInvariance, <1>1, <1>3, <1>4, PTL DEF Spec, NotifyWakesWaiters
=============================================================================

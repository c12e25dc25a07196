---------------------------- MODULE ServerProofs ----------------------------
(* Theorems about the broker, for every set of connections, descriptors,   *)
(* names and values: its own state, and then what it sends, to whom and in *)
(* which order.                                                            *)
EXTENDS Server, FiniteSetTheorems, SequenceTheorems, TLAPS

-----------------------------------------------------------------------------
(* Maps.                                                                   *)

(* Inserting into a map keeps its type.                                    *)
LEMMA PutMap ==
    ASSUME NEW S, NEW T, NEW f, IsMap(f, S, T), NEW k \in S, NEW v \in T
    PROVE  IsMap(Put(f, k, v), S, T)
  BY DEF IsMap, Put

(* Erasing keeps the type of a map as well.                                *)
LEMMA EraseMap ==
    ASSUME NEW S, NEW T, NEW f, IsMap(f, S, T), NEW k
    PROVE  IsMap(Erase(f, k), S, T)
  BY DEF IsMap, Erase

(* What an insertion does to the keys and the values.                      *)
LEMMA PutEffect ==
    ASSUME NEW f, NEW k, NEW v
    PROVE  /\ DOMAIN Put(f, k, v) = DOMAIN f \cup {k}
           /\ Put(f, k, v)[k] = v
           /\ \A x \in DOMAIN f : x # k => Put(f, k, v)[x] = f[x]
  BY DEF Put

(* Reading a map with a default after an insertion (std::map operator[]).  *)
LEMMA PutAt ==
    ASSUME NEW f, NEW k, NEW v
    PROVE  \A x : At(Put(f, k, v), x) = IF x = k THEN v ELSE At(f, x)
  BY DEF Put, At

(* Erasing takes one key out and leaves the values of the others.          *)
LEMMA EraseEffect ==
    ASSUME NEW f, NEW k
    PROVE  /\ DOMAIN Erase(f, k) = DOMAIN f \ {k}
           /\ \A x \in DOMAIN f : x # k => Erase(f, k)[x] = f[x]
  BY DEF Erase

(* Reading a map with a default after an erasure.                          *)
LEMMA EraseAt ==
    ASSUME NEW f, NEW k
    PROVE  \A x : At(Erase(f, k), x) = IF x = k THEN {} ELSE At(f, x)
  BY DEF Erase, At

(* The default of a map of sets is the empty set.                          *)
LEMMA AtType ==
    ASSUME NEW S, NEW T, NEW f, IsMap(f, S, SUBSET T), NEW k
    PROVE  At(f, k) \subseteq T
  BY DEF IsMap, At

(* A map with no keys has every type of map.                               *)
LEMMA EmptyMapOK ==
    ASSUME NEW S, NEW T
    PROVE  IsMap(EmptyMap, S, T) /\ DOMAIN EmptyMap = {} /\ \A x : At(EmptyMap, x) = {}
  BY DEF IsMap, EmptyMap, At

-----------------------------------------------------------------------------
(* The part of the state that process() works on.                          *)

BrokerOK(b) ==
    /\ b = [subscribers |-> b.subscribers, topics |-> b.topics,
            sent |-> b.sent, msgssent |-> b.msgssent, msgsrecvd |-> b.msgsrecvd]
    /\ IsMap(b.subscribers, Names, SUBSET Fd) /\ IsFiniteSet(DOMAIN b.subscribers)
    /\ IsMap(b.topics, Names, Data)
    /\ b.sent \in [Conn -> Seq(Notices)]
    /\ b.msgssent \in Nat /\ b.msgsrecvd \in Nat

(* a and b differ at most in what has been sent, and in which topics have  *)
(* an empty set of subscribers.                                            *)
SameSubscriptions(a, b) == \A n : At(a.subscribers, n) = At(b.subscribers, n)

(* What the broker makes itself, list and statistics, is topic data.       *)
LEMMA DataTypes ==
    /\ VersionData \in Data
    /\ \A v \in Values : UserData(v) \in Data
    /\ \A S \in SUBSET Names : TopicList(S) \in Data
    /\ \A i, j, k \in Nat : Stats(i, j, k) \in Data
  BY DEF Data, Payloads, VersionData, UserData, TopicList, Stats

(* What the broker sends is a notice (SC_NOTIFY, SC_KILLCLIENT).           *)
LEMMA NoticeTypes ==
    /\ \A n \in Names, d \in Data : Notify(n, d) \in Notices
    /\ KillClient \in Notices
  BY DEF Notify, Notices, KillClient

(* The fields of a request that the handlers of process() read.            *)
LEMMA RequestTypes ==
    ASSUME NEW m \in Requests
    PROVE  /\ m.type = "CS_PUBLISH" => m.name \in PubNames /\ m.data \in Payloads
           /\ m.type = "CS_SUBSCRIBE" => m.name \in SubNames
  <1>1. CASE \E n \in PubNames, v \in Values : m = Publish(n, v)
    BY <1>1 DEF Publish, Payloads
  <1>2. CASE \E n \in SubNames : m = Subscribe(n)
    BY <1>2 DEF Subscribe
  <1>3. CASE m \in {KillServer, ClearServer}
    BY <1>3 DEF KillServer, ClearServer
  <1> QED BY <1>1, <1>2, <1>3 DEF Requests

(* basesend() changes what was sent, and the count of it.                  *)
LEMMA BaseSendOK ==
    ASSUME NEW b, BrokerOK(b), NEW F \in SUBSET Fd, NEW m \in Notices
    PROVE  /\ BrokerOK(BaseSend(b, F, m))
           /\ BaseSend(b, F, m).subscribers = b.subscribers
           /\ BaseSend(b, F, m).topics = b.topics
  <1> DEFINE s == [c \in Conn |-> IF c \in Listening(F) THEN Append(b.sent[c], m)
                                                        ELSE b.sent[c]]
             k == Cardinality(F)
             r == [subscribers |-> b.subscribers, topics |-> b.topics, sent |-> s,
                   msgssent |-> b.msgssent + k, msgsrecvd |-> b.msgsrecvd]
  <1>1. k \in Nat
    BY FS_Subset, FS_CardinalityType, ServerAssumption
  <1>2. s \in [Conn -> Seq(Notices)]
    <2> SUFFICES ASSUME NEW c \in Conn
                 PROVE  (IF c \in Listening(F) THEN Append(b.sent[c], m)
                                               ELSE b.sent[c]) \in Seq(Notices)
      OBVIOUS
    <2>1. b.sent[c] \in Seq(Notices)
      BY DEF BrokerOK
    <2> QED BY <2>1, AppendProperties
  <1> HIDE DEF s, k
  <1>3. BaseSend(b, F, m) = r
    <2>1. b = [subscribers |-> b.subscribers, topics |-> b.topics,
               sent |-> b.sent, msgssent |-> b.msgssent, msgsrecvd |-> b.msgsrecvd]
      BY DEF BrokerOK
    <2>2. BaseSend(b, F, m) = [b EXCEPT !.sent = s, !.msgssent = @ + k]
      BY DEF BaseSend, s, k
    <2> QED BY <2>1, <2>2
  <1>4. BrokerOK(r)
    BY <1>1, <1>2 DEF BrokerOK
  <1> QED BY <1>3, <1>4

(* Storing data on a topic keeps the type of the broker's record.          *)
LEMMA StoreOK ==
    ASSUME NEW b, BrokerOK(b), NEW n \in Names, NEW d \in Data
    PROVE  /\ BrokerOK(Store(b, n, d))
           /\ Store(b, n, d).subscribers = b.subscribers
           /\ Store(b, n, d).topics = Put(b.topics, n, d)
           /\ DOMAIN Store(b, n, d).topics = DOMAIN b.topics \cup {n}
           /\ Store(b, n, d).msgssent = b.msgssent
           /\ Store(b, n, d).msgsrecvd = b.msgsrecvd
  <1> DEFINE t == Put(b.topics, n, d)
             r == [subscribers |-> b.subscribers, topics |-> t, sent |-> b.sent,
                   msgssent |-> b.msgssent, msgsrecvd |-> b.msgsrecvd]
  <1>1. IsMap(t, Names, Data) /\ DOMAIN t = DOMAIN b.topics \cup {n}
    <2>1. IsMap(b.topics, Names, Data)
      BY DEF BrokerOK
    <2> QED BY <2>1, PutMap, PutEffect
  <1> HIDE DEF t
  <1>2. Store(b, n, d) = r
    <2>1. b = [subscribers |-> b.subscribers, topics |-> b.topics,
               sent |-> b.sent, msgssent |-> b.msgssent, msgsrecvd |-> b.msgsrecvd]
      BY DEF BrokerOK
    <2>2. Store(b, n, d) = [b EXCEPT !.topics = t]
      BY DEF Store, t
    <2> QED BY <2>1, <2>2
  <1>3. BrokerOK(r)
    BY <1>1 DEF BrokerOK
  <1> QED BY <1>1, <1>2, <1>3 DEF t

(* The send loop of publish() leaves subscriptions and topics alone.       *)
LEMMA SendToSubscribersOK ==
    ASSUME NEW b, BrokerOK(b), NEW n \in DOMAIN b.topics
    PROVE  /\ BrokerOK(SendToSubscribers(b, n))
           /\ SameSubscriptions(SendToSubscribers(b, n), b)
           /\ SendToSubscribers(b, n).topics = b.topics
  <1> DEFINE F == At(b.subscribers, n)
             p == Put(b.subscribers, n, F)
             r == [subscribers |-> p, topics |-> b.topics, sent |-> b.sent,
                   msgssent |-> b.msgssent, msgsrecvd |-> b.msgsrecvd]
             m == Notify(n, b.topics[n])
  <1>1. F \in SUBSET Fd
    BY AtType DEF BrokerOK
  <1>2. n \in Names /\ b.topics[n] \in Data
    BY DEF BrokerOK, IsMap
  <1>3. m \in Notices
    BY <1>2, NoticeTypes
  <1>4. IsMap(p, Names, SUBSET Fd) /\ IsFiniteSet(DOMAIN p)
    <2>1. IsMap(b.subscribers, Names, SUBSET Fd) /\ IsFiniteSet(DOMAIN b.subscribers)
      BY DEF BrokerOK
    <2> HIDE DEF F
    <2>2. IsMap(p, Names, SUBSET Fd) /\ DOMAIN p = DOMAIN b.subscribers \cup {n}
      BY <1>1, <1>2, <2>1, PutMap, PutEffect
    <2> QED BY <2>1, <2>2, FS_AddElement
  <1>5. \A x : At(p, x) = At(b.subscribers, x)
    BY PutAt
  <1> HIDE DEF F, p, m
  <1>6. BrokerOK(r)
    BY <1>4 DEF BrokerOK
  <1>7. [b EXCEPT !.subscribers = p] = r
    BY DEF BrokerOK
  <1>8. SendToSubscribers(b, n) = BaseSend([b EXCEPT !.subscribers = p], F, m)
    BY DEF SendToSubscribers, p, F, m
  <1>9. /\ BrokerOK(BaseSend(r, F, m))
        /\ BaseSend(r, F, m).subscribers = p
        /\ BaseSend(r, F, m).topics = b.topics
    BY <1>1, <1>3, <1>6, BaseSendOK
  <1> QED BY <1>5, <1>7, <1>8, <1>9 DEF SameSubscriptions

(* rebuildTopicsTopic() makes the stored list complete.                    *)
LEMMA RebuildTopicsOK ==
    ASSUME NEW b, BrokerOK(b)
    PROVE  /\ BrokerOK(RebuildTopicsTopic(b))
           /\ SameSubscriptions(RebuildTopicsTopic(b), b)
           /\ DOMAIN RebuildTopicsTopic(b).topics = DOMAIN b.topics \cup {"topics"}
           /\ RebuildTopicsTopic(b).topics["topics"] =
                  TopicList(DOMAIN RebuildTopicsTopic(b).topics)
  <1> DEFINE d == TopicList(DOMAIN b.topics \cup {"topics"})
             a == Store(b, "topics", d)
  <1>1. "topics" \in Names
    BY NamesAssumption
  <1>2. d \in Data
    BY <1>1, DataTypes DEF BrokerOK, IsMap
  <1>3. /\ BrokerOK(a)
        /\ a.subscribers = b.subscribers
        /\ a.topics = Put(b.topics, "topics", d)
        /\ DOMAIN a.topics = DOMAIN b.topics \cup {"topics"}
    BY <1>1, <1>2, StoreOK
  <1>4. a.topics["topics"] = d
    BY <1>3 DEF Put
  <1> HIDE DEF a
  <1>5. /\ BrokerOK(SendToSubscribers(a, "topics"))
        /\ SameSubscriptions(SendToSubscribers(a, "topics"), a)
        /\ SendToSubscribers(a, "topics").topics = a.topics
    BY <1>3, SendToSubscribersOK
  <1>6. RebuildTopicsTopic(b) = SendToSubscribers(a, "topics")
    BY DEF RebuildTopicsTopic, a
  <1> QED BY <1>3, <1>4, <1>5, <1>6 DEF SameSubscriptions

(* rebuildStatsTopic() keeps the stored list complete.                     *)
LEMMA RebuildStatsOK ==
    ASSUME NEW b, BrokerOK(b), ListOK(b.topics)
    PROVE  /\ BrokerOK(RebuildStatsTopic(b))
           /\ SameSubscriptions(RebuildStatsTopic(b), b)
           /\ "stats" \in DOMAIN RebuildStatsTopic(b).topics
           /\ ListOK(RebuildStatsTopic(b).topics)
  <1> DEFINE d == Stats(Cardinality(DOMAIN b.subscribers), b.msgssent, b.msgsrecvd)
             a == Store(b, "stats", d)
  <1>1. "stats" \in Names
    BY NamesAssumption
  <1>2. d \in Data
    <2>1. Cardinality(DOMAIN b.subscribers) \in Nat
      BY FS_CardinalityType DEF BrokerOK
    <2> QED BY <2>1, DataTypes DEF BrokerOK
  <1> HIDE DEF d
  <1>3. /\ BrokerOK(a)
        /\ a.subscribers = b.subscribers
        /\ a.topics = Put(b.topics, "stats", d)
        /\ DOMAIN a.topics = DOMAIN b.topics \cup {"stats"}
    BY <1>1, <1>2, StoreOK
  <1>4. ListOK(a.topics)
    BY <1>3 DEF ListOK, Put
  <1> HIDE DEF a
  <1>5. /\ BrokerOK(SendToSubscribers(a, "stats"))
        /\ SameSubscriptions(SendToSubscribers(a, "stats"), a)
        /\ SendToSubscribers(a, "stats").topics = a.topics
    BY <1>3, SendToSubscribersOK
  <1>6. RebuildStatsTopic(b) = SendToSubscribers(a, "stats")
    BY DEF RebuildStatsTopic, a, d
  <1> QED BY <1>3, <1>4, <1>5, <1>6 DEF SameSubscriptions

(* publish() keeps the list complete, for an old name and a new one.       *)
LEMMA PublishTopicOK ==
    ASSUME NEW b, BrokerOK(b), ListOK(b.topics), "stats" \in DOMAIN b.topics,
           NEW n \in PubNames, NEW d \in Payloads
    PROVE  /\ BrokerOK(PublishTopic(b, n, d))
           /\ SameSubscriptions(PublishTopic(b, n, d), b)
           /\ ListOK(PublishTopic(b, n, d).topics)
  <1> DEFINE a == Store(b, n, d)
             p == SendToSubscribers(a, n)
  <1>1. n \in Names /\ d \in Data
    BY NamesAssumption DEF Data
  <1>2. /\ BrokerOK(a)
        /\ a.subscribers = b.subscribers
        /\ a.topics = Put(b.topics, n, d)
        /\ DOMAIN a.topics = DOMAIN b.topics \cup {n}
    BY <1>1, StoreOK
  <1> HIDE DEF a
  <1>3. BrokerOK(p) /\ SameSubscriptions(p, a) /\ p.topics = a.topics
    BY <1>2, SendToSubscribersOK
  <1> HIDE DEF p
  <1>4. SameSubscriptions(p, b)
    BY <1>2, <1>3 DEF SameSubscriptions
  <1>5. PublishTopic(b, n, d) = IF n \in DOMAIN b.topics THEN p
                                                         ELSE RebuildTopicsTopic(p)
    BY DEF PublishTopic, p, a
  <1>6. CASE n \in DOMAIN b.topics
    <2>1. ListOK(p.topics)
      BY <1>2, <1>3, <1>6 DEF ListOK, Put
    <2> QED BY <1>3, <1>4, <1>5, <1>6, <2>1
  <1>7. CASE n \notin DOMAIN b.topics
    <2>1. /\ BrokerOK(RebuildTopicsTopic(p))
          /\ SameSubscriptions(RebuildTopicsTopic(p), p)
          /\ DOMAIN RebuildTopicsTopic(p).topics = DOMAIN p.topics \cup {"topics"}
          /\ RebuildTopicsTopic(p).topics["topics"] =
                 TopicList(DOMAIN RebuildTopicsTopic(p).topics)
      BY <1>3, RebuildTopicsOK
    <2>2. ListOK(RebuildTopicsTopic(p).topics)
      BY <1>2, <1>3, <2>1 DEF ListOK
    <2> QED BY <1>4, <1>5, <1>7, <2>1, <2>2 DEF SameSubscriptions
  <1> QED BY <1>6, <1>7

(* subscribe() adds one descriptor to one topic, and nothing else.         *)
LEMMA SubscribeToOK ==
    ASSUME NEW b, BrokerOK(b), NEW i \in Fd, NEW n \in Names
    PROVE  /\ BrokerOK(SubscribeTo(b, i, n))
           /\ SubscribeTo(b, i, n).topics = b.topics
           /\ \A x : At(SubscribeTo(b, i, n).subscribers, x) =
                       IF x = n THEN At(b.subscribers, n) \cup {i}
                                ELSE At(b.subscribers, x)
  <1> DEFINE F == At(b.subscribers, n) \cup {i}
             p == Put(b.subscribers, n, F)
             r == [subscribers |-> p, topics |-> b.topics, sent |-> b.sent,
                   msgssent |-> b.msgssent, msgsrecvd |-> b.msgsrecvd]
             m == Notify(n, b.topics[n])
  <1>1. IsMap(b.subscribers, Names, SUBSET Fd) /\ IsFiniteSet(DOMAIN b.subscribers)
    BY DEF BrokerOK
  <1>2. F \in SUBSET Fd
    BY <1>1, AtType
  <1>3. IsMap(p, Names, SUBSET Fd) /\ DOMAIN p = DOMAIN b.subscribers \cup {n}
    BY <1>1, <1>2, PutMap, PutEffect
  <1>4. IsFiniteSet(DOMAIN p)
    BY <1>1, <1>3, FS_AddElement
  <1>5. \A x : At(p, x) = IF x = n THEN F ELSE At(b.subscribers, x)
    BY PutAt
  <1>6. [b EXCEPT !.subscribers = Put(@, n, At(@, n) \cup {i})] = r
    BY DEF BrokerOK
  <1>7. SubscribeTo(b, i, n) = IF n \in DOMAIN b.topics THEN BaseSend(r, {i}, m) ELSE r
    BY <1>6 DEF SubscribeTo
  <1> HIDE DEF p, m
  <1>8. BrokerOK(r)
    BY <1>3, <1>4 DEF BrokerOK
  <1>9. CASE n \in DOMAIN b.topics
    <2>1. m \in Notices
      BY <1>9, NoticeTypes DEF m, BrokerOK, IsMap
    <2>2. /\ BrokerOK(BaseSend(r, {i}, m))
          /\ BaseSend(r, {i}, m).subscribers = p
          /\ BaseSend(r, {i}, m).topics = b.topics
      BY <1>8, <2>1, BaseSendOK
    <2> QED BY <1>5, <1>7, <1>9, <2>2
  <1>10. CASE n \notin DOMAIN b.topics
    BY <1>5, <1>7, <1>8, <1>10
  <1> QED BY <1>9, <1>10

-----------------------------------------------------------------------------
(* The invariant and the broker's part of the state.                       *)

(* The constructor leaves nobody subscribed and the list complete.         *)
LEMMA InitialBrokerOK ==
    /\ BrokerOK(InitialBroker)
    /\ ListOK(InitialBroker.topics)
    /\ \A n : At(InitialBroker.subscribers, n) = {}
  <1> DEFINE t == Put(EmptyMap, "version", VersionData)
             s == [c \in Conn |-> <<>>]
             a == [subscribers |-> EmptyMap, topics |-> t, sent |-> s,
                   msgssent |-> 0, msgsrecvd |-> 0]
             b == RebuildStatsTopic(a)
  <1>1. IsMap(t, Names, Data) /\ "topics" \notin DOMAIN t
    <2>1. IsMap(EmptyMap, Names, Data) /\ DOMAIN EmptyMap = {}
      BY EmptyMapOK
    <2>2. "version" \in Names /\ VersionData \in Data
      BY NamesAssumption, DataTypes
    <2>3. IsMap(t, Names, Data)
      BY <2>1, <2>2, PutMap, PutEffect
    <2>4. DOMAIN t = {"version"}
      BY <2>1 DEF Put
    <2> QED BY <2>3, <2>4
  <1>2. s \in [Conn -> Seq(Notices)]
    BY EmptySeq
  <1>3. IsMap(EmptyMap, Names, SUBSET Fd) /\ IsFiniteSet(DOMAIN EmptyMap)
    BY EmptyMapOK, FS_EmptySet
  <1> HIDE DEF t, s
  <1>4. BrokerOK(a) /\ ListOK(a.topics)
    BY <1>1, <1>2, <1>3 DEF BrokerOK, ListOK
  <1>5. \A n : At(a.subscribers, n) = {}
    BY EmptyMapOK
  <1>6. InitialBroker = RebuildTopicsTopic(b)
    BY DEF InitialBroker, t, s
  <1> HIDE DEF a
  <1>7. /\ BrokerOK(b) /\ SameSubscriptions(b, a)
        /\ "stats" \in DOMAIN b.topics /\ ListOK(b.topics)
    BY <1>4, RebuildStatsOK
  <1> HIDE DEF b
  <1>8. /\ BrokerOK(RebuildTopicsTopic(b))
        /\ SameSubscriptions(RebuildTopicsTopic(b), b)
        /\ DOMAIN RebuildTopicsTopic(b).topics = DOMAIN b.topics \cup {"topics"}
        /\ RebuildTopicsTopic(b).topics["topics"] =
               TopicList(DOMAIN RebuildTopicsTopic(b).topics)
    BY <1>7, RebuildTopicsOK
  <1> QED BY <1>5, <1>6, <1>7, <1>8 DEF ListOK, SameSubscriptions

(* The type invariant types the record that the handlers work on.          *)
LEMMA BrokerTyped ==
    ASSUME IInv
    PROVE  BrokerOK(Broker)
  BY DEF IInv, TypeOK, BrokerOK, Broker

(* What every request does first needs no more than the invariant.         *)
LEMMA CountedOK ==
    ASSUME IInv
    PROVE  /\ BrokerOK(Counted)
           /\ \A n : At(Counted.subscribers, n) = At(subscribers, n)
           /\ "stats" \in DOMAIN Counted.topics
           /\ ListOK(Counted.topics)
  <1> DEFINE b == [subscribers |-> subscribers, topics |-> topics, sent |-> sent,
                   msgssent |-> msgssent, msgsrecvd |-> msgsrecvd + 1]
  <1>1. [Broker EXCEPT !.msgsrecvd = @ + 1] = b
    BY DEF Broker
  <1>2. BrokerOK(b) /\ ListOK(b.topics)
    BY DEF IInv, TypeOK, BrokerOK
  <1>3. b.subscribers = subscribers
    OBVIOUS
  <1>4. Counted = RebuildStatsTopic(b)
    BY <1>1 DEF Counted
  <1> HIDE DEF b
  <1> QED BY <1>2, <1>3, <1>4, RebuildStatsOK DEF SameSubscriptions

(* What a handler stores at its end is of the right type.                  *)
MapsOK ==
    /\ IsMap(subscribers, Names, SUBSET Fd) /\ IsFiniteSet(DOMAIN subscribers)
    /\ IsMap(topics, Names, Data)
    /\ sent \in [Conn -> Seq(Notices)]
    /\ msgssent \in Nat /\ msgsrecvd \in Nat

(* Storing a typed record at the end of a handler keeps the types.         *)
LEMMA CommitOK ==
    ASSUME NEW b, BrokerOK(b), Commit(b)
    PROVE  MapsOK'
  BY DEF BrokerOK, Commit, MapsOK

(* The constructor establishes the invariant.                              *)
LEMMA InitOK == Init => IInv
  <1> SUFFICES ASSUME Init PROVE IInv
    OBVIOUS
  <1>1. MapsOK
    BY InitialBrokerOK DEF Init, BrokerOK, MapsOK
  <1>2. /\ IsMap(EmptyMap, Fd, Conn) /\ IsMap(EmptyMap, Fd, SUBSET Names)
        /\ DOMAIN EmptyMap = {} /\ \A x : At(EmptyMap, x) = {}
    BY EmptyMapOK
  <1>3. TypeOK
    BY <1>1, <1>2, EmptySeq DEF Init, MapsOK, TypeOK
  <1>4. OneOwner
    BY <1>2, EmptySeq DEF Init, OneOwner
  <1>5. RoundIsFresh
    BY <1>2 DEF Init, RoundIsFresh
  <1>6. SubscriptionsMirror
    BY <1>2, InitialBrokerOK DEF Init, SubscriptionsMirror
  <1> QED BY <1>1, <1>3, <1>4, <1>5, <1>6, InitialBrokerOK DEF IInv, MapsOK, Init

-----------------------------------------------------------------------------
(* Every step keeps the invariant: first what the clients and the kernel   *)
(* do, then the broker's round, its handlers, and its end.                 *)

(* A step that changes nothing keeps the invariant.                        *)
LEMMA StutterKeeps == IInv /\ UNCHANGED vars => IInv'
  BY DEF IInv, TypeOK, OneOwner, RoundIsFresh, Readable, Pending,
         SubscriptionsMirror, ListOK, At, vars, sockVars, mapVars, fdVars

(* The listening descriptor is none of the clients'.                       *)
LEMMA Places ==
    ASSUME IInv
    PROVE  /\ Len(backlog) \in Nat
           /\ \A k \in 1 .. Len(backlog) : backlog[k] \in Conn
           /\ \A i \in DOMAIN clients : i \in Fd /\ i # ListenFd /\ clients[i] \in Conn
  BY ServerAssumption, LenProperties DEF IInv, TypeOK, IsMap

(* The descriptors of a round are connected.                               *)
LEMMA Connected ==
    ASSUME IInv
    PROVE  \A i \in ready : i # ListenFd => i \in DOMAIN clients
  BY DEF IInv, TypeOK, RoundIsFresh

(* connect() queues a connection that is in no other place.                *)
LEMMA ConnectKeeps ==
    ASSUME IInv, NEW c \in Conn, ClientConnect(c)
    PROVE  IInv'
  <1> USE DEF ClientConnect, mapVars, fdVars
  <1>1. TypeOK'
    BY AppendProperties DEF IInv, TypeOK
  <1>2. OneOwner'
    <2>1. /\ Len(backlog') = Len(backlog) + 1
          /\ \A k \in 1 .. Len(backlog) : backlog'[k] = backlog[k]
          /\ backlog'[Len(backlog) + 1] = c
      BY AppendProperties DEF IInv, TypeOK
    <2>2. \A d \in Conn : peer'[d] # "unused" <=> (d = c \/ peer[d] # "unused")
      BY DEF IInv, TypeOK
    <2> QED BY <2>1, <2>2, Places DEF IInv, OneOwner
  <1>3. RoundIsFresh'
    <2>1. backlog' # <<>>
      <3>1. Len(backlog') = Len(backlog) + 1
        BY AppendProperties DEF IInv, TypeOK
      <3>2. Len(<<>>) = 0
        BY EmptySeq
      <3> QED BY <3>1, <3>2, Places
    <2>2. \A d \in Conn : peer[d] = "closed" => peer'[d] = "closed"
      BY DEF IInv, TypeOK
    <2>3. \A i \in ready : Readable(i)'
      BY <2>1, <2>2, Places, Connected DEF IInv, RoundIsFresh, Readable, Pending
    <2> QED BY <2>3 DEF IInv, RoundIsFresh
  <1>4. SubscriptionsMirror'
    BY DEF IInv, SubscriptionsMirror, At
  <1> QED BY <1>1, <1>2, <1>3, <1>4 DEF IInv, ListOK

(* A new request makes more descriptors readable, never fewer.             *)
LEMMA SendKeeps ==
    ASSUME IInv, NEW c \in Conn, NEW m \in Requests, ClientSend(c, m)
    PROVE  IInv'
  <1> USE DEF ClientSend, mapVars, fdVars
  <1>1. TypeOK'
    BY AppendProperties DEF IInv, TypeOK
  <1>2. OneOwner'
    BY DEF IInv, OneOwner
  <1>3. RoundIsFresh'
    <2>1. \A d \in Conn : Pending(d) => Pending(d)'
      BY AppendProperties, LenProperties DEF IInv, TypeOK, Pending
    <2>2. \A i \in ready : Readable(i)'
      BY <2>1, Places, Connected DEF IInv, RoundIsFresh, Readable
    <2> QED BY <2>2 DEF IInv, RoundIsFresh
  <1>4. SubscriptionsMirror'
    BY DEF IInv, SubscriptionsMirror, At
  <1> QED BY <1>1, <1>2, <1>3, <1>4 DEF IInv, ListOK

(* A far end that closes makes its descriptor readable for good.           *)
LEMMA CloseKeeps ==
    ASSUME IInv, NEW c \in Conn, ClientClose(c)
    PROVE  IInv'
  <1> USE DEF ClientClose, mapVars, fdVars
  <1>1. TypeOK'
    BY DEF IInv, TypeOK
  <1>2. \A d \in Conn : peer'[d] = IF d = c THEN "closed" ELSE peer[d]
    BY DEF IInv, TypeOK
  <1>3. OneOwner'
    BY <1>2, Places DEF IInv, OneOwner
  <1>4. RoundIsFresh'
    <2>1. \A i \in ready : Readable(i)'
      BY <1>2, Places, Connected DEF IInv, RoundIsFresh, Readable, Pending
    <2> QED BY <2>1 DEF IInv, RoundIsFresh
  <1>5. SubscriptionsMirror'
    BY DEF IInv, SubscriptionsMirror, At
  <1> QED BY <1>1, <1>3, <1>4, <1>5 DEF IInv, ListOK

(* A reset loses requests, and what it closes is still readable.           *)
LEMMA ResetKeeps ==
    ASSUME IInv, NEW c \in Conn, ClientReset(c)
    PROVE  IInv'
  <1> USE DEF ClientReset, mapVars, fdVars
  <1>1. TypeOK'
    <2>1. SubSeq(reqs[c], 1, handled[c]) \in Seq(Requests)
      BY SubSeqProperties, LenProperties DEF IInv, TypeOK, Pending
    <2> QED BY <2>1 DEF IInv, TypeOK
  <1>2. /\ \A d \in Conn : peer'[d] = IF d = c THEN "closed" ELSE peer[d]
        /\ \A d \in Conn : d # c => reqs'[d] = reqs[d]
    BY DEF IInv, TypeOK
  <1>3. OneOwner'
    BY <1>2, Places DEF IInv, OneOwner
  <1>4. RoundIsFresh'
    <2>1. \A i \in ready : Readable(i)'
      BY <1>2, Places, Connected DEF IInv, RoundIsFresh, Readable, Pending
    <2> QED BY <2>1 DEF IInv, RoundIsFresh
  <1>5. SubscriptionsMirror'
    BY DEF IInv, SubscriptionsMirror, At
  <1> QED BY <1>1, <1>3, <1>4, <1>5 DEF IInv, ListOK

(* A round begins with the descriptors that have something to read.        *)
LEMMA SelectKeeps ==
    ASSUME IInv, Select
    PROVE  IInv'
  <1> USE DEF Select, sockVars, mapVars, fdVars
  <1>1. TypeOK'
    BY DEF IInv, TypeOK
  <1>2. OneOwner'
    BY DEF IInv, OneOwner
  <1>3. RoundIsFresh'
    BY DEF IInv, RoundIsFresh, Readable, Pending
  <1>4. SubscriptionsMirror'
    BY DEF IInv, SubscriptionsMirror, At
  <1> QED BY <1>1, <1>2, <1>3, <1>4 DEF IInv, ListOK

(* accept() moves a connection from the backlog to a free descriptor.      *)
LEMMA AcceptKeeps ==
    ASSUME IInv, Accept
    PROVE  IInv'
  <1> USE DEF Accept, mapVars
  <1>1. PICK i \in Free : /\ clients' = Put(clients, i, Head(backlog))
                          /\ active' = active \cup {i}
    OBVIOUS
  <1>2. i \in Fd /\ i \notin DOMAIN clients /\ i # ListenFd
    BY ServerAssumption DEF Free
  <1>3. backlog # <<>> /\ backlog \in Seq(Conn)
    BY DEF IInv, TypeOK, RoundIsFresh, Turn, Readable
  <1>4. /\ Head(backlog) \in Conn /\ Head(backlog) = backlog[1]
        /\ Tail(backlog) \in Seq(Conn)
        /\ Len(Tail(backlog)) = Len(backlog) - 1
        /\ \A k \in 1 .. Len(Tail(backlog)) : Tail(backlog)[k] = backlog[k + 1]
        /\ 1 \in 1 .. Len(backlog)
    BY <1>3, HeadTailProperties, EmptySeq, Places
  <1>5. /\ IsMap(clients', Fd, Conn)
        /\ DOMAIN clients' = DOMAIN clients \cup {i}
        /\ clients'[i] = backlog[1]
        /\ \A j \in DOMAIN clients : clients'[j] = clients[j]
    <2>1. IsMap(clients, Fd, Conn)
      BY DEF IInv, TypeOK
    <2>2. IsMap(clients', Fd, Conn)
      BY <1>1, <1>2, <1>4, <2>1, PutMap
    <2>3. /\ DOMAIN clients' = DOMAIN clients \cup {i}
          /\ clients'[i] = Head(backlog)
          /\ \A j \in DOMAIN clients : j # i => clients'[j] = clients[j]
      BY <1>1 DEF Put
    <2> QED BY <1>2, <1>4, <2>2, <2>3
  <1>6. TypeOK'
    BY <1>1, <1>2, <1>4, <1>5 DEF IInv, TypeOK
  <1>7. OneOwner'
    <2>1. \A k \in 1 .. Len(backlog') : /\ k + 1 \in 1 .. Len(backlog)
                                        /\ backlog'[k] = backlog[k + 1]
                                        /\ k + 1 # 1
      BY <1>4, Places
    <2>2. \A j, l \in DOMAIN clients' : clients'[j] = clients'[l] => j = l
      BY <1>4, <1>5 DEF IInv, OneOwner
    <2>3. \A k, l \in 1 .. Len(backlog') : backlog'[k] = backlog'[l] => k = l
      <3> SUFFICES ASSUME NEW k \in 1 .. Len(backlog'), NEW l \in 1 .. Len(backlog'),
                          backlog'[k] = backlog'[l]
                   PROVE  k = l
        OBVIOUS
      <3>1. k + 1 = l + 1
        BY <2>1 DEF IInv, OneOwner
      <3> QED BY <3>1
    <2>4. \A k \in 1 .. Len(backlog') : \A j \in DOMAIN clients' : backlog'[k] # clients'[j]
      <3> SUFFICES ASSUME NEW k \in 1 .. Len(backlog'), NEW j \in DOMAIN clients'
                   PROVE  backlog[k + 1] # clients'[j]
        BY <2>1
      <3>1. CASE j = i
        BY <1>4, <1>5, <2>1, <3>1 DEF IInv, OneOwner
      <3>2. CASE j # i
        BY <1>5, <2>1, <3>2 DEF IInv, OneOwner
      <3> QED BY <3>1, <3>2
    <2>5. \A k \in 1 .. Len(backlog') : peer'[backlog'[k]] # "unused"
      BY <2>1 DEF IInv, OneOwner
    <2>6. \A j \in DOMAIN clients' : peer'[clients'[j]] # "unused"
      BY <1>4, <1>5 DEF IInv, OneOwner
    <2> QED BY <2>2, <2>3, <2>4, <2>5, <2>6 DEF OneOwner
  <1>8. RoundIsFresh'
    <2>1. active' = DOMAIN clients' \cup {ListenFd} /\ phase' = "dispatch"
      BY <1>1, <1>5 DEF IInv, RoundIsFresh, Turn
    <2>2. \A j \in ready' : j \in ready /\ j \in DOMAIN clients /\ j # ListenFd
      BY Connected
    <2>3. \A j \in ready' : Readable(j)'
      BY <1>5, <2>2 DEF IInv, RoundIsFresh, Readable, Pending
    <2> QED BY <2>1, <2>2, <2>3, <1>5 DEF RoundIsFresh
  <1>9. SubscriptionsMirror'
    BY <1>5 DEF IInv, SubscriptionsMirror, At
  <1> QED BY <1>6, <1>7, <1>8, <1>9 DEF IInv, ListOK

(* Closing forgets the descriptor in all of the maps at once.              *)
LEMMA CloseClientKeeps ==
    ASSUME IInv, NEW i \in Fd, CloseClient(i)
    PROVE  IInv'
  <1> USE DEF CloseClient, sockVars
  <1>1. /\ IsMap(clients', Fd, Conn)
        /\ DOMAIN clients' = DOMAIN clients \ {i}
        /\ \A j \in DOMAIN clients' : clients'[j] = clients[j]
    <2>1. IsMap(clients', Fd, Conn)
      BY EraseMap DEF IInv, TypeOK
    <2>2. clients' = Erase(clients, i)
      OBVIOUS
    <2>3. /\ DOMAIN Erase(clients, i) = DOMAIN clients \ {i}
          /\ \A j \in DOMAIN clients : j # i => Erase(clients, i)[j] = clients[j]
      BY EraseEffect, Zenon
    <2> QED BY ONLY <2>1, <2>2, <2>3
  <1>2. /\ IsMap(subtopics', Fd, SUBSET Names)
        /\ DOMAIN subtopics' = DOMAIN subtopics \ {i}
        /\ \A j : At(subtopics', j) = IF j = i THEN {} ELSE At(subtopics, j)
    <2>1. IsMap(subtopics', Fd, SUBSET Names)
      BY EraseMap DEF IInv, TypeOK
    <2>2. DOMAIN subtopics' = DOMAIN subtopics \ {i}
      BY EraseEffect
    <2> QED BY <2>1, <2>2, EraseAt
  <1>3. /\ DOMAIN subscribers' = DOMAIN subscribers
        /\ \A n \in DOMAIN subscribers :
              subscribers'[n] = IF n \in At(subtopics, i) THEN subscribers[n] \ {i}
                                                          ELSE subscribers[n]
    BY DEF Unsubscribed
  <1>4. IsMap(subscribers', Names, SUBSET Fd)
    <2>1. subscribers' \in [DOMAIN subscribers' -> SUBSET Fd]
      BY <1>3 DEF Unsubscribed, IInv, TypeOK, IsMap
    <2> QED BY <1>3, <2>1 DEF IInv, TypeOK, IsMap
  <1>5. TypeOK'
    BY <1>1, <1>2, <1>4 DEF IInv, TypeOK
  <1>6. OneOwner'
    BY <1>1 DEF IInv, OneOwner
  <1>7. RoundIsFresh'
    <2>1. active' = DOMAIN clients' \cup {ListenFd} /\ phase' = "dispatch"
      BY <1>1 DEF IInv, RoundIsFresh, Turn
    <2>2. \A j \in ready' : j \in active' /\ (j # ListenFd => j \in DOMAIN clients')
      BY <1>1, Connected DEF IInv, RoundIsFresh
    <2>3. \A j \in ready' : Readable(j)'
      BY <1>1, <2>2 DEF IInv, RoundIsFresh, Readable, Pending
    <2> QED BY <2>1, <2>2, <2>3 DEF RoundIsFresh
  <1>8. SubscriptionsMirror'
    <2>1. \A n : At(subscribers', n) = IF n \in At(subtopics, i)
                                         THEN At(subscribers, n) \ {i}
                                         ELSE At(subscribers, n)
      BY <1>3 DEF At
    <2>2. \A j \in Fd : \A n \in Names :
            j \in At(subscribers', n) <=> n \in At(subtopics', j)
      BY <1>2, <2>1 DEF IInv, SubscriptionsMirror
    <2> QED BY <1>1, <1>2, <2>2 DEF IInv, SubscriptionsMirror
  <1> QED BY <1>3, <1>5, <1>6, <1>7, <1>8 DEF IInv, ListOK

-----------------------------------------------------------------------------
(* The handlers of process().                                              *)

(* What all of them do to the sockets and to the round.                    *)
LEMMA ReceiveKeeps ==
    ASSUME IInv, NEW i \in Fd, NEW type, Receive(i, type)
    PROVE  /\ i \in DOMAIN clients /\ clients[i] \in Conn
           /\ Request(i) \in Requests /\ Request(i).type = type
           /\ handled' \in [Conn -> Nat]
           /\ OneOwner' /\ RoundIsFresh'
  <1> USE DEF Receive, sockVars, fdVars
  <1>1. i \in DOMAIN clients /\ clients[i] \in Conn
    BY Connected, Places DEF Turn
  <1>2. Request(i) \in Requests /\ handled' \in [Conn -> Nat]
    <2>1. handled[clients[i]] + 1 \in 1 .. Len(reqs[clients[i]])
      BY <1>1, LenProperties DEF IInv, TypeOK, Pending
    <2> QED BY <1>1, <2>1 DEF IInv, TypeOK, Request
  <1>3. OneOwner'
    BY DEF IInv, OneOwner
  <1>4. \A j \in ready' : Readable(j)'
    <2>1. \A d \in Conn : d # clients[i] => handled'[d] = handled[d]
      BY DEF IInv, TypeOK
    <2>2. \A j \in ready' : j # ListenFd => clients[j] # clients[i]
      BY <1>1, Connected DEF IInv, OneOwner
    <2> QED BY <2>1, <2>2, Places, Connected DEF IInv, RoundIsFresh, Readable, Pending
  <1>5. RoundIsFresh'
    BY <1>4 DEF IInv, RoundIsFresh
  <1> QED BY <1>1, <1>2, <1>3, <1>5

(* A handler that leaves the subscriptions as they are.                    *)
LEMMA HandlerKeeps ==
    ASSUME IInv, NEW i \in Fd, NEW type, Receive(i, type),
           NEW b, BrokerOK(b), ListOK(b.topics), Commit(b),
           \A n : At(b.subscribers, n) = At(subscribers, n),
           subtopics' = subtopics, serverKill' \in BOOLEAN
    PROVE  IInv'
  <1>1. MapsOK'
    BY CommitOK
  <1>2. handled' \in [Conn -> Nat] /\ OneOwner' /\ RoundIsFresh'
    BY ReceiveKeeps
  <1>3. TypeOK'
    BY <1>1, <1>2 DEF IInv, TypeOK, MapsOK, Receive, sockVars, fdVars
  <1>4. SubscriptionsMirror'
    BY DEF IInv, SubscriptionsMirror, Receive, fdVars, Commit, At
  <1>5. ListOK(topics)'
    BY DEF ListOK, Commit
  <1> QED BY <1>1, <1>2, <1>3, <1>4, <1>5 DEF IInv, MapsOK

(* process(), CS_PUBLISH, keeps the invariant.                             *)
LEMMA PublishKeeps ==
    ASSUME IInv, NEW i \in Fd, HandlePublish(i)
    PROVE  IInv'
  <1> DEFINE b == PublishTopic(Counted, Request(i).name, Request(i).data)
  <1>1. Receive(i, "CS_PUBLISH") /\ Commit(b) /\ UNCHANGED <<subtopics, serverKill>>
    BY DEF HandlePublish
  <1>2. Request(i).name \in PubNames /\ Request(i).data \in Payloads
    BY <1>1, ReceiveKeeps, RequestTypes
  <1>3. /\ BrokerOK(b) /\ SameSubscriptions(b, Counted) /\ ListOK(b.topics)
    BY <1>2, CountedOK, PublishTopicOK
  <1>4. \A n : At(b.subscribers, n) = At(subscribers, n)
    BY <1>3, CountedOK DEF SameSubscriptions
  <1> HIDE DEF b
  <1>5. serverKill' \in BOOLEAN
    BY <1>1 DEF IInv, TypeOK
  <1> QED BY <1>1, <1>3, <1>4, <1>5, HandlerKeeps

(* process(), CS_SUBSCRIBE, changes both indexes in the same way.          *)
LEMMA SubscribeKeeps ==
    ASSUME IInv, NEW i \in Fd, HandleSubscribe(i)
    PROVE  IInv'
  <1> DEFINE n == Request(i).name
             b == SubscribeTo(Counted, i, n)
             S == At(subtopics, i) \cup {n}
  <1>1. /\ Receive(i, "CS_SUBSCRIBE") /\ Commit(b)
        /\ subtopics' = Put(subtopics, i, S) /\ UNCHANGED serverKill
    BY DEF HandleSubscribe
  <1>2. n \in Names /\ i \in DOMAIN clients
    BY <1>1, ReceiveKeeps, RequestTypes, NamesAssumption
  <1> HIDE DEF n
  <1>3. /\ BrokerOK(b) /\ b.topics = Counted.topics
        /\ \A x : At(b.subscribers, x) = IF x = n THEN At(Counted.subscribers, n) \cup {i}
                                                  ELSE At(Counted.subscribers, x)
    BY <1>2, CountedOK, SubscribeToOK
  <1>4. \A x : At(b.subscribers, x) = IF x = n THEN At(subscribers, n) \cup {i}
                                               ELSE At(subscribers, x)
    BY <1>3, CountedOK
  <1> HIDE DEF b
  <1>5. MapsOK'
    BY <1>1, <1>3, CommitOK
  <1>6. handled' \in [Conn -> Nat] /\ OneOwner' /\ RoundIsFresh'
    BY <1>1, ReceiveKeeps
  <1>7. /\ IsMap(subtopics', Fd, SUBSET Names)
        /\ DOMAIN subtopics' = DOMAIN subtopics \cup {i}
        /\ \A x : At(subtopics', x) = IF x = i THEN S ELSE At(subtopics, x)
    <2>1. IsMap(subtopics, Fd, SUBSET Names)
      BY DEF IInv, TypeOK
    <2>2. S \in SUBSET Names
      BY <1>2, <2>1, AtType
    <2> HIDE DEF S
    <2>3. IsMap(subtopics', Fd, SUBSET Names)
      BY <1>1, <2>1, <2>2, PutMap
    <2> QED BY <1>1, <2>3 DEF Put, At
  <1>8. TypeOK'
    BY <1>1, <1>5, <1>6, <1>7 DEF IInv, TypeOK, MapsOK, Receive, sockVars, fdVars
  <1>9. SubscriptionsMirror'
    <2>1. \A x : At(subscribers', x) = IF x = n THEN At(subscribers, n) \cup {i}
                                              ELSE At(subscribers, x)
      BY <1>1, <1>4 DEF Commit
    <2>2. clients' = clients
      BY <1>1 DEF Receive, fdVars
    <2> QED BY <1>2, <1>7, <2>1, <2>2 DEF IInv, SubscriptionsMirror
  <1>10. ListOK(topics)'
    BY <1>1, <1>3, CountedOK DEF Commit, ListOK
  <1> QED BY <1>5, <1>6, <1>8, <1>9, <1>10 DEF IInv, MapsOK

(* process(), CS_KILLSERVER, keeps the invariant.                          *)
LEMMA KillServerKeeps ==
    ASSUME IInv, NEW i \in Fd, HandleKillServer(i)
    PROVE  IInv'
  BY CountedOK, HandlerKeeps DEF HandleKillServer

(* process(), CS_CLEARSERVER, deletes list and statistics together.        *)
LEMMA ClearServerKeeps ==
    ASSUME IInv, NEW i \in Fd, HandleClearServer(i)
    PROVE  IInv'
  <1> DEFINE b == [Counted EXCEPT !.topics = EmptyMap]
  <1>1. BrokerOK(b) /\ ListOK(b.topics) /\ b.subscribers = Counted.subscribers
    <2>1. IsMap(EmptyMap, Names, Data) /\ DOMAIN EmptyMap = {}
      BY EmptyMapOK
    <2>2. BrokerOK(Counted)
      BY CountedOK
    <2> QED BY <2>1, <2>2 DEF BrokerOK, ListOK
  <1>2. /\ Receive(i, "CS_CLEARSERVER") /\ Commit(b)
        /\ UNCHANGED <<subtopics, serverKill>>
    BY DEF HandleClearServer
  <1> HIDE DEF b
  <1>3. \A n : At(b.subscribers, n) = At(subscribers, n)
    BY <1>1, CountedOK
  <1>4. serverKill' \in BOOLEAN
    BY <1>2 DEF IInv, TypeOK
  <1> QED BY <1>1, <1>2, <1>3, <1>4, HandlerKeeps

-----------------------------------------------------------------------------
(* The end of a round, and of the broker.                                  *)

(* shutdown() changes what was sent, and the count of it.                  *)
LEMMA ShutdownOK ==
    ASSUME IInv, Shutdown
    PROVE  MapsOK' /\ subscribers' = subscribers /\ topics' = topics
  <1> DEFINE b == BaseSend(Broker, DOMAIN clients, KillClient)
  <1>1. DOMAIN clients \in SUBSET Fd
    BY Places
  <1>2. BrokerOK(b) /\ b.subscribers = Broker.subscribers /\ b.topics = Broker.topics
    BY <1>1, BrokerTyped, BaseSendOK, NoticeTypes
  <1>3. Commit(b)
    BY DEF Shutdown
  <1> HIDE DEF b
  <1>4. b.subscribers = subscribers /\ b.topics = topics
    BY <1>2 DEF Broker
  <1> QED BY <1>2, <1>3, <1>4, CommitOK DEF Commit

(* shutdown(), by request or signal, keeps the invariant.                  *)
LEMMA ShutdownKeeps ==
    ASSUME IInv, Shutdown, phase # "stopped", phase' = "sleep",
           signals' \subseteq {"SIGINT", "SIGQUIT"},
           UNCHANGED <<sockVars, handled, fdVars, ready, subtopics, serverKill>>
    PROVE  IInv'
  <1> USE DEF sockVars, fdVars
  <1>1. MapsOK' /\ subscribers' = subscribers /\ topics' = topics
    BY ShutdownOK
  <1>2. TypeOK'
    BY <1>1 DEF IInv, TypeOK, MapsOK
  <1>3. OneOwner'
    BY DEF IInv, OneOwner
  <1>4. RoundIsFresh'
    BY DEF IInv, RoundIsFresh, Readable, Pending
  <1>5. SubscriptionsMirror'
    BY <1>1 DEF IInv, SubscriptionsMirror, At
  <1>6. ListOK(topics)'
    BY <1>1 DEF IInv, ListOK
  <1> QED BY <1>1, <1>2, <1>3, <1>4, <1>5, <1>6 DEF IInv

(* The end of a round, with and without a kill, keeps the invariant.       *)
LEMMA NextRoundKeeps ==
    ASSUME IInv, NextRound
    PROVE  IInv'
  <1> USE DEF NextRound, sockVars, mapVars, fdVars
  <1>1. TypeOK'
    BY DEF IInv, TypeOK
  <1>2. OneOwner'
    BY DEF IInv, OneOwner
  <1>3. RoundIsFresh'
    BY DEF IInv, RoundIsFresh
  <1>4. SubscriptionsMirror'
    BY DEF IInv, SubscriptionsMirror, At
  <1> QED BY <1>1, <1>2, <1>3, <1>4 DEF IInv, ListOK

(* The end of the broker leaves nothing behind.                            *)
LEMMA GoneKeeps ==
    ASSUME IInv, Gone
    PROVE  IInv'
  <1> USE DEF Gone
  <1>1. /\ IsMap(EmptyMap, Fd, Conn) /\ IsMap(EmptyMap, Fd, SUBSET Names)
        /\ IsMap(EmptyMap, Names, SUBSET Fd) /\ IsMap(EmptyMap, Names, Data)
        /\ DOMAIN EmptyMap = {} /\ \A x : At(EmptyMap, x) = {}
    BY EmptyMapOK
  <1>2. TypeOK'
    BY <1>1, EmptySeq DEF IInv, TypeOK
  <1>3. OneOwner'
    BY <1>1, EmptySeq DEF OneOwner
  <1>4. RoundIsFresh'
    BY <1>1 DEF RoundIsFresh
  <1>5. SubscriptionsMirror'
    BY <1>1 DEF SubscriptionsMirror
  <1> QED BY <1>1, <1>2, <1>3, <1>4, <1>5, FS_EmptySet DEF IInv, ListOK

(* Every step keeps the invariant.                                         *)
LEMMA NextKeeps == IInv /\ [Next]_vars => IInv'
  <1> SUFFICES ASSUME IInv, [Next]_vars PROVE IInv'
    OBVIOUS
  <1>1. CASE UNCHANGED vars
    BY <1>1, StutterKeeps
  <1>2. ASSUME NEW c \in Conn,
               \/ ClientConnect(c) \/ ClientClose(c) \/ ClientReset(c)
               \/ \E m \in Requests : ClientSend(c, m)
        PROVE  IInv'
    BY <1>2, ConnectKeeps, SendKeeps, CloseKeeps, ResetKeeps
  <1>3. ASSUME NEW i \in Fd, Serve(i)
        PROVE  IInv'
    BY <1>3, PublishKeeps, SubscribeKeeps, KillServerKeeps, ClearServerKeeps,
       CloseClientKeeps DEF Serve
  <1>4. ASSUME NEW s \in Signals, Signal(s)
        PROVE  IInv'
    <2>1. signals' \subseteq {"SIGINT", "SIGQUIT"}
      BY <1>4, ServerAssumption DEF Signal, IInv, TypeOK
    <2> QED BY <1>4, <2>1, ShutdownKeeps DEF Signal
  <1>5. CASE Select
    BY <1>5, SelectKeeps
  <1>6. CASE Accept
    BY <1>6, AcceptKeeps
  <1>7. CASE NextRound
    BY <1>7, NextRoundKeeps
  <1>8. CASE KillRequested
    <2>1. signals' \subseteq {"SIGINT", "SIGQUIT"}
      BY <1>8 DEF KillRequested, IInv, TypeOK
    <2> QED BY <1>8, <2>1, ShutdownKeeps DEF KillRequested
  <1>9. CASE Exit \/ AcceptFails
    BY <1>9, GoneKeeps DEF Exit, AcceptFails
  <1> QED
    BY <1>1, <1>2, <1>3, <1>4, <1>5, <1>6, <1>7, <1>8, <1>9 DEF Next, ServerStep

-----------------------------------------------------------------------------
(* Theorems.                                                               *)

(* The inductive invariant holds in every state of the broker, with any    *)
(* number of connections, descriptors, topics and requests.                *)
THEOREM Invariance == Spec => []IInv
  <1>1. Init => IInv
    BY InitOK
  <1>2. IInv /\ [Next]_vars => IInv'
    BY NextKeeps
  <1> QED BY <1>1, <1>2, PTL DEF Spec

(* Every variable of the broker keeps its type: what process() does to its *)
(* maps keeps descriptors, names and data where they belong, and accept()  *)
(* always has a connection to take.                                        *)
THEOREM TypeCorrect == Spec => []TypeOK
  <1>1. IInv => TypeOK
    BY DEF IInv
  <1> QED BY <1>1, Invariance, PTL

(* TCPServer::update() never serves a descriptor that is not connected or  *)
(* has nothing to read, whatever the round has closed and accepted before. *)
THEOREM RoundsAreFresh == Spec => []RoundIsFresh
  <1>1. IInv => RoundIsFresh
    BY DEF IInv
  <1> QED BY <1>1, Invariance, PTL

(* subscribers and subtopics stay each other's inverse, and forget a       *)
(* descriptor before it can be used again.                                 *)
THEOREM SubscriptionsMirrored == Spec => []SubscriptionsMirror
  <1>1. IInv => SubscriptionsMirror
    BY DEF IInv
  <1> QED BY <1>1, Invariance, PTL

(* Unless a client has put data of its own in its place, the topic list    *)
(* names every topic the broker holds.                                     *)
THEOREM TopicListAlwaysComplete == Spec => []TopicListComplete
  <1>1. IInv => TopicListComplete
    BY DEF IInv, ListOK, TopicListComplete
  <1> QED BY <1>1, Invariance, PTL

-----------------------------------------------------------------------------
(* Histories of notices.                                                   *)

(* One more message is the last one, and the others stay where they are.   *)
LEMMA Appended ==
    ASSUME NEW S, NEW s \in Seq(S), NEW m \in S
    PROVE  /\ Append(s, m) \in Seq(S)
           /\ Len(s) \in Nat /\ Len(Append(s, m)) = Len(s) + 1
           /\ \A k \in 1 .. Len(s) : Append(s, m)[k] = s[k]
           /\ Append(s, m)[Len(s) + 1] = m
  BY AppendProperties, LenProperties

(* A notification is the latest on its topic from then on.                 *)
LEMMA LatestSent ==
    ASSUME NEW s \in Seq(Notices), NEW n \in Names, NEW d \in Data
    PROVE  LatestIs(Append(s, Notify(n, d)), n, d)
  <1> DEFINE m == Notify(n, d)
             t == Append(s, m)
             k == Len(s) + 1
  <1>1. m \in Notices
    BY NoticeTypes
  <1>2. m.type = "SC_NOTIFY" /\ m.name = n /\ m.data = d
    BY DEF Notify
  <1> HIDE DEF m
  <1>3. Len(s) \in Nat /\ Len(t) = Len(s) + 1 /\ t[Len(s) + 1] = m
    BY <1>1, Appended
  <1> HIDE DEF t
  <1>4. k \in 1 .. Len(t) /\ k + 1 .. Len(t) = {}
    BY <1>3
  <1>5. LatestIs(t, n, d)
    BY <1>2, <1>3, <1>4 DEF LatestIs
  <1> QED BY <1>5 DEF t, m

(* A message about something else leaves the latest where it is.           *)
LEMMA LatestStays ==
    ASSUME NEW s \in Seq(Notices), NEW n, NEW d, NEW m \in Notices,
           m.type = "SC_NOTIFY" => m.name # n,
           LatestIs(s, n, d)
    PROVE  LatestIs(Append(s, m), n, d)
  <1> DEFINE t == Append(s, m)
  <1>1. PICK k \in 1 .. Len(s) :
           /\ s[k].type = "SC_NOTIFY" /\ s[k].name = n /\ s[k].data = d
           /\ \A l \in k + 1 .. Len(s) : s[l].type = "SC_NOTIFY" => s[l].name # n
    BY DEF LatestIs
  <1>2. /\ Len(s) \in Nat /\ Len(t) = Len(s) + 1
        /\ \A j \in 1 .. Len(s) : t[j] = s[j]
        /\ t[Len(s) + 1] = m
    BY Appended
  <1> HIDE DEF t
  <1>3. k \in 1 .. Len(t) /\ t[k] = s[k]
    BY <1>2
  <1>4. ASSUME NEW l \in k + 1 .. Len(t)
        PROVE  t[l].type = "SC_NOTIFY" => t[l].name # n
    <2>1. CASE l = Len(s) + 1
      BY <1>2, <2>1
    <2>2. CASE l # Len(s) + 1
      <3>1. l \in k + 1 .. Len(s) /\ l \in 1 .. Len(s)
        BY <1>2, <2>2
      <3> QED BY <1>1, <1>2, <3>1
    <2> QED BY <2>1, <2>2
  <1> QED BY <1>1, <1>3, <1>4 DEF LatestIs, t

-----------------------------------------------------------------------------
(* What the calls of process() send.                                       *)

(* basesend() writes one message to each descriptor whose far end listens. *)
LEMMA BaseSendSent ==
    ASSUME NEW b, BrokerOK(b), NEW F, NEW m
    PROVE  \A c \in Conn : BaseSend(b, F, m).sent[c] =
                              IF c \in Listening(F) THEN Append(b.sent[c], m)
                                                    ELSE b.sent[c]
  <1> DEFINE s == [c \in Conn |-> IF c \in Listening(F) THEN Append(b.sent[c], m)
                                                        ELSE b.sent[c]]
  <1>1. BaseSend(b, F, m) = [b EXCEPT !.sent = s, !.msgssent = @ + Cardinality(F)]
    BY DEF BaseSend
  <1>2. b = [subscribers |-> b.subscribers, topics |-> b.topics,
             sent |-> b.sent, msgssent |-> b.msgssent, msgsrecvd |-> b.msgsrecvd]
    BY DEF BrokerOK
  <1>3. \A c \in Conn : s[c] = IF c \in Listening(F) THEN Append(b.sent[c], m)
                                                     ELSE b.sent[c]
    OBVIOUS
  <1> HIDE DEF s
  <1>4. BaseSend(b, F, m).sent = s
    BY <1>1, <1>2
  <1> QED BY <1>3, <1>4

(* publish() and publishInternal() store, and send what they have stored   *)
(* to the subscribers of the topic.                                        *)
LEMMA StoredAndSent ==
    ASSUME NEW b, BrokerOK(b), NEW n \in Names, NEW d \in Data
    PROVE  LET a == SendToSubscribers(Store(b, n, d), n)
           IN  /\ BrokerOK(a) /\ SameSubscriptions(a, b)
               /\ a.topics = Put(b.topics, n, d)
               /\ \A c \in Conn : a.sent[c] =
                     IF c \in Listening(At(b.subscribers, n))
                       THEN Append(b.sent[c], Notify(n, d))
                       ELSE b.sent[c]
  <1> DEFINE a == Store(b, n, d)
             F == At(b.subscribers, n)
             p == Put(b.subscribers, n, F)
             m == Notify(n, d)
             r == [subscribers |-> p, topics |-> a.topics, sent |-> b.sent,
                   msgssent |-> b.msgssent, msgsrecvd |-> b.msgsrecvd]
  <1>1. /\ BrokerOK(a)
        /\ a.subscribers = b.subscribers
        /\ a.topics = Put(b.topics, n, d)
        /\ DOMAIN a.topics = DOMAIN b.topics \cup {n}
        /\ a.msgssent = b.msgssent
        /\ a.msgsrecvd = b.msgsrecvd
    BY StoreOK
  <1>2. a.topics[n] = d
    BY <1>1 DEF Put
  <1>3. a.sent = b.sent
    <2>1. b = [subscribers |-> b.subscribers, topics |-> b.topics,
               sent |-> b.sent, msgssent |-> b.msgssent, msgsrecvd |-> b.msgsrecvd]
      BY DEF BrokerOK
    <2> QED BY <2>1 DEF Store
  <1> HIDE DEF a
  <1>4. [a EXCEPT !.subscribers = Put(@, n, F)] = r
    BY <1>1, <1>3 DEF BrokerOK
  <1>5. SendToSubscribers(a, n) = BaseSend(r, F, m)
    BY <1>1, <1>2, <1>4 DEF SendToSubscribers
  <1>6. BrokerOK(r)
    <2>1. IsMap(b.subscribers, Names, SUBSET Fd) /\ IsFiniteSet(DOMAIN b.subscribers)
      BY DEF BrokerOK
    <2>2. F \in SUBSET Fd
      BY <2>1, AtType
    <2> HIDE DEF F
    <2>3. IsMap(p, Names, SUBSET Fd) /\ DOMAIN p = DOMAIN b.subscribers \cup {n}
      BY <2>1, <2>2, PutMap, PutEffect
    <2>4. IsFiniteSet(DOMAIN p)
      BY <2>1, <2>3, FS_AddElement
    <2> HIDE DEF p
    <2> QED BY <1>1, <1>3, <2>3, <2>4 DEF BrokerOK
  <1>7. \A c \in Conn : BaseSend(r, F, m).sent[c] =
                           IF c \in Listening(F) THEN Append(r.sent[c], m)
                                                 ELSE r.sent[c]
    BY <1>6, BaseSendSent
  <1>8. r.sent = b.sent
    OBVIOUS
  <1>9. /\ BrokerOK(SendToSubscribers(a, n))
        /\ SameSubscriptions(SendToSubscribers(a, n), a)
        /\ SendToSubscribers(a, n).topics = a.topics
    BY <1>1, SendToSubscribersOK
  <1> HIDE DEF F, m, r
  <1>10. /\ SameSubscriptions(SendToSubscribers(a, n), b)
         /\ \A c \in Conn : SendToSubscribers(a, n).sent[c] =
               IF c \in Listening(F) THEN Append(b.sent[c], m) ELSE b.sent[c]
    BY <1>1, <1>5, <1>7, <1>8, <1>9 DEF SameSubscriptions
  <1> QED BY <1>1, <1>9, <1>10 DEF a, F, m

(* rebuildTopicsTopic() and rebuildStatsTopic() are such a store and send. *)
LEMMA RebuildsAreStores ==
    ASSUME NEW b, BrokerOK(b)
    PROVE  /\ "topics" \in Names /\ "stats" \in Names
           /\ \E d \in Data : RebuildTopicsTopic(b) = SendToSubscribers(Store(b, "topics", d), "topics")
           /\ \E d \in Data : RebuildStatsTopic(b) = SendToSubscribers(Store(b, "stats", d), "stats")
  <1>1. "topics" \in Names /\ "stats" \in Names
    BY NamesAssumption
  <1>2. TopicList(DOMAIN b.topics \cup {"topics"}) \in Data
    BY <1>1, DataTypes DEF BrokerOK, IsMap
  <1>3. Stats(Cardinality(DOMAIN b.subscribers), b.msgssent, b.msgsrecvd) \in Data
    <2>1. Cardinality(DOMAIN b.subscribers) \in Nat
      BY FS_CardinalityType DEF BrokerOK
    <2> QED BY <2>1, DataTypes DEF BrokerOK
  <1> QED BY <1>1, <1>2, <1>3 DEF RebuildTopicsTopic, RebuildStatsTopic

(* subscribe() adds a descriptor to a topic, and sends it what is stored.  *)
LEMMA SubscribedAndSent ==
    ASSUME NEW b, BrokerOK(b), NEW i \in Fd, NEW n \in Names
    PROVE  /\ n \in DOMAIN b.topics => b.topics[n] \in Data
           /\ \A c \in Conn : SubscribeTo(b, i, n).sent[c] =
                 IF n \in DOMAIN b.topics /\ c \in Listening({i})
                   THEN Append(b.sent[c], Notify(n, b.topics[n]))
                   ELSE b.sent[c]
  <1> DEFINE F == At(b.subscribers, n) \cup {i}
             p == Put(b.subscribers, n, F)
             r == [subscribers |-> p, topics |-> b.topics, sent |-> b.sent,
                   msgssent |-> b.msgssent, msgsrecvd |-> b.msgsrecvd]
             m == Notify(n, b.topics[n])
  <1>1. IsMap(b.subscribers, Names, SUBSET Fd) /\ IsFiniteSet(DOMAIN b.subscribers)
    BY DEF BrokerOK
  <1>2. F \in SUBSET Fd
    BY <1>1, AtType
  <1>3. IsMap(p, Names, SUBSET Fd) /\ DOMAIN p = DOMAIN b.subscribers \cup {n}
    BY <1>1, <1>2, PutMap, PutEffect
  <1>4. IsFiniteSet(DOMAIN p)
    BY <1>1, <1>3, FS_AddElement
  <1>5. [b EXCEPT !.subscribers = Put(@, n, At(@, n) \cup {i})] = r
    BY DEF BrokerOK
  <1>6. SubscribeTo(b, i, n) = IF n \in DOMAIN b.topics THEN BaseSend(r, {i}, m) ELSE r
    BY <1>5 DEF SubscribeTo
  <1> HIDE DEF p, m
  <1>7. BrokerOK(r)
    BY <1>3, <1>4 DEF BrokerOK
  <1>8. \A c \in Conn : BaseSend(r, {i}, m).sent[c] =
                           IF c \in Listening({i}) THEN Append(r.sent[c], m) ELSE r.sent[c]
    BY <1>7, BaseSendSent
  <1>9. r.sent = b.sent
    OBVIOUS
  <1> HIDE DEF r
  <1>10. n \in DOMAIN b.topics => b.topics[n] \in Data
    BY DEF BrokerOK, IsMap
  <1> QED BY <1>6, <1>8, <1>9, <1>10 DEF m

-----------------------------------------------------------------------------
(* What process() keeps true of the record that it works on, when A[c] is  *)
(* what c has asked for: a client is sent notifications on A[c] alone,     *)
(* its descriptor is found under no other topic, and where it is found it  *)
(* has been sent what is stored.                                           *)

SentAsked(b, A) ==
    \A c \in Conn : \A k \in 1 .. Len(b.sent[c]) :
        b.sent[c][k].type = "SC_NOTIFY" /\ b.sent[c][k].name \in A[c]

MayHear(b, A) ==
    \A n \in Names : \A i \in At(b.subscribers, n) \cap DOMAIN clients : n \in A[clients[i]]

UpToDate(b) ==
    \A n \in DOMAIN b.topics : \A i \in At(b.subscribers, n) \cap DOMAIN clients :
        peer[clients[i]] = "open" => LatestIs(b.sent[clients[i]], n, b.topics[n])

StreamOK(b, A) == SentAsked(b, A) /\ MayHear(b, A) /\ UpToDate(b)

(* One more notification to those who have asked for it.                   *)
LEMMA SentAskedKept ==
    ASSUME NEW a, NEW b, BrokerOK(b), NEW A, SentAsked(b, A),
           NEW n \in Names, NEW d \in Data, NEW S,
           \A c \in Conn \cap S : n \in A[c],
           \A c \in Conn : a.sent[c] = IF c \in S THEN Append(b.sent[c], Notify(n, d))
                                                  ELSE b.sent[c]
    PROVE  SentAsked(a, A)
  <1> DEFINE m == Notify(n, d)
  <1>1. m \in Notices
    BY NoticeTypes
  <1>2. m.type = "SC_NOTIFY" /\ m.name = n
    BY DEF Notify
  <1> SUFFICES ASSUME NEW c \in Conn, NEW k \in 1 .. Len(a.sent[c])
               PROVE  a.sent[c][k].type = "SC_NOTIFY" /\ a.sent[c][k].name \in A[c]
    BY DEF SentAsked
  <1>3. CASE c \notin S
    BY <1>3 DEF SentAsked
  <1>4. CASE c \in S
    <2> DEFINE s == b.sent[c]
    <2>1. s \in Seq(Notices) /\ a.sent[c] = Append(s, m)
      BY <1>4 DEF BrokerOK
    <2>2. \A j \in 1 .. Len(s) : s[j].type = "SC_NOTIFY" /\ s[j].name \in A[c]
      BY DEF SentAsked
    <2> HIDE DEF s, m
    <2>3. /\ Len(s) \in Nat /\ Len(a.sent[c]) = Len(s) + 1
          /\ \A j \in 1 .. Len(s) : a.sent[c][j] = s[j]
          /\ a.sent[c][Len(s) + 1] = m
      BY <1>1, <2>1, Appended
    <2>4. k \in 1 .. Len(s) \/ k = Len(s) + 1
      BY <2>3
    <2> QED BY <1>2, <1>4, <2>2, <2>3, <2>4
  <1> QED BY <1>3, <1>4

(* A notification reaches whoever is found under its topic and listens.    *)
LEMMA Reached ==
    ASSUME IInv, NEW F
    PROVE  /\ \A c \in Listening(F) : \E i \in F \cap DOMAIN clients : c = clients[i]
           /\ \A i \in F \cap DOMAIN clients :
                 /\ clients[i] \in Conn
                 /\ peer[clients[i]] = "open" <=> clients[i] \in Listening(F)
  <1>1. \A i \in DOMAIN clients : clients[i] \in Conn
    BY Places
  <1> QED BY <1>1 DEF Listening

(* Storing and sending keeps what is promised, for every topic.            *)
LEMMA StoreStream ==
    ASSUME IInv, NEW b, BrokerOK(b), NEW A, StreamOK(b, A), NEW n \in Names, NEW d \in Data
    PROVE  StreamOK(SendToSubscribers(Store(b, n, d), n), A)
  <1> DEFINE a == SendToSubscribers(Store(b, n, d), n)
             S == Listening(At(b.subscribers, n))
  <1>1. /\ BrokerOK(a) /\ SameSubscriptions(a, b)
        /\ a.topics = Put(b.topics, n, d)
        /\ \A c \in Conn : a.sent[c] = IF c \in S THEN Append(b.sent[c], Notify(n, d))
                                                  ELSE b.sent[c]
    BY StoredAndSent
  <1> HIDE DEF a
  <1>2. MayHear(a, A)
    BY <1>1 DEF StreamOK, MayHear, SameSubscriptions
  <1>3. SentAsked(a, A)
    <2>1. \A c \in Conn \cap S : n \in A[c]
      BY Reached DEF StreamOK, MayHear
    <2> HIDE DEF S
    <2> QED BY <1>1, <2>1, SentAskedKept DEF StreamOK
  <1>4. UpToDate(a)
    <2> SUFFICES ASSUME NEW x \in DOMAIN a.topics,
                        NEW i \in At(a.subscribers, x) \cap DOMAIN clients,
                        peer[clients[i]] = "open"
                 PROVE  LatestIs(a.sent[clients[i]], x, a.topics[x])
      BY DEF UpToDate
    <2> DEFINE c == clients[i]
    <2>1. i \in At(b.subscribers, x) /\ c \in Conn /\ b.sent[c] \in Seq(Notices)
      BY <1>1, Places DEF SameSubscriptions, BrokerOK
    <2>2. CASE x = n
      <3>1. c \in S
        BY <2>1, <2>2, Reached
      <3>2. a.topics[x] = d
        BY <1>1, <2>2 DEF Put
      <3> HIDE DEF S
      <3> QED BY <1>1, <2>1, <2>2, <3>1, <3>2, LatestSent
    <2>3. CASE x # n
      <3>1. x \in DOMAIN b.topics /\ a.topics[x] = b.topics[x]
        BY <1>1, <2>3 DEF Put
      <3>2. LatestIs(b.sent[c], x, b.topics[x])
        BY <2>1, <3>1 DEF StreamOK, UpToDate
      <3>3. Notify(n, d) \in Notices /\ Notify(n, d).name # x
        BY <2>3, NoticeTypes DEF Notify
      <3>4. LatestIs(Append(b.sent[c], Notify(n, d)), x, b.topics[x])
        BY <2>1, <3>2, <3>3, LatestStays
      <3> HIDE DEF S
      <3> QED BY <1>1, <2>1, <3>1, <3>2, <3>4
    <2> QED BY <2>2, <2>3
  <1> QED BY <1>2, <1>3, <1>4 DEF StreamOK, a

(* The broker's own topics are sent under the same promises.               *)
LEMMA RebuildStream ==
    ASSUME IInv, NEW b, BrokerOK(b), NEW A, StreamOK(b, A)
    PROVE  StreamOK(RebuildTopicsTopic(b), A) /\ StreamOK(RebuildStatsTopic(b), A)
  BY RebuildsAreStores, StoreStream

(* So is a publication, with the new list that a new topic brings.         *)
LEMMA PublishStream ==
    ASSUME IInv, NEW b, BrokerOK(b), NEW A, StreamOK(b, A),
           NEW n \in PubNames, NEW d \in Payloads
    PROVE  StreamOK(PublishTopic(b, n, d), A)
  <1> DEFINE p == SendToSubscribers(Store(b, n, d), n)
  <1>1. n \in Names /\ d \in Data
    BY NamesAssumption DEF Data
  <1>2. BrokerOK(p)
    BY <1>1, StoredAndSent
  <1>3. StreamOK(p, A)
    BY <1>1, StoreStream
  <1>4. PublishTopic(b, n, d) = IF n \in DOMAIN b.topics THEN p ELSE RebuildTopicsTopic(p)
    BY DEF PublishTopic
  <1> HIDE DEF p
  <1> QED BY <1>2, <1>3, <1>4, RebuildStream

(* A new subscription is one that has been asked for, and what is stored   *)
(* is sent with it.                                                        *)
LEMMA SubscribeStream ==
    ASSUME IInv, NEW b, BrokerOK(b), NEW A, StreamOK(b, A),
           NEW i \in Fd, NEW n \in Names, i \in DOMAIN clients => n \in A[clients[i]]
    PROVE  StreamOK(SubscribeTo(b, i, n), A)
  <1> DEFINE a == SubscribeTo(b, i, n)
             S == IF n \in DOMAIN b.topics THEN Listening({i}) ELSE {}
             d == b.topics[n]
  <1>1. /\ a.topics = b.topics
        /\ \A x : At(a.subscribers, x) = IF x = n THEN At(b.subscribers, n) \cup {i}
                                                  ELSE At(b.subscribers, x)
    BY SubscribeToOK
  <1>2. /\ n \in DOMAIN b.topics => d \in Data
        /\ \A c \in Conn : a.sent[c] = IF c \in S THEN Append(b.sent[c], Notify(n, d))
                                                  ELSE b.sent[c]
    BY SubscribedAndSent
  <1> HIDE DEF a
  <1>3. MayHear(a, A)
    BY <1>1 DEF StreamOK, MayHear
  <1>4. SentAsked(a, A)
    <2>1. \A c \in Conn \cap S : n \in A[c]
      BY Reached
    <2>2. CASE n \in DOMAIN b.topics
      <3> HIDE DEF S, d
      <3> QED BY <1>2, <2>1, <2>2, SentAskedKept DEF StreamOK
    <2>3. CASE n \notin DOMAIN b.topics
      BY <1>2, <2>3 DEF StreamOK, SentAsked
    <2> QED BY <2>2, <2>3
  <1>5. UpToDate(a)
    <2> SUFFICES ASSUME NEW x \in DOMAIN b.topics,
                        NEW j \in At(a.subscribers, x) \cap DOMAIN clients,
                        peer[clients[j]] = "open"
                 PROVE  LatestIs(a.sent[clients[j]], x, b.topics[x])
      BY <1>1 DEF UpToDate
    <2> DEFINE c == clients[j]
    <2>1. c \in Conn /\ b.sent[c] \in Seq(Notices)
      BY Places DEF BrokerOK
    <2>2. CASE x = n /\ c \in S
      <3> HIDE DEF S
      <3> QED BY <1>2, <2>1, <2>2, LatestSent
    <2>3. CASE x # n \/ c \notin S
      <3>1. x = n => j # i
        BY <2>1, <2>3, Reached
      <3>2. j \in At(b.subscribers, x)
        BY <1>1, <3>1
      <3>3. LatestIs(b.sent[c], x, b.topics[x])
        BY <3>2 DEF StreamOK, UpToDate
      <3>4. CASE c \in S
        <4>1. d \in Data /\ x # n
          BY <1>2, <2>3, <3>4
        <4>2. Notify(n, d) \in Notices /\ Notify(n, d).name # x
          BY <4>1, NoticeTypes DEF Notify
        <4>3. LatestIs(Append(b.sent[c], Notify(n, d)), x, b.topics[x])
          BY <2>1, <3>3, <4>2, LatestStays
        <4> HIDE DEF S
        <4> QED BY <1>2, <2>1, <3>4, <4>3
      <3>5. CASE c \notin S
        BY <1>2, <2>1, <3>3, <3>5
      <3> QED BY <3>4, <3>5
    <2> QED BY <2>2, <2>3
  <1> QED BY <1>3, <1>4, <1>5 DEF StreamOK, a

-----------------------------------------------------------------------------
(* The requests that have been read.                                       *)

(* A request that is read adds what it subscribes to, for its own client.  *)
LEMMA AskedAfter ==
    ASSUME StreamInv, NEW i \in Fd, NEW type, Receive(i, type)
    PROVE  /\ \A c \in Conn : c # clients[i] => Asked(c)' = Asked(c)
           /\ Asked(clients[i])' =
                 Asked(clients[i]) \cup (IF type = "CS_SUBSCRIBE" THEN {Request(i).name} ELSE {})
  <1> DEFINE c == clients[i]
             h == handled[c]
             m == Request(i)
  <1> USE DEF Receive, sockVars, fdVars
  <1>1. IInv /\ TypeOK
    BY DEF StreamInv, IInv
  <1>2. i \in DOMAIN clients /\ c \in Conn /\ m \in Requests /\ m.type = type
    BY <1>1, ReceiveKeeps
  <1>3. /\ reqs' = reqs /\ \A d \in Conn : d # c => handled'[d] = handled[d]
        /\ h \in Nat /\ handled'[c] = h + 1
    BY <1>1, <1>2 DEF TypeOK
  <1>4. m = reqs[c][h + 1]
    BY DEF Request
  <1>5. type = "CS_SUBSCRIBE" => m.name \in SubNames /\ m = Subscribe(m.name)
    <2>1. CASE \E n \in SubNames : m = Subscribe(n)
      BY <2>1 DEF Subscribe
    <2>2. CASE m \notin {Subscribe(n) : n \in SubNames}
      BY <1>2, <2>2 DEF Requests, Publish, KillServer, ClearServer
    <2> QED BY <2>1, <2>2
  <1>6. \A n : m = Subscribe(n) => type = "CS_SUBSCRIBE" /\ m.name = n
    BY <1>2 DEF Subscribe
  <1>7. \A d \in Conn : d # c => Asked(d)' = Asked(d)
    BY <1>3 DEF Asked
  <1> HIDE DEF m
  <1>8. Asked(c)' = {n \in SubNames : \E k \in 1 .. h + 1 : reqs[c][k] = Subscribe(n)}
    BY <1>3 DEF Asked
  <1>9. \A k : k \in 1 .. h + 1 <=> k \in 1 .. h \/ k = h + 1
    BY <1>3
  <1>10. \A n \in SubNames : n \in Asked(c)' <=> n \in Asked(c) \/ m = Subscribe(n)
    BY <1>4, <1>8, <1>9 DEF Asked
  <1>11. Asked(c) \subseteq SubNames /\ Asked(c)' \subseteq SubNames
    BY DEF Asked
  <1>12. Asked(c)' = Asked(c) \cup (IF type = "CS_SUBSCRIBE" THEN {m.name} ELSE {})
    BY <1>5, <1>6, <1>10, <1>11
  <1> QED BY <1>7, <1>12 DEF m

(* What is not read any further stays what it was.                         *)
LEMMA AskedStays ==
    ASSUME handled' = handled, NEW c \in Conn,
           \A k \in 1 .. handled[c] : reqs'[c][k] = reqs[c][k]
    PROVE  Asked(c)' = Asked(c)
  BY DEF Asked

-----------------------------------------------------------------------------
(* Every step keeps the promises: first the steps that send nothing.       *)

(* A step that sends nothing and connects no descriptor, or one whose      *)
(* owner has asked for nothing yet, or that leaves nobody connected.       *)
LEMMA QuietKeeps ==
    ASSUME StreamInv, sent' = sent, \A c \in Conn : Asked(c)' = Asked(c),
           topics' = topics \/ DOMAIN clients' = {},
           Running' => Running,
           phase' = "sleep" => phase = "sleep" /\ DOMAIN clients' \subseteq DOMAIN clients,
           \A i \in DOMAIN clients' :
              /\ clients'[i] \in Conn
              /\ \/ /\ i \in DOMAIN clients /\ clients'[i] = clients[i]
                    /\ peer'[clients[i]] = "open" => peer[clients[i]] = "open"
                 \/ i \notin DOMAIN clients /\ Asked(clients'[i]) = {}
    PROVE  KillEndsTheStream' /\ OnlyWhatWasAsked' /\ SubscribersUpToDate'
  <1>1. OnlyWhatWasAsked'
    <2> SUFFICES ASSUME NEW c \in Conn, NEW k \in 1 .. Len(sent[c]),
                        sent[c][k].type = "SC_NOTIFY"
                 PROVE  sent[c][k].name \in Asked(c)'
      BY DEF OnlyWhatWasAsked
    <2> QED BY DEF StreamInv, OnlyWhatWasAsked
  <1>2. KillEndsTheStream'
    <2>1. ASSUME NEW c \in Conn, NEW k \in 1 .. Len(sent[c]), sent[c][k] = KillClient
          PROVE  ~Running' /\ \A l \in k .. Len(sent[c]) : sent[c][l] = KillClient
      BY <2>1 DEF StreamInv, KillEndsTheStream
    <2>2. ASSUME phase' = "sleep", NEW i \in DOMAIN clients', peer'[clients'[i]] = "open"
          PROVE  sent[clients'[i]] # <<>>
                 /\ sent[clients'[i]][Len(sent[clients'[i]])] = KillClient
      <3>1. i \in DOMAIN clients /\ clients'[i] = clients[i]
        BY <2>2
      <3> QED BY <2>2, <3>1 DEF StreamInv, KillEndsTheStream
    <2> QED BY <2>1, <2>2 DEF KillEndsTheStream
  <1>3. SubscribersUpToDate'
    <2> SUFFICES ASSUME NEW i \in DOMAIN clients', NEW c \in Conn, c = clients'[i],
                        peer'[c] = "open", NEW n \in Asked(c)' \cap DOMAIN topics'
                 PROVE  LatestIs(sent[c], n, topics'[n])
      BY DEF SubscribersUpToDate, LatestIs
    <2>1. n \in Asked(c) /\ topics' = topics
      OBVIOUS
    <2>2. i \in DOMAIN clients /\ clients'[i] = clients[i] /\ peer[clients[i]] = "open"
      BY <2>1
    <2> QED BY <2>1, <2>2 DEF StreamInv, SubscribersUpToDate
  <1> QED BY <1>1, <1>2, <1>3

(* A step that changes nothing.                                            *)
LEMMA StutterStream == StreamInv /\ UNCHANGED vars => StreamInv'
  <1> SUFFICES ASSUME StreamInv, UNCHANGED vars PROVE StreamInv'
    OBVIOUS
  <1> USE DEF vars, sockVars, mapVars, fdVars
  <1>1. IInv'
    BY StutterKeeps DEF StreamInv
  <1>2. \A c : Asked(c)' = Asked(c)
    BY DEF Asked
  <1>3. \A i \in DOMAIN clients : clients[i] \in Conn
    BY Places DEF StreamInv
  <1>4. KillEndsTheStream' /\ OnlyWhatWasAsked' /\ SubscribersUpToDate'
    BY <1>2, <1>3, QuietKeeps DEF Running
  <1>5. AsksKept'
    BY <1>2 DEF StreamInv, AsksKept, At
  <1> QED BY <1>1, <1>4, <1>5 DEF StreamInv

(* connect(): the new connection is nobody's yet.                          *)
LEMMA ConnectStream ==
    ASSUME StreamInv, NEW c \in Conn, ClientConnect(c)
    PROVE  StreamInv'
  <1> USE DEF ClientConnect, mapVars, fdVars
  <1>1. IInv /\ TypeOK /\ IInv'
    BY ConnectKeeps DEF StreamInv, IInv
  <1>2. \A d : Asked(d)' = Asked(d)
    BY DEF Asked
  <1>3. \A i \in DOMAIN clients : clients[i] \in Conn /\ clients[i] # c
    BY <1>1, Places DEF IInv, OneOwner
  <1>4. \A d \in Conn : d # c => peer'[d] = peer[d]
    BY <1>1 DEF TypeOK
  <1>5. KillEndsTheStream' /\ OnlyWhatWasAsked' /\ SubscribersUpToDate'
    BY <1>2, <1>3, <1>4, QuietKeeps DEF Running
  <1>6. /\ Len(backlog) \in Nat /\ Len(backlog') = Len(backlog) + 1
        /\ \A k \in 1 .. Len(backlog) : backlog'[k] = backlog[k]
        /\ backlog'[Len(backlog) + 1] = c
    BY <1>1, Appended DEF TypeOK
  <1>7. \A k \in 1 .. Len(backlog') : handled[backlog'[k]] = 0
    <2> SUFFICES ASSUME NEW k \in 1 .. Len(backlog') PROVE handled[backlog'[k]] = 0
      OBVIOUS
    <2>1. k \in 1 .. Len(backlog) \/ k = Len(backlog) + 1
      BY <1>6
    <2> QED BY <1>6, <2>1 DEF StreamInv, AsksKept
  <1>8. \A d \in Conn : peer'[d] = "unused" => peer[d] = "unused"
    BY <1>1 DEF TypeOK
  <1>9. AsksKept'
    BY <1>2, <1>7, <1>8 DEF StreamInv, AsksKept, At
  <1> QED BY <1>1, <1>5, <1>9 DEF StreamInv

(* A request is written behind those that have been read.                  *)
LEMMA SendStream ==
    ASSUME StreamInv, NEW c \in Conn, NEW m \in Requests, ClientSend(c, m)
    PROVE  StreamInv'
  <1> USE DEF ClientSend, mapVars, fdVars
  <1>1. IInv /\ TypeOK /\ IInv'
    BY SendKeeps DEF StreamInv, IInv
  <1>2. /\ Len(reqs[c]) \in Nat /\ Len(reqs'[c]) = Len(reqs[c]) + 1
        /\ \A k \in 1 .. Len(reqs[c]) : reqs'[c][k] = reqs[c][k]
        /\ \A d \in Conn : d # c => reqs'[d] = reqs[d]
    BY <1>1, Appended DEF TypeOK
  <1>3. \A d \in Conn : handled[d] \in Nat /\ handled[d] <= Len(reqs[d])
    BY <1>1 DEF StreamInv, AsksKept, TypeOK
  <1>4. \A d \in Conn : Asked(d)' = Asked(d)
    <2> SUFFICES ASSUME NEW d \in Conn
                 PROVE  \A k \in 1 .. handled[d] : reqs'[d][k] = reqs[d][k]
      BY AskedStays
    <2> QED BY <1>2, <1>3
  <1>5. \A i \in DOMAIN clients : clients[i] \in Conn
    BY <1>1, Places
  <1>6. KillEndsTheStream' /\ OnlyWhatWasAsked' /\ SubscribersUpToDate'
    BY <1>4, <1>5, QuietKeeps DEF Running
  <1>7. \A d \in Conn : handled[d] <= Len(reqs'[d])
    BY <1>2, <1>3
  <1>8. AsksKept'
    BY <1>4, <1>5, <1>7 DEF StreamInv, AsksKept, At
  <1> QED BY <1>1, <1>6, <1>8 DEF StreamInv

(* A client that closes is promised nothing more.                          *)
LEMMA CloseStream ==
    ASSUME StreamInv, NEW c \in Conn, ClientClose(c)
    PROVE  StreamInv'
  <1> USE DEF ClientClose, mapVars, fdVars
  <1>1. IInv /\ TypeOK /\ IInv'
    BY CloseKeeps DEF StreamInv, IInv
  <1>2. \A d : Asked(d)' = Asked(d)
    BY DEF Asked
  <1>3. \A d \in Conn : peer'[d] = IF d = c THEN "closed" ELSE peer[d]
    BY <1>1 DEF TypeOK
  <1>4. \A i \in DOMAIN clients : clients[i] \in Conn
    BY <1>1, Places
  <1>5. KillEndsTheStream' /\ OnlyWhatWasAsked' /\ SubscribersUpToDate'
    BY <1>2, <1>3, <1>4, QuietKeeps DEF Running
  <1>6. AsksKept'
    BY <1>2, <1>3 DEF StreamInv, AsksKept, At
  <1> QED BY <1>1, <1>5, <1>6 DEF StreamInv

(* A reset loses only what has not been read.                              *)
LEMMA ResetStream ==
    ASSUME StreamInv, NEW c \in Conn, ClientReset(c)
    PROVE  StreamInv'
  <1> USE DEF ClientReset, mapVars, fdVars
  <1>1. IInv /\ TypeOK /\ IInv'
    BY ResetKeeps DEF StreamInv, IInv
  <1>2. \A d \in Conn : handled[d] \in Nat /\ handled[d] <= Len(reqs[d])
    BY <1>1 DEF StreamInv, AsksKept, TypeOK
  <1>3. /\ Len(reqs'[c]) = handled[c]
        /\ \A k \in 1 .. handled[c] : reqs'[c][k] = reqs[c][k]
        /\ \A d \in Conn : d # c => reqs'[d] = reqs[d]
    <2>1. reqs[c] \in Seq(Requests) /\ Len(reqs[c]) \in Nat
      BY <1>1, LenProperties DEF TypeOK
    <2>2. /\ Len(SubSeq(reqs[c], 1, handled[c])) = handled[c]
          /\ \A k \in 1 .. handled[c] : SubSeq(reqs[c], 1, handled[c])[k] = reqs[c][k]
      BY <1>2, <2>1, SubSeqProperties
    <2> QED BY <1>1, <2>2 DEF TypeOK
  <1>4. \A d \in Conn : Asked(d)' = Asked(d)
    <2> SUFFICES ASSUME NEW d \in Conn
                 PROVE  \A k \in 1 .. handled[d] : reqs'[d][k] = reqs[d][k]
      BY AskedStays
    <2> QED BY <1>3
  <1>5. \A d \in Conn : peer'[d] = IF d = c THEN "closed" ELSE peer[d]
    BY <1>1 DEF TypeOK
  <1>6. \A i \in DOMAIN clients : clients[i] \in Conn
    BY <1>1, Places
  <1>7. KillEndsTheStream' /\ OnlyWhatWasAsked' /\ SubscribersUpToDate'
    BY <1>4, <1>5, <1>6, QuietKeeps DEF Running
  <1>8. \A d \in Conn : handled[d] <= Len(reqs'[d])
    BY <1>2, <1>3
  <1>9. \A d \in Conn : peer'[d] = "unused" => handled[d] = 0
    BY <1>5 DEF StreamInv, AsksKept
  <1>10. AsksKept'
    BY <1>4, <1>6, <1>8, <1>9 DEF StreamInv, AsksKept, At
  <1> QED BY <1>1, <1>7, <1>10 DEF StreamInv

(* select() and the end of a round.                                        *)
LEMMA RoundStream ==
    ASSUME StreamInv, Select \/ NextRound
    PROVE  StreamInv'
  <1> USE DEF Select, NextRound, sockVars, mapVars, fdVars
  <1>1. IInv'
    BY SelectKeeps, NextRoundKeeps DEF StreamInv
  <1>2. \A c : Asked(c)' = Asked(c)
    BY DEF Asked
  <1>3. \A i \in DOMAIN clients : clients[i] \in Conn
    BY Places DEF StreamInv
  <1>4. KillEndsTheStream' /\ OnlyWhatWasAsked' /\ SubscribersUpToDate'
    BY <1>2, <1>3, QuietKeeps DEF Running
  <1>5. AsksKept'
    BY <1>2 DEF StreamInv, AsksKept, At
  <1> QED BY <1>1, <1>4, <1>5 DEF StreamInv

(* accept(): the descriptor's new owner has asked for nothing, and is not  *)
(* found under what the previous owner asked for.                          *)
LEMMA AcceptStream ==
    ASSUME StreamInv, Accept
    PROVE  StreamInv'
  <1> USE DEF Accept, mapVars
  <1>1. IInv /\ TypeOK /\ IInv'
    BY AcceptKeeps DEF StreamInv, IInv
  <1>2. PICK i \in Free : clients' = Put(clients, i, Head(backlog))
    OBVIOUS
  <1>3. backlog # <<>> /\ backlog \in Seq(Conn)
    BY <1>1 DEF IInv, TypeOK, RoundIsFresh, Turn, Readable
  <1>4. /\ Head(backlog) = backlog[1] /\ 1 \in 1 .. Len(backlog)
        /\ Len(backlog') = Len(backlog) - 1
        /\ \A k \in 1 .. Len(backlog') : backlog'[k] = backlog[k + 1]
    BY <1>1, <1>3, HeadTailProperties, EmptySeq, Places
  <1>5. /\ i \notin DOMAIN clients
        /\ DOMAIN clients' = DOMAIN clients \cup {i}
        /\ clients'[i] = backlog[1]
        /\ \A j \in DOMAIN clients : clients'[j] = clients[j]
    BY <1>2, <1>4 DEF Free, Put
  <1>6. \A c : Asked(c)' = Asked(c)
    BY DEF Asked
  <1>7. backlog[1] \in Conn /\ Asked(backlog[1]) = {}
    <2>1. handled[backlog[1]] = 0
      BY <1>4 DEF StreamInv, AsksKept
    <2>2. 1 .. 0 = {}
      OBVIOUS
    <2> QED BY <1>1, <1>4, <2>1, <2>2, Places DEF Asked
  <1>8. \A j \in DOMAIN clients' :
           /\ clients'[j] \in Conn
           /\ \/ j \in DOMAIN clients /\ clients'[j] = clients[j]
              \/ j \notin DOMAIN clients /\ Asked(clients'[j]) = {}
    BY <1>1, <1>5, <1>7, Places
  <1>9. Running' <=> Running
    BY DEF Running
  <1>10. phase' # "sleep"
    BY DEF Turn
  <1>11. KillEndsTheStream' /\ OnlyWhatWasAsked' /\ SubscribersUpToDate'
    BY <1>6, <1>8, <1>9, <1>10, QuietKeeps
  <1>12. AsksKept'
    <2>1. \A j \in DOMAIN clients' : At(subtopics', j) = Asked(clients'[j])
      <3>1. At(subtopics, i) = {}
        BY <1>1, <1>5 DEF IInv, SubscriptionsMirror, At
      <3>2. \A j \in DOMAIN clients : At(subtopics, j) = Asked(clients[j])
        BY DEF StreamInv, AsksKept
      <3> QED BY <1>5, <1>7, <3>1, <3>2
    <2>2. \A k \in 1 .. Len(backlog') : handled[backlog'[k]] = 0
      <3> SUFFICES ASSUME NEW k \in 1 .. Len(backlog') PROVE handled[backlog[k + 1]] = 0
        BY <1>4
      <3>1. k + 1 \in 1 .. Len(backlog)
        BY <1>1, <1>4, Places
      <3> QED BY <3>1 DEF StreamInv, AsksKept
    <2>3. \A j \in DOMAIN clients', c \in Conn : c = clients'[j] => At(subtopics', j) = Asked(c)'
      BY <1>6, <2>1
    <2>4. \A j \in DOMAIN clients' : clients'[j] \in Conn
      BY <1>8
    <2> QED BY <2>2, <2>3, <2>4 DEF StreamInv, AsksKept
  <1> QED BY <1>1, <1>11, <1>12 DEF StreamInv

(* A closed connection has nothing more to be told.                        *)
LEMMA CloseClientStream ==
    ASSUME StreamInv, NEW i \in Fd, CloseClient(i)
    PROVE  StreamInv'
  <1> USE DEF CloseClient, sockVars
  <1>1. IInv /\ IInv'
    BY CloseClientKeeps DEF StreamInv
  <1>2. \A c : Asked(c)' = Asked(c)
    BY DEF Asked
  <1>3. /\ DOMAIN clients' = DOMAIN clients \ {i}
        /\ \A j \in DOMAIN clients' : clients'[j] = clients[j] /\ clients[j] \in Conn
    BY <1>1, Places DEF Erase
  <1>4. KillEndsTheStream' /\ OnlyWhatWasAsked' /\ SubscribersUpToDate'
    BY <1>2, <1>3, QuietKeeps DEF Running
  <1>5. \A j \in DOMAIN clients' : At(subtopics', j) = At(subtopics, j)
    BY <1>3 DEF Erase, At
  <1>6. AsksKept'
    <2>1. \A j \in DOMAIN clients', c \in Conn : c = clients'[j] => At(subtopics', j) = Asked(c)'
      BY <1>2, <1>3, <1>5 DEF StreamInv, AsksKept
    <2> QED BY <1>3, <2>1 DEF StreamInv, AsksKept
  <1> QED BY <1>1, <1>4, <1>6 DEF StreamInv

(* A broker that is gone has sent what it has sent.                        *)
LEMMA GoneStream ==
    ASSUME StreamInv, Gone
    PROVE  StreamInv'
  <1> USE DEF Gone
  <1>1. IInv'
    BY GoneKeeps DEF StreamInv
  <1>2. \A c : Asked(c)' = Asked(c)
    BY DEF Asked
  <1>3. DOMAIN clients' = {}
    BY EmptyMapOK
  <1>4. KillEndsTheStream' /\ OnlyWhatWasAsked' /\ SubscribersUpToDate'
    BY <1>2, <1>3, QuietKeeps DEF Running
  <1>5. AsksKept'
    BY <1>3, EmptySeq DEF StreamInv, AsksKept
  <1> QED BY <1>1, <1>4, <1>5 DEF StreamInv

-----------------------------------------------------------------------------
(* shutdown().                                                             *)

(* Every client that listens gets the same last message, and nothing that  *)
(* it knows of its topics is changed by it.                                *)
LEMMA ShutdownStream ==
    ASSUME StreamInv, Shutdown, phase # "stopped", phase' = "sleep",
           signals' \subseteq {"SIGINT", "SIGQUIT"},
           UNCHANGED <<sockVars, handled, fdVars, ready, subtopics, serverKill>>
    PROVE  StreamInv'
  <1> DEFINE S == Listening(DOMAIN clients)
  <1> USE DEF sockVars, fdVars
  <1>1. IInv /\ TypeOK /\ IInv'
    BY ShutdownKeeps DEF StreamInv, IInv
  <1>2. topics' = topics
    BY <1>1, ShutdownOK
  <1>3. \A c \in Conn : sent'[c] = IF c \in S THEN Append(sent[c], KillClient) ELSE sent[c]
    <2>1. \A c \in Conn : BaseSend(Broker, DOMAIN clients, KillClient).sent[c] =
                             IF c \in S THEN Append(Broker.sent[c], KillClient)
                                        ELSE Broker.sent[c]
      BY <1>1, BrokerTyped, BaseSendSent
    <2>2. Broker.sent = sent
      BY DEF Broker
    <2> QED BY <2>1, <2>2 DEF Shutdown, Commit
  <1>4. \A c : Asked(c)' = Asked(c)
    BY DEF Asked
  <1>5. \A i \in DOMAIN clients : /\ clients[i] \in Conn
                                  /\ peer[clients[i]] = "open" => clients[i] \in S
    BY <1>1, Places, Reached
  <1> HIDE DEF S
  <1>6. \A c \in Conn \cap S :
           /\ Len(sent[c]) \in Nat /\ Len(sent'[c]) = Len(sent[c]) + 1
           /\ \A k \in 1 .. Len(sent[c]) : sent'[c][k] = sent[c][k]
           /\ sent'[c][Len(sent[c]) + 1] = KillClient
    <2> SUFFICES ASSUME NEW c \in Conn \cap S
                 PROVE  /\ Len(sent[c]) \in Nat /\ Len(sent'[c]) = Len(sent[c]) + 1
                        /\ \A k \in 1 .. Len(sent[c]) : sent'[c][k] = sent[c][k]
                        /\ sent'[c][Len(sent[c]) + 1] = KillClient
      OBVIOUS
    <2>1. sent[c] \in Seq(Notices) /\ sent'[c] = Append(sent[c], KillClient)
      BY <1>1, <1>3 DEF TypeOK
    <2> QED BY <2>1, Appended, NoticeTypes
  <1>7. \A c \in Conn : Len(sent[c]) \in Nat
    BY <1>1, LenProperties DEF TypeOK
  <1>8. KillEndsTheStream'
    <2>1. ASSUME NEW c \in Conn, NEW k \in 1 .. Len(sent'[c]), sent'[c][k] = KillClient,
                 NEW l \in k .. Len(sent'[c])
          PROVE  sent'[c][l] = KillClient
      <3>1. CASE c \notin S
        BY <1>3, <2>1, <3>1 DEF StreamInv, KillEndsTheStream
      <3>2. CASE c \in S /\ l # Len(sent[c]) + 1
        <4>1. k \in 1 .. Len(sent[c]) /\ l \in k .. Len(sent[c]) /\ l \in 1 .. Len(sent[c])
          BY <1>6, <3>2
        <4>2. sent[c][k] = KillClient
          BY <1>6, <2>1, <3>2, <4>1
        <4> QED BY <1>6, <3>2, <4>1, <4>2 DEF StreamInv, KillEndsTheStream
      <3>3. CASE c \in S /\ l = Len(sent[c]) + 1
        BY <1>6, <3>3
      <3> QED BY <3>1, <3>2, <3>3
    <2>2. ASSUME NEW i \in DOMAIN clients', peer'[clients'[i]] = "open"
          PROVE  /\ sent'[clients'[i]] # <<>>
                 /\ sent'[clients'[i]][Len(sent'[clients'[i]])] = KillClient
      <3> DEFINE c == clients[i]
      <3>1. c \in Conn \cap S
        BY <1>5, <2>2
      <3> HIDE DEF c
      <3>2. Len(sent'[c]) # 0 /\ sent'[c][Len(sent'[c])] = KillClient
        BY <1>6, <3>1
      <3>3. sent'[c] # <<>>
        BY <3>2, EmptySeq
      <3> QED BY <3>2, <3>3 DEF c
    <2>3. ~Running'
      BY DEF Running
    <2> QED BY <2>1, <2>2, <2>3 DEF KillEndsTheStream
  <1>9. KillClient \in Notices /\ KillClient.type # "SC_NOTIFY"
    BY NoticeTypes DEF KillClient
  <1>10. OnlyWhatWasAsked'
    <2> SUFFICES ASSUME NEW c \in Conn, NEW k \in 1 .. Len(sent'[c]),
                        sent'[c][k].type = "SC_NOTIFY"
                 PROVE  sent'[c][k].name \in Asked(c)
      BY <1>4 DEF OnlyWhatWasAsked
    <2>1. k \in 1 .. Len(sent[c]) /\ sent'[c][k] = sent[c][k]
      BY <1>3, <1>6, <1>7, <1>9
    <2> QED BY <2>1 DEF StreamInv, OnlyWhatWasAsked
  <1>11. SubscribersUpToDate'
    <2> SUFFICES ASSUME NEW i \in DOMAIN clients, peer[clients[i]] = "open",
                        NEW n \in Asked(clients[i]) \cap DOMAIN topics
                 PROVE  LatestIs(sent'[clients[i]], n, topics[n])
      BY <1>2, <1>4 DEF SubscribersUpToDate, LatestIs
    <2> DEFINE c == clients[i]
    <2>1. LatestIs(sent[c], n, topics[n])
      BY DEF StreamInv, SubscribersUpToDate
    <2>2. c \in Conn /\ sent[c] \in Seq(Notices)
      BY <1>1, <1>5 DEF TypeOK
    <2>3. sent'[c] = Append(sent[c], KillClient)
      BY <1>3, <1>5
    <2> QED BY <1>9, <2>1, <2>2, <2>3, LatestStays
  <1>12. AsksKept'
    BY <1>4 DEF StreamInv, AsksKept, At
  <1> QED BY <1>1, <1>8, <1>10, <1>11, <1>12 DEF StreamInv

-----------------------------------------------------------------------------
(* The handlers of process().                                              *)

(* The promises, read in the two indexes that the broker keeps.            *)
LEMMA StreamIndexed ==
    ASSUME StreamInv, NEW n \in Names, NEW i \in At(subscribers, n)
    PROVE  i \in DOMAIN clients /\ clients[i] \in Conn /\ n \in Asked(clients[i])
  <1>1. IInv /\ i \in Fd
    BY AtType DEF StreamInv, IInv, TypeOK
  <1>2. n \in At(subtopics, i)
    BY <1>1 DEF IInv, SubscriptionsMirror
  <1>3. i \in DOMAIN clients
    BY <1>1, <1>2 DEF IInv, SubscriptionsMirror, At
  <1> QED BY <1>1, <1>2, <1>3, Places DEF StreamInv, AsksKept

(* While the broker serves, all that it has sent is notifications.         *)
LEMMA OnlyNotifications ==
    ASSUME StreamInv, Running
    PROVE  \A c \in Conn : \A k \in 1 .. Len(sent[c]) :
              sent[c][k].type = "SC_NOTIFY" /\ sent[c][k].name \in Asked(c)
  <1> SUFFICES ASSUME NEW c \in Conn, NEW k \in 1 .. Len(sent[c])
               PROVE  sent[c][k].type = "SC_NOTIFY" /\ sent[c][k].name \in Asked(c)
    OBVIOUS
  <1>1. sent[c][k] \in Notices
    BY LenProperties DEF StreamInv, IInv, TypeOK
  <1>2. sent[c][k] # KillClient
    BY DEF StreamInv, KillEndsTheStream
  <1>3. sent[c][k].type = "SC_NOTIFY"
    BY <1>1, <1>2 DEF Notices
  <1> QED BY <1>3 DEF StreamInv, OnlyWhatWasAsked

(* The promises hold for the record that the handlers start from.          *)
LEMMA CountedStream ==
    ASSUME StreamInv, NEW i \in Fd, NEW type, Receive(i, type),
           NEW A, \A c \in Conn : A[c] = Asked(c)'
    PROVE  StreamOK(Counted, A)
  <1> DEFINE b == [subscribers |-> subscribers, topics |-> topics, sent |-> sent,
                   msgssent |-> msgssent, msgsrecvd |-> msgsrecvd + 1]
  <1>1. Counted = RebuildStatsTopic(b)
    BY DEF Broker, Counted
  <1>2. IInv /\ TypeOK /\ BrokerOK(b)
    BY DEF StreamInv, IInv, TypeOK, BrokerOK
  <1>3. \A c \in Conn : Asked(c) \subseteq A[c]
    <2>1. /\ \A c \in Conn : c # clients[i] => Asked(c)' = Asked(c)
          /\ Asked(clients[i]) \subseteq Asked(clients[i])'
      BY AskedAfter
    <2>2. clients' = clients
      BY DEF Receive, fdVars
    <2> QED BY <2>1, <2>2
  <1>4. SentAsked(b, A)
    <2>1. Running
      BY DEF Receive, Turn, Running
    <2> QED BY <1>3, <2>1, OnlyNotifications DEF SentAsked
  <1>5. MayHear(b, A)
    BY <1>3, StreamIndexed DEF MayHear
  <1>6. UpToDate(b)
    <2> SUFFICES ASSUME NEW n \in DOMAIN topics, NEW j \in At(subscribers, n),
                        peer[clients[j]] = "open"
                 PROVE  LatestIs(sent[clients[j]], n, topics[n])
      BY DEF UpToDate
    <2>1. n \in Names
      BY <1>2 DEF TypeOK, IsMap
    <2> QED BY <2>1, StreamIndexed DEF StreamInv, SubscribersUpToDate
  <1> HIDE DEF b
  <1> QED BY <1>1, <1>2, <1>4, <1>5, <1>6, RebuildStream DEF StreamOK

(* A handler that ends with a record for which the promises hold, and has  *)
(* noted in subtopics what it was asked.                                   *)
LEMMA HandlerStream ==
    ASSUME StreamInv, IInv', NEW i \in Fd, NEW type, Receive(i, type),
           NEW A, \A c \in Conn : A[c] = Asked(c)',
           NEW b, StreamOK(b, A), Commit(b),
           \A j \in DOMAIN clients : At(subtopics', j) = A[clients[j]]
    PROVE  StreamInv'
  <1> USE DEF Receive, Turn, sockVars, fdVars
  <1>1. IInv /\ TypeOK /\ clients' = clients /\ peer' = peer /\ phase' = "dispatch"
    BY DEF StreamInv, IInv
  <1>2. \A j \in DOMAIN clients : clients[j] \in Conn
    BY <1>1, Places
  <1>3. sent' = b.sent /\ topics' = b.topics /\ subscribers' = b.subscribers
    BY DEF Commit
  <1>4. KillEndsTheStream'
    <2>1. KillClient.type # "SC_NOTIFY"
      BY DEF KillClient
    <2> QED BY <1>1, <1>3, <2>1 DEF KillEndsTheStream, StreamOK, SentAsked
  <1>5. OnlyWhatWasAsked'
    BY <1>3 DEF OnlyWhatWasAsked, StreamOK, SentAsked
  <1>6. SubscribersUpToDate'
    <2> SUFFICES ASSUME NEW j \in DOMAIN clients, NEW c \in Conn, c = clients[j],
                        peer[c] = "open", NEW n \in Asked(c)' \cap DOMAIN topics'
                 PROVE  LatestIs(sent'[c], n, topics'[n])
      BY <1>1, <1>2 DEF SubscribersUpToDate, LatestIs
    <2>1. n \in At(subtopics', j) /\ j \in Fd /\ n \in Names
      BY <1>1, NamesAssumption, Places DEF Asked
    <2>2. j \in At(b.subscribers, n)
      BY <1>3, <2>1 DEF IInv, SubscriptionsMirror, At
    <2> QED BY <1>3, <2>2 DEF StreamOK, UpToDate
  <1>7. AsksKept'
    <2> DEFINE d == clients[i]
    <2>1. i \in DOMAIN clients /\ d \in Conn
      BY <1>1, Connected, Places
    <2>2. /\ \A c \in Conn : c # d => handled'[c] = handled[c]
          /\ handled'[d] = handled[d] + 1
      BY <1>1, <2>1 DEF TypeOK
    <2>3. \A c \in Conn : handled'[c] <= Len(reqs[c])
      <3>1. \A c \in Conn : handled[c] \in Nat /\ Len(reqs[c]) \in Nat
        BY <1>1, LenProperties DEF TypeOK
      <3>2. handled[d] < Len(reqs[d])
        BY DEF Pending
      <3> QED BY <2>1, <2>2, <3>1, <3>2 DEF StreamInv, AsksKept
    <2>4. peer[d] # "unused" /\ \A k \in 1 .. Len(backlog) : backlog[k] # d
      BY <1>1, <2>1 DEF IInv, OneOwner
    <2>5. \A c \in Conn : peer[c] = "unused" => handled'[c] = 0
      BY <2>2, <2>4 DEF StreamInv, AsksKept
    <2>6. \A k \in 1 .. Len(backlog) : handled'[backlog[k]] = 0
      BY <1>1, <2>2, <2>4, Places DEF StreamInv, AsksKept
    <2>7. \A j \in DOMAIN clients, c \in Conn : c = clients[j] => At(subtopics', j) = Asked(c)'
      OBVIOUS
    <2> QED BY <1>1, <1>2, <2>3, <2>5, <2>6, <2>7 DEF AsksKept
  <1> QED BY <1>4, <1>5, <1>6, <1>7 DEF StreamInv

(* What a client has asked for after a request other than a subscription   *)
(* is what subtopics holds.                                                *)
LEMMA NothingAsked ==
    ASSUME StreamInv, NEW i \in Fd, NEW type, Receive(i, type), type # "CS_SUBSCRIBE",
           subtopics' = subtopics
    PROVE  \A j \in DOMAIN clients, c \in Conn : c = clients[j] => At(subtopics', j) = Asked(c)'
  <1>1. \A c \in Conn : c # clients[i] => Asked(c)' = Asked(c)
    BY AskedAfter
  <1>2. Asked(clients[i])' = Asked(clients[i])
    BY AskedAfter
  <1>3. clients' = clients
    BY DEF Receive, fdVars
  <1>4. \A c \in Conn : Asked(c)' = Asked(c)
    BY <1>1, <1>2, <1>3
  <1> QED BY <1>4 DEF StreamInv, AsksKept

(* process(), CS_PUBLISH: all who have asked for the topic, and only they. *)
LEMMA HandlePublishStream ==
    ASSUME StreamInv, NEW i \in Fd, HandlePublish(i)
    PROVE  StreamInv'
  <1> DEFINE A == [c \in Conn |-> Asked(c)']
             b == PublishTopic(Counted, Request(i).name, Request(i).data)
  <1>1. IInv /\ IInv'
    BY PublishKeeps DEF StreamInv
  <1>2. Receive(i, "CS_PUBLISH") /\ Commit(b) /\ subtopics' = subtopics
    BY DEF HandlePublish
  <1>3. Request(i).name \in PubNames /\ Request(i).data \in Payloads
    BY <1>1, <1>2, ReceiveKeeps, RequestTypes
  <1>4. \A j \in DOMAIN clients, c \in Conn : c = clients[j] => At(subtopics', j) = Asked(c)'
    BY <1>2, NothingAsked
  <1>5. \A c \in Conn : A[c] = Asked(c)'
    OBVIOUS
  <1> HIDE DEF A
  <1>6. BrokerOK(Counted) /\ StreamOK(Counted, A)
    BY <1>1, <1>2, <1>5, CountedOK, CountedStream
  <1>7. StreamOK(b, A)
    BY <1>1, <1>3, <1>6, PublishStream
  <1> HIDE DEF b
  <1>8. \A j \in DOMAIN clients : At(subtopics', j) = A[clients[j]]
    BY <1>1, <1>4, <1>5, Places
  <1> QED BY <1>1, <1>2, <1>5, <1>7, <1>8, HandlerStream

(* process(), CS_SUBSCRIBE: the two indexes and the history of requests    *)
(* are extended by the same topic.                                         *)
LEMMA HandleSubscribeStream ==
    ASSUME StreamInv, NEW i \in Fd, HandleSubscribe(i)
    PROVE  StreamInv'
  <1> DEFINE A == [c \in Conn |-> Asked(c)']
             n == Request(i).name
             b == SubscribeTo(Counted, i, n)
  <1>1. IInv /\ IInv'
    BY SubscribeKeeps DEF StreamInv
  <1>2. /\ Receive(i, "CS_SUBSCRIBE") /\ Commit(b)
        /\ subtopics' = Put(subtopics, i, At(subtopics, i) \cup {n})
    BY DEF HandleSubscribe
  <1>3. n \in Names /\ i \in DOMAIN clients /\ clients[i] \in Conn
    BY <1>1, <1>2, ReceiveKeeps, RequestTypes, NamesAssumption
  <1>4. /\ \A c \in Conn : c # clients[i] => Asked(c)' = Asked(c)
        /\ Asked(clients[i])' = Asked(clients[i]) \cup {n}
    BY <1>2, AskedAfter
  <1>5. clients' = clients
    BY <1>2 DEF Receive, fdVars
  <1>6. \A c \in Conn : A[c] = Asked(c)'
    OBVIOUS
  <1>7. A[clients[i]] = Asked(clients[i]) \cup {n}
    BY <1>3, <1>4, <1>5, <1>6
  <1> HIDE DEF A, n
  <1>8. BrokerOK(Counted) /\ StreamOK(Counted, A)
    BY <1>1, <1>2, <1>6, CountedOK, CountedStream
  <1>9. StreamOK(b, A)
    BY <1>1, <1>3, <1>7, <1>8, SubscribeStream
  <1> HIDE DEF b
  <1>10. \A j \in DOMAIN clients : At(subtopics', j) = A[clients[j]]
    <2> SUFFICES ASSUME NEW j \in DOMAIN clients PROVE At(subtopics', j) = A[clients[j]]
      OBVIOUS
    <2>1. At(subtopics', j) = IF j = i THEN At(subtopics, i) \cup {n} ELSE At(subtopics, j)
      BY <1>2, PutAt
    <2>2. At(subtopics, j) = Asked(clients[j])
      BY DEF StreamInv, AsksKept
    <2>3. CASE j = i
      BY <1>7, <2>1, <2>2, <2>3
    <2>4. CASE j # i
      <3>1. clients[j] # clients[i] /\ clients[j] \in Conn
        BY <1>1, <1>3, <2>4, Places DEF IInv, OneOwner
      <3> QED BY <1>4, <1>6, <2>1, <2>2, <2>4, <3>1
    <2> QED BY <2>3, <2>4
  <1> QED BY <1>1, <1>2, <1>6, <1>9, <1>10, HandlerStream

(* process(), CS_KILLSERVER and CS_CLEARSERVER: only the statistics are    *)
(* sent, and who is up to date stays so when there is nothing stored.      *)
LEMMA HandleKillClearStream ==
    ASSUME StreamInv, NEW i \in Fd, HandleKillServer(i) \/ HandleClearServer(i)
    PROVE  StreamInv'
  <1> DEFINE A == [c \in Conn |-> Asked(c)']
             e == [Counted EXCEPT !.topics = EmptyMap]
  <1>1. IInv /\ IInv'
    BY KillServerKeeps, ClearServerKeeps DEF StreamInv
  <1>2. PICK type \in {"CS_KILLSERVER", "CS_CLEARSERVER"} : Receive(i, type)
    BY DEF HandleKillServer, HandleClearServer
  <1>3. subtopics' = subtopics /\ (Commit(Counted) \/ Commit(e))
    BY DEF HandleKillServer, HandleClearServer
  <1>4. \A j \in DOMAIN clients, c \in Conn : c = clients[j] => At(subtopics', j) = Asked(c)'
    BY <1>2, <1>3, NothingAsked
  <1>5. \A c \in Conn : A[c] = Asked(c)'
    OBVIOUS
  <1> HIDE DEF A
  <1>6. BrokerOK(Counted) /\ StreamOK(Counted, A)
    BY <1>1, <1>2, <1>5, CountedOK, CountedStream
  <1>7. StreamOK(e, A)
    <2>1. e.sent = Counted.sent /\ e.subscribers = Counted.subscribers /\ DOMAIN e.topics = {}
      <3>1. Counted = [subscribers |-> Counted.subscribers, topics |-> Counted.topics,
                       sent |-> Counted.sent, msgssent |-> Counted.msgssent,
                       msgsrecvd |-> Counted.msgsrecvd]
        BY <1>6 DEF BrokerOK
      <3> QED BY <3>1, EmptyMapOK
    <2> HIDE DEF e
    <2> QED BY <1>6, <2>1 DEF StreamOK, SentAsked, MayHear, UpToDate
  <1> HIDE DEF e
  <1>8. \A j \in DOMAIN clients : At(subtopics', j) = A[clients[j]]
    BY <1>1, <1>4, <1>5, Places
  <1> QED BY <1>1, <1>2, <1>3, <1>5, <1>6, <1>7, <1>8, HandlerStream

-----------------------------------------------------------------------------
(* Theorems.                                                               *)

(* The constructor has sent nothing to anybody.                            *)
LEMMA InitStream == Init => StreamInv
  <1> SUFFICES ASSUME Init PROVE StreamInv
    OBVIOUS
  <1> DEFINE A == [c \in Conn |-> {}]
             t == Put(EmptyMap, "version", VersionData)
             s == [c \in Conn |-> <<>>]
             a == [subscribers |-> EmptyMap, topics |-> t, sent |-> s,
                   msgssent |-> 0, msgsrecvd |-> 0]
             b == RebuildStatsTopic(a)
  <1>1. IInv
    BY InitOK
  <1>2. clients = EmptyMap /\ DOMAIN clients = {}
    BY EmptyMapOK DEF Init
  <1>3. BrokerOK(a) /\ ListOK(a.topics)
    <2>1. IsMap(EmptyMap, Names, Data) /\ DOMAIN EmptyMap = {}
          /\ IsMap(EmptyMap, Names, SUBSET Fd) /\ IsFiniteSet(DOMAIN EmptyMap)
      BY EmptyMapOK, FS_EmptySet
    <2>2. IsMap(t, Names, Data)
      BY <2>1, PutMap, NamesAssumption, DataTypes
    <2>3. DOMAIN t = {"version"}
      BY <2>1 DEF Put
    <2>4. s \in [Conn -> Seq(Notices)]
      BY EmptySeq
    <2> HIDE DEF t, s
    <2> QED BY <2>1, <2>2, <2>3, <2>4 DEF BrokerOK, ListOK
  <1>4. StreamOK(a, A)
    BY <1>2, EmptySeq DEF StreamOK, SentAsked, MayHear, UpToDate
  <1>5. InitialBroker = RebuildTopicsTopic(b)
    BY DEF InitialBroker
  <1> HIDE DEF a, A
  <1>6. BrokerOK(b) /\ StreamOK(b, A)
    BY <1>1, <1>3, <1>4, RebuildStatsOK, RebuildStream
  <1> HIDE DEF b
  <1>7. StreamOK(InitialBroker, A)
    BY <1>1, <1>5, <1>6, RebuildStream
  <1>8. \A c \in Conn : Len(sent[c]) = 0
    <2>1. \A c \in Conn : 1 .. Len(sent[c]) = {}
      BY <1>7 DEF StreamOK, SentAsked, Init, A
    <2>2. \A c \in Conn : Len(sent[c]) \in Nat
      BY <1>1, LenProperties DEF IInv, TypeOK
    <2> SUFFICES ASSUME NEW c \in Conn, Len(sent[c]) # 0 PROVE FALSE
      OBVIOUS
    <2>3. 1 \in 1 .. Len(sent[c])
      BY <2>2
    <2> QED BY <2>1, <2>3
  <1>9. KillEndsTheStream
    BY <1>2, <1>8 DEF KillEndsTheStream, Init
  <1>10. OnlyWhatWasAsked
    BY <1>8 DEF OnlyWhatWasAsked
  <1>11. SubscribersUpToDate
    BY <1>2 DEF SubscribersUpToDate
  <1>12. AsksKept
    <2>1. \A c \in Conn : handled[c] = 0 /\ Len(reqs[c]) = 0 /\ Len(backlog) = 0
      BY EmptySeq DEF Init
    <2> QED BY <1>2, <2>1, EmptySeq DEF AsksKept, Init
  <1> QED BY <1>1, <1>9, <1>10, <1>11, <1>12 DEF StreamInv

(* Every step of the broker, the clients and the kernel keeps it.          *)
LEMMA NextStream == StreamInv /\ [Next]_vars => StreamInv'
  <1> SUFFICES ASSUME StreamInv, [Next]_vars PROVE StreamInv'
    OBVIOUS
  <1>1. CASE UNCHANGED vars
    BY <1>1, StutterStream
  <1>2. ASSUME NEW c \in Conn,
               \/ ClientConnect(c) \/ ClientClose(c) \/ ClientReset(c)
               \/ \E m \in Requests : ClientSend(c, m)
        PROVE  StreamInv'
    BY <1>2, ConnectStream, SendStream, CloseStream, ResetStream
  <1>3. ASSUME NEW i \in Fd, Serve(i)
        PROVE  StreamInv'
    BY <1>3, HandlePublishStream, HandleSubscribeStream, HandleKillClearStream,
       CloseClientStream DEF Serve
  <1>4. ASSUME NEW s \in Signals, Signal(s)
        PROVE  StreamInv'
    <2>1. signals' \subseteq {"SIGINT", "SIGQUIT"}
      BY <1>4, ServerAssumption DEF Signal, StreamInv, IInv, TypeOK
    <2> QED BY <1>4, <2>1, ShutdownStream DEF Signal
  <1>5. CASE Select \/ NextRound
    BY <1>5, RoundStream
  <1>6. CASE Accept
    BY <1>6, AcceptStream
  <1>7. CASE KillRequested
    <2>1. signals' \subseteq {"SIGINT", "SIGQUIT"}
      BY <1>7 DEF KillRequested, StreamInv, IInv, TypeOK
    <2> QED BY <1>7, <2>1, ShutdownStream DEF KillRequested
  <1>8. CASE Exit \/ AcceptFails
    BY <1>8, GoneStream DEF Exit, AcceptFails
  <1> QED
    BY <1>1, <1>2, <1>3, <1>4, <1>5, <1>6, <1>7, <1>8 DEF Next, ServerStep

(* The requests that the broker has read and the two indexes that it keeps *)
(* of them say the same, whichever descriptors were closed and used again; *)
(* and what is promised about the streams holds with it (server.cpp,       *)
(* process() and shutdown()).                                              *)
THEOREM StreamInvariance == Spec => []StreamInv
  <1> QED BY InitStream, NextStream, PTL DEF Spec

(* The last that a connected subscriber was sent on a topic is what the    *)
(* broker holds for it.                                                    *)
THEOREM AlwaysUpToDate == Spec => []SubscribersUpToDate
  <1>1. StreamInv => SubscribersUpToDate
    BY DEF StreamInv
  <1> QED BY <1>1, StreamInvariance, PTL

(* Nothing is sent on a topic to a client that has not subscribed to it.   *)
THEOREM NeverUnasked == Spec => []OnlyWhatWasAsked
  <1>1. StreamInv => OnlyWhatWasAsked
    BY DEF StreamInv
  <1> QED BY <1>1, StreamInvariance, PTL

(* SC_KILLCLIENT is sent only by a broker that shuts down, to all whom it  *)
(* has accepted, and nothing follows it but another SC_KILLCLIENT.         *)
THEOREM KillAlwaysEndsTheStream == Spec => []KillEndsTheStream
  <1>1. StreamInv => KillEndsTheStream
    BY DEF StreamInv
  <1> QED BY <1>1, StreamInvariance, PTL
=============================================================================

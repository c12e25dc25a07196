----------------------------- MODULE PubSubProofs -----------------------------
(* The broker implements the publish and subscribe of module PubSub, for   *)
(* every set of connections, descriptors, names and values.                *)
EXTENDS ServerProofs, NaturalsInduction, WellFoundedInduction

-----------------------------------------------------------------------------
(* Induction.  The library's induction theorems take a predicate; a set of *)
(* numbers says the same.                                                  *)

(* A nonempty set of numbers has a smallest one.                           *)
LEMMA Smallest ==
    ASSUME NEW T \in SUBSET Nat, T # {}
    PROVE  \E x \in T : \A y \in T : x <= y
  <1> DEFINE R == OpToRel(<, Nat)
  <1>1. IsWellFoundedOn(R, Nat)
    BY NatLessThanWellFounded, Zenon
  <1> HIDE DEF R
  <1>2. PICK x \in T : \A y \in T : ~(<<y, x>> \in R)
    BY <1>1, WFMin
  <1>3. \A y \in T : ~(y < x)
    BY <1>2 DEF R, OpToRel
  <1> QED BY <1>3

(* Induction up to a bound: zero and every successor.                      *)
LEMMA UpTo ==
    ASSUME NEW n \in Nat, NEW T, 0 \in T, \A k \in T \cap Nat : k < n => k + 1 \in T
    PROVE  0 .. n \subseteq T
  <1> DEFINE U == (0 .. n) \ T
  <1> SUFFICES ASSUME U # {} PROVE FALSE
    OBVIOUS
  <1>1. PICK x \in U : \A y \in U : x <= y
    <2>1. U \in SUBSET Nat
      OBVIOUS
    <2> HIDE DEF U
    <2> QED BY <2>1, Smallest
  <1>2. x # 0 /\ x - 1 \in 0 .. n /\ x - 1 \in Nat /\ x - 1 < n /\ x - 1 + 1 = x
    OBVIOUS
  <1>3. x - 1 \in T
    BY <1>1, <1>2
  <1> QED BY <1>2, <1>3

-----------------------------------------------------------------------------
(* The user's part of what was sent.                                       *)

(* What the k-th message adds to the part p of those before it.            *)
Added(s, k, p) ==
    IF s[k].type = "SC_NOTIFY" /\ s[k].name \in UserTopics
      THEN Append(p, <<s[k].name, s[k].data>>)
      ELSE p

IsPart(s, j, f) ==
    /\ f = [k \in 0 .. j |-> f[k]]
    /\ f[0] = <<>>
    /\ \A k \in 1 .. j : f[k] = Added(s, k, f[k - 1])

(* Such parts exist, one after the other.                                  *)
LEMMA PartExists ==
    ASSUME NEW n \in Nat, NEW s
    PROVE  \E f : IsPart(s, n, f)
  <1> DEFINE T == {j \in 0 .. n : \E f : IsPart(s, j, f)}
  <1>1. 0 \in T
    <2> DEFINE f == [k \in 0 .. 0 |-> <<>>]
    <2>1. IsPart(s, 0, f)
      BY DEF IsPart
    <2> QED BY <2>1
  <1>2. ASSUME NEW j \in T \cap Nat, j < n PROVE j + 1 \in T
    <2>1. PICK f : IsPart(s, j, f)
      BY <1>2
    <2> DEFINE g == [k \in 0 .. j + 1 |-> IF k = j + 1 THEN Added(s, k, f[j]) ELSE f[k]]
    <2>2. \A k \in 0 .. j : g[k] = f[k]
      OBVIOUS
    <2>3. g[j + 1] = Added(s, j + 1, f[j])
      OBVIOUS
    <2>4. g = [k \in 0 .. j + 1 |-> g[k]]
      OBVIOUS
    <2> HIDE DEF g
    <2>5. g[0] = <<>>
      BY <2>1, <2>2 DEF IsPart
    <2>6. ASSUME NEW k \in 1 .. j + 1 PROVE g[k] = Added(s, k, g[k - 1])
      <3>1. CASE k = j + 1
        BY <2>2, <2>3, <3>1
      <3>2. CASE k # j + 1
        <4>1. k \in 1 .. j /\ k \in 0 .. j /\ k - 1 \in 0 .. j
          BY <3>2
        <4> QED BY <2>1, <2>2, <4>1 DEF IsPart
      <3> QED BY <3>1, <3>2
    <2>7. IsPart(s, j + 1, g)
      BY <2>4, <2>5, <2>6 DEF IsPart
    <2> QED BY <1>2, <2>7
  <1> HIDE DEF T
  <1>3. n \in T
    BY <1>1, <1>2, UpTo
  <1> QED BY <1>3 DEF T

(* One step of the recursion.                                              *)
LEMMA PartStep ==
    ASSUME NEW s, NEW j, NEW f, IsPart(s, j, f), NEW k \in Nat, k + 1 \in 1 .. j
    PROVE  f[k + 1] = Added(s, k + 1, f[k])
  <1> DEFINE l == k + 1
  <1>1. l \in 1 .. j /\ l - 1 = k
    OBVIOUS
  <1> HIDE DEF l
  <1>2. f[l] = Added(s, l, f[l - 1])
    BY ONLY IsPart(s, j, f), <1>1 DEF IsPart
  <1>3. f[l] = Added(s, l, f[k])
    BY ONLY <1>1, <1>2
  <1> QED BY <1>3 DEF l

(* Two histories that agree so far have the same parts so far.             *)
LEMMA PartUnique ==
    ASSUME NEW n \in Nat, NEW s, NEW t, \A k \in 1 .. n : s[k] = t[k],
           NEW i \in Nat, NEW j \in Nat, n <= i, n <= j,
           NEW f, NEW g, IsPart(s, i, f), IsPart(t, j, g)
    PROVE  f[n] = g[n]
  <1> DEFINE T == {k \in 0 .. n : f[k] = g[k]}
  <1>1. 0 \in T
    BY DEF IsPart
  <1>2. ASSUME NEW k \in T \cap Nat, k < n PROVE k + 1 \in T
    <2>1. k + 1 \in 1 .. n /\ k + 1 \in 1 .. i /\ k + 1 \in 1 .. j /\ k + 1 - 1 = k
      BY <1>2
    <2>2. f[k + 1] = Added(s, k + 1, f[k]) /\ g[k + 1] = Added(t, k + 1, g[k])
      BY <2>1, PartStep
    <2>3. f[k] = g[k] /\ s[k + 1] = t[k + 1]
      BY <1>2, <2>1
    <2>4. f[k + 1] = g[k + 1]
      BY <2>2, <2>3 DEF Added
    <2> QED BY <2>1, <2>4
  <1> HIDE DEF T
  <1>3. n \in T
    BY <1>1, <1>2, UpTo
  <1> QED BY <1>3 DEF T

(* The recursive definition has the parts as its value.                    *)
LEMMA UserPartIs ==
    ASSUME NEW s \in Seq(Notices)
    PROVE  IsPart(s, Len(s), UserPart(s))
  <1> DEFINE Rule(f) == f = [k \in 0 .. Len(s) |->
                 IF k = 0 THEN <<>>
                 ELSE IF s[k].type = "SC_NOTIFY" /\ s[k].name \in UserTopics
                        THEN Append(f[k - 1], <<s[k].name, s[k].data>>)
                        ELSE f[k - 1]]
  <1>1. UserPart(s) = CHOOSE f : Rule(f)
    BY Zenon DEF UserPart
  <1>2. Len(s) \in Nat
    BY LenProperties
  <1>3. ASSUME NEW f PROVE IsPart(s, Len(s), f) <=> Rule(f)
    <2> DEFINE h == [k \in 0 .. Len(s) |-> IF k = 0 THEN <<>> ELSE Added(s, k, f[k - 1])]
    <2>1. Rule(f) <=> f = h
      BY Zenon DEF Added
    <2>2. \A k \in 1 .. Len(s) : k \in 0 .. Len(s) /\ k # 0
      BY <1>2
    <2>3. \A k \in 0 .. Len(s) : k = 0 \/ k \in 1 .. Len(s)
      BY <1>2
    <2>4. 0 \in 0 .. Len(s)
      BY <1>2
    <2>5. ASSUME f = h PROVE IsPart(s, Len(s), f)
      <3>1. f = [k \in 0 .. Len(s) |-> f[k]]
        BY ONLY <2>5
      <3>2. f[0] = <<>>
        BY ONLY <2>4, <2>5
      <3>3. \A k \in 1 .. Len(s) : f[k] = Added(s, k, f[k - 1])
        BY ONLY <2>2, <2>5
      <3> QED BY ONLY <3>1, <3>2, <3>3 DEF IsPart
    <2>6. ASSUME IsPart(s, Len(s), f) PROVE f = h
      <3>1. f = [k \in 0 .. Len(s) |-> f[k]] /\ f[0] = <<>>
            /\ \A k \in 1 .. Len(s) : f[k] = Added(s, k, f[k - 1])
        BY ONLY <2>6 DEF IsPart
      <3>2. \A k \in 0 .. Len(s) : f[k] = h[k]
        BY ONLY <2>3, <3>1
      <3> QED BY ONLY <3>1, <3>2
    <2> QED BY <2>1, <2>5, <2>6
  <1> HIDE DEF Rule
  <1>4. \E f : Rule(f)
    BY <1>2, <1>3, PartExists
  <1> QED BY <1>1, <1>3, <1>4

Heard(s) == UserPart(s)[Len(s)]

(* Who was sent nothing has heard nothing.                                 *)
LEMMA HeardNothing == Heard(<<>>) = <<>>
  <1>1. <<>> \in Seq(Notices) /\ Len(<<>>) = 0
    BY EmptySeq
  <1> QED BY <1>1, UserPartIs DEF Heard, IsPart

(* What one more message adds to what was heard.                           *)
LEMMA HeardMore ==
    ASSUME NEW s \in Seq(Notices), NEW m \in Notices
    PROVE  Heard(Append(s, m)) =
             IF m.type = "SC_NOTIFY" /\ m.name \in UserTopics
               THEN Append(Heard(s), <<m.name, m.data>>)
               ELSE Heard(s)
  <1> DEFINE t == Append(s, m)
             n == Len(s)
             f == UserPart(s)
             g == UserPart(t)
  <1>1. /\ t \in Seq(Notices) /\ n \in Nat /\ Len(t) = n + 1
        /\ \A k \in 1 .. n : t[k] = s[k]
        /\ t[n + 1] = m
    BY Appended
  <1>2. IsPart(s, n, f) /\ IsPart(t, n + 1, g)
    BY <1>1, UserPartIs
  <1> HIDE DEF t, f, g
  <1>3. f[n] = g[n]
    <2>1. \A k \in 1 .. n : s[k] = t[k]
      BY <1>1
    <2>2. n + 1 \in Nat /\ n <= n /\ n <= n + 1
      BY <1>1
    <2> HIDE DEF n
    <2> QED BY <1>1, <1>2, <2>1, <2>2, PartUnique
  <1>4. g[n + 1] = Added(t, n + 1, g[n])
    <2>1. n + 1 \in 1 .. n + 1 /\ n + 1 - 1 = n
      BY <1>1
    <2> QED BY <1>2, <2>1 DEF IsPart
  <1>5. Heard(s) = f[n] /\ Heard(t) = g[n + 1]
    BY <1>1 DEF Heard, f, g
  <1>6. Added(t, n + 1, g[n]) =
           IF m.type = "SC_NOTIFY" /\ m.name \in UserTopics
             THEN Append(g[n], <<m.name, m.data>>)
             ELSE g[n]
    BY <1>1 DEF Added
  <1> QED BY <1>3, <1>4, <1>5, <1>6 DEF t

-----------------------------------------------------------------------------
(* The abstract state, read from the record that process() works on.       *)

StoredIn(b) == [n \in DOMAIN b.topics \cap UserTopics |-> b.topics[n]]

SubscribedIn(b) ==
    [c \in Conn |->
        IF peer[c] = "open"
          THEN {n \in UserTopics : \E i \in At(b.subscribers, n) : clients[i] = c}
          ELSE {}]

ReceivedIn(b) == [c \in Conn |-> Heard(b.sent[c])]

(* The descriptors in b's index of subscribers are connected.              *)
Known(b) == \A n \in Names : At(b.subscribers, n) \subseteq DOMAIN clients

(* What reaches the subscribers of a topic reaches those who have it.      *)
LEMMA ListeningIs ==
    ASSUME NEW b, Known(b), NEW n \in UserTopics \cap Names
    PROVE  \A c \in Conn : c \in Listening(At(b.subscribers, n)) <=> n \in SubscribedIn(b)[c]
  BY DEF Known, Listening, SubscribedIn

(* The topics of the users are topics.                                     *)
LEMMA UserTopicNames ==
    /\ UserTopics \subseteq Names
    /\ PubNames \subseteq UserTopics \cup {"topics", "stats", "version"}
    /\ SubNames \subseteq UserTopics \cup {"topics", "stats", "version"}
  BY NamesAssumption DEF UserTopics

(* Storing and sending on a user's topic is what PubSub calls publishing.  *)
LEMMA UserStore ==
    ASSUME NEW b, BrokerOK(b), Known(b), NEW n \in UserTopics, NEW d \in Data
    PROVE  LET a == SendToSubscribers(Store(b, n, d), n)
           IN  /\ StoredIn(a) = [m \in DOMAIN StoredIn(b) \cup {n} |->
                                    IF m = n THEN d ELSE StoredIn(b)[m]]
               /\ SubscribedIn(a) = SubscribedIn(b)
               /\ ReceivedIn(a) = [c \in Conn |-> IF n \in SubscribedIn(b)[c]
                                                    THEN Append(ReceivedIn(b)[c], <<n, d>>)
                                                    ELSE ReceivedIn(b)[c]]
               /\ Known(a)
  <1> DEFINE a == SendToSubscribers(Store(b, n, d), n)
             m == Notify(n, d)
  <1>1. n \in Names
    BY UserTopicNames
  <1>2. /\ BrokerOK(a) /\ SameSubscriptions(a, b)
        /\ a.topics = Put(b.topics, n, d)
        /\ \A c \in Conn : a.sent[c] = IF c \in Listening(At(b.subscribers, n))
                                         THEN Append(b.sent[c], m)
                                         ELSE b.sent[c]
    BY <1>1, StoredAndSent
  <1> HIDE DEF a
  <1>3. StoredIn(a) = [x \in DOMAIN StoredIn(b) \cup {n} |->
                          IF x = n THEN d ELSE StoredIn(b)[x]]
    BY <1>2 DEF StoredIn, Put
  <1>4. SubscribedIn(a) = SubscribedIn(b) /\ Known(a)
    BY <1>2 DEF SubscribedIn, Known, SameSubscriptions
  <1>5. ReceivedIn(a) = [c \in Conn |-> IF n \in SubscribedIn(b)[c]
                                          THEN Append(ReceivedIn(b)[c], <<n, d>>)
                                          ELSE ReceivedIn(b)[c]]
    <2> SUFFICES ASSUME NEW c \in Conn
                 PROVE  Heard(a.sent[c]) = IF n \in SubscribedIn(b)[c]
                                             THEN Append(Heard(b.sent[c]), <<n, d>>)
                                             ELSE Heard(b.sent[c])
      BY DEF ReceivedIn
    <2>1. b.sent[c] \in Seq(Notices)
      BY DEF BrokerOK
    <2>2. m \in Notices /\ m.type = "SC_NOTIFY" /\ m.name = n /\ m.data = d
      BY <1>1, NoticeTypes DEF Notify
    <2> HIDE DEF m
    <2>3. Heard(Append(b.sent[c], m)) = Append(Heard(b.sent[c]), <<n, d>>)
      BY <2>1, <2>2, HeardMore
    <2>4. c \in Listening(At(b.subscribers, n)) <=> n \in SubscribedIn(b)[c]
      BY <1>1, ListeningIs
    <2> QED BY <1>2, <2>3, <2>4
  <1> QED BY <1>3, <1>4, <1>5 DEF a

(* Storing and sending on a topic of the broker's own is nothing at all.   *)
LEMMA OwnStore ==
    ASSUME NEW b, BrokerOK(b), Known(b), NEW n \in Names \ UserTopics, NEW d \in Data
    PROVE  LET a == SendToSubscribers(Store(b, n, d), n)
           IN  /\ BrokerOK(a) /\ Known(a)
               /\ StoredIn(a) = StoredIn(b)
               /\ SubscribedIn(a) = SubscribedIn(b)
               /\ ReceivedIn(a) = ReceivedIn(b)
  <1> DEFINE a == SendToSubscribers(Store(b, n, d), n)
             m == Notify(n, d)
  <1>1. /\ BrokerOK(a) /\ SameSubscriptions(a, b)
        /\ a.topics = Put(b.topics, n, d)
        /\ \A c \in Conn : a.sent[c] = IF c \in Listening(At(b.subscribers, n))
                                         THEN Append(b.sent[c], m)
                                         ELSE b.sent[c]
    BY StoredAndSent
  <1> HIDE DEF a
  <1>2. StoredIn(a) = StoredIn(b)
    BY <1>1 DEF StoredIn, Put
  <1>3. SubscribedIn(a) = SubscribedIn(b) /\ Known(a)
    BY <1>1 DEF SubscribedIn, Known, SameSubscriptions
  <1>4. ReceivedIn(a) = ReceivedIn(b)
    <2> SUFFICES ASSUME NEW c \in Conn
                 PROVE  Heard(a.sent[c]) = Heard(b.sent[c])
      BY DEF ReceivedIn
    <2>1. b.sent[c] \in Seq(Notices)
      BY DEF BrokerOK
    <2>2. m \in Notices /\ m.name = n
      BY NoticeTypes DEF Notify
    <2> HIDE DEF m
    <2>3. Heard(Append(b.sent[c], m)) = Heard(b.sent[c])
      BY <2>1, <2>2, HeardMore
    <2> QED BY <1>1, <2>3
  <1> QED BY <1>1, <1>2, <1>3, <1>4 DEF a

(* So are the rebuilds of the topic list and of the statistics.            *)
LEMMA RebuildNothing ==
    ASSUME NEW b, BrokerOK(b), Known(b), NEW a \in {RebuildTopicsTopic(b), RebuildStatsTopic(b)}
    PROVE  /\ BrokerOK(a) /\ Known(a)
           /\ StoredIn(a) = StoredIn(b)
           /\ SubscribedIn(a) = SubscribedIn(b)
           /\ ReceivedIn(a) = ReceivedIn(b)
  <1>1. {"topics", "stats"} \subseteq Names \ UserTopics
    BY NamesAssumption DEF UserTopics
  <1>2. PICK n \in {"topics", "stats"}, d \in Data : a = SendToSubscribers(Store(b, n, d), n)
    BY RebuildsAreStores
  <1>3. n \in Names \ UserTopics
    BY <1>1
  <1> QED BY <1>2, <1>3, OwnStore

-----------------------------------------------------------------------------
(* Every step is one of PubSub, or none.  First the handlers.              *)

Idle == UNCHANGED <<StoredData, SubscribedTo, ReceivedData>>

(* The record that the handlers start from is the state.                   *)
LEMMA CountedNothing ==
    ASSUME IInv
    PROVE  /\ BrokerOK(Counted) /\ Known(Counted)
           /\ StoredIn(Counted) = StoredData
           /\ SubscribedIn(Counted) = SubscribedTo
           /\ ReceivedIn(Counted) = ReceivedData
  <1> DEFINE b == [subscribers |-> subscribers, topics |-> topics, sent |-> sent,
                   msgssent |-> msgssent, msgsrecvd |-> msgsrecvd + 1]
  <1>1. Counted = RebuildStatsTopic(b)
    BY DEF Broker, Counted
  <1>2. BrokerOK(b)
    BY DEF IInv, TypeOK, BrokerOK
  <1>3. Known(b)
    <2> SUFFICES ASSUME NEW n \in Names, NEW i \in At(subscribers, n)
                 PROVE  i \in DOMAIN clients
      BY DEF Known
    <2>1. i \in Fd
      BY AtType DEF IInv, TypeOK
    <2>2. n \in At(subtopics, i)
      BY <2>1 DEF IInv, SubscriptionsMirror
    <2> QED BY <2>2 DEF IInv, SubscriptionsMirror, At
  <1>4. /\ StoredIn(b) = StoredData
        /\ SubscribedIn(b) = SubscribedTo
        /\ ReceivedIn(b) = ReceivedData
    BY DEF StoredIn, StoredData, SubscribedIn, SubscribedTo, ReceivedIn, ReceivedData, Heard
  <1> HIDE DEF b
  <1> QED BY <1>1, <1>2, <1>3, <1>4, RebuildNothing

(* The state after a handler is the record that it ends with.              *)
LEMMA Committed ==
    ASSUME NEW i, NEW type, Receive(i, type), NEW b, Commit(b)
    PROVE  /\ StoredData' = StoredIn(b)
           /\ SubscribedTo' = SubscribedIn(b)
           /\ ReceivedData' = ReceivedIn(b)
  BY DEF Receive, Commit, sockVars, fdVars,
         StoredIn, StoredData, SubscribedIn, SubscribedTo, ReceivedIn, ReceivedData, Heard

(* CS_PUBLISH on a user's topic is a publication; on one of the broker's   *)
(* topics it is nothing that PubSub speaks of.                             *)
LEMMA PublishIs ==
    ASSUME IInv, NEW i \in Fd, HandlePublish(i)
    PROVE  Abstract!Next \/ Idle
  <1> DEFINE n == Request(i).name
             d == Request(i).data
             b == PublishTopic(Counted, n, d)
             p == SendToSubscribers(Store(Counted, n, d), n)
  <1>1. Receive(i, "CS_PUBLISH") /\ Commit(b)
    BY DEF HandlePublish
  <1>2. n \in PubNames /\ n \in Names /\ d \in Payloads /\ d \in Data
    BY <1>1, ReceiveKeeps, RequestTypes, NamesAssumption DEF Data
  <1>3. b \in {p, RebuildTopicsTopic(p)}
    BY DEF PublishTopic
  <1>4. /\ StoredData' = StoredIn(b)
        /\ SubscribedTo' = SubscribedIn(b)
        /\ ReceivedData' = ReceivedIn(b)
    BY <1>1, Committed
  <1> HIDE DEF n, d, b
  <1>5. /\ BrokerOK(Counted) /\ Known(Counted)
        /\ StoredIn(Counted) = StoredData
        /\ SubscribedIn(Counted) = SubscribedTo
        /\ ReceivedIn(Counted) = ReceivedData
    BY CountedNothing
  <1>6. BrokerOK(p)
    BY <1>2, <1>5, StoredAndSent
  <1>7. CASE n \in UserTopics
    <2>1. /\ StoredIn(p) = [m \in DOMAIN StoredData \cup {n} |->
                              IF m = n THEN d ELSE StoredData[m]]
          /\ SubscribedIn(p) = SubscribedTo
          /\ ReceivedIn(p) = [c \in Conn |-> IF n \in SubscribedTo[c]
                                               THEN Append(ReceivedData[c], <<n, d>>)
                                               ELSE ReceivedData[c]]
          /\ Known(p)
      <3>1. /\ StoredIn(p) = [m \in DOMAIN StoredIn(Counted) \cup {n} |->
                                IF m = n THEN d ELSE StoredIn(Counted)[m]]
            /\ SubscribedIn(p) = SubscribedIn(Counted)
            /\ ReceivedIn(p) = [c \in Conn |-> IF n \in SubscribedIn(Counted)[c]
                                   THEN Append(ReceivedIn(Counted)[c], <<n, d>>)
                                   ELSE ReceivedIn(Counted)[c]]
            /\ Known(p)
        BY <1>2, <1>5, <1>7, UserStore
      <3> HIDE DEF p
      <3> QED BY ONLY <1>5, <3>1
    <2> HIDE DEF p
    <2>2. /\ StoredIn(b) = StoredIn(p)
          /\ SubscribedIn(b) = SubscribedIn(p)
          /\ ReceivedIn(b) = ReceivedIn(p)
      BY <1>3, <1>6, <2>1, RebuildNothing
    <2>3. Abstract!Publish(n, d)
      BY ONLY <1>4, <2>1, <2>2 DEF Abstract!Publish
    <2> QED BY <1>2, <1>7, <2>3 DEF Abstract!Next
  <1>8. CASE n \notin UserTopics
    <2>1. /\ StoredIn(p) = StoredData
          /\ SubscribedIn(p) = SubscribedTo
          /\ ReceivedIn(p) = ReceivedData
          /\ Known(p)
      BY <1>2, <1>5, <1>8, OwnStore
    <2> HIDE DEF p
    <2>2. /\ StoredIn(b) = StoredIn(p)
          /\ SubscribedIn(b) = SubscribedIn(p)
          /\ ReceivedIn(b) = ReceivedIn(p)
      BY <1>3, <1>6, <2>1, RebuildNothing
    <2> QED BY <1>4, <2>1, <2>2 DEF Idle
  <1> QED BY <1>7, <1>8

(* CS_SUBSCRIBE is a subscription of the client, if it is still there and  *)
(* the topic is a user's.                                                  *)
LEMMA SubscribeIs ==
    ASSUME IInv, NEW i \in Fd, HandleSubscribe(i)
    PROVE  Abstract!Next \/ Idle
  <1> DEFINE n == Request(i).name
             e == clients[i]
             b == SubscribeTo(Counted, i, n)
  <1>1. Receive(i, "CS_SUBSCRIBE") /\ Commit(b)
    BY DEF HandleSubscribe
  <1>2. n \in Names /\ i \in DOMAIN clients /\ e \in Conn
    BY <1>1, ReceiveKeeps, RequestTypes, NamesAssumption
  <1>3. /\ StoredData' = StoredIn(b)
        /\ SubscribedTo' = SubscribedIn(b)
        /\ ReceivedData' = ReceivedIn(b)
    BY <1>1, Committed
  <1> HIDE DEF n
  <1>4. /\ BrokerOK(Counted) /\ Known(Counted)
        /\ StoredIn(Counted) = StoredData
        /\ SubscribedIn(Counted) = SubscribedTo
        /\ ReceivedIn(Counted) = ReceivedData
    BY CountedNothing
  <1>5. /\ b.topics = Counted.topics
        /\ \A x : At(b.subscribers, x) = IF x = n THEN At(Counted.subscribers, n) \cup {i}
                                                  ELSE At(Counted.subscribers, x)
    BY <1>2, <1>4, SubscribeToOK
  <1>6. /\ n \in DOMAIN Counted.topics => Counted.topics[n] \in Data
        /\ \A c \in Conn : b.sent[c] =
              IF n \in DOMAIN Counted.topics /\ c \in Listening({i})
                THEN Append(Counted.sent[c], Notify(n, Counted.topics[n]))
                ELSE Counted.sent[c]
    BY <1>2, <1>4, SubscribedAndSent
  <1>7. \A c \in Conn : c \in Listening({i}) <=> c = e /\ peer[c] = "open"
    BY <1>2 DEF Listening
  <1> HIDE DEF b, e
  <1>8. StoredIn(b) = StoredData
    BY <1>4, <1>5 DEF StoredIn
  <1>9. \A c \in Conn : SubscribedIn(b)[c] =
           IF c = e /\ peer[c] = "open" /\ n \in UserTopics
             THEN SubscribedTo[c] \cup {n} ELSE SubscribedTo[c]
    <2> SUFFICES ASSUME NEW c \in Conn
                 PROVE  SubscribedIn(b)[c] =
                          IF c = e /\ peer[c] = "open" /\ n \in UserTopics
                            THEN SubscribedIn(Counted)[c] \cup {n} ELSE SubscribedIn(Counted)[c]
      BY <1>4
    <2>1. \A x : (\E j \in At(b.subscribers, x) : clients[j] = c) <=>
                    \/ \E j \in At(Counted.subscribers, x) : clients[j] = c
                    \/ x = n /\ c = e
      BY <1>5 DEF e
    <2> QED BY <2>1 DEF SubscribedIn
  <1>10. \A c \in Conn : ReceivedIn(b)[c] =
            IF c = e /\ peer[c] = "open" /\ n \in UserTopics /\ n \in DOMAIN StoredData
              THEN Append(ReceivedData[c], <<n, StoredData[n]>>) ELSE ReceivedData[c]
    <2>1. \A c \in Conn : /\ ReceivedIn(b)[c] = Heard(b.sent[c])
                          /\ ReceivedIn(Counted)[c] = Heard(Counted.sent[c])
      BY DEF ReceivedIn
    <2> SUFFICES ASSUME NEW c \in Conn
                 PROVE  Heard(b.sent[c]) =
                          IF c = e /\ peer[c] = "open" /\ n \in UserTopics
                                   /\ n \in DOMAIN StoredIn(Counted)
                            THEN Append(Heard(Counted.sent[c]), <<n, StoredIn(Counted)[n]>>)
                            ELSE Heard(Counted.sent[c])
      BY <1>4, <2>1
    <2> DEFINE m == Notify(n, Counted.topics[n])
    <2>2. n \in UserTopics => (n \in DOMAIN StoredIn(Counted) <=> n \in DOMAIN Counted.topics)
      BY DEF StoredIn
    <2>3. n \in DOMAIN StoredIn(Counted) => StoredIn(Counted)[n] = Counted.topics[n]
      BY DEF StoredIn
    <2>4. CASE n \in DOMAIN Counted.topics /\ c \in Listening({i})
      <3>1. Counted.sent[c] \in Seq(Notices)
        BY <1>4 DEF BrokerOK
      <3>2. /\ m \in Notices /\ m.type = "SC_NOTIFY"
            /\ m.name = n /\ m.data = Counted.topics[n]
        BY <1>2, <1>6, <2>4, NoticeTypes DEF Notify
      <3>3. b.sent[c] = Append(Counted.sent[c], m)
        BY <1>6, <2>4
      <3> HIDE DEF m
      <3>4. Heard(b.sent[c]) = IF n \in UserTopics
                                 THEN Append(Heard(Counted.sent[c]), <<n, Counted.topics[n]>>)
                                 ELSE Heard(Counted.sent[c])
        BY <3>1, <3>2, <3>3, HeardMore
      <3> QED BY <1>7, <2>2, <2>3, <2>4, <3>4
    <2>5. CASE ~(n \in DOMAIN Counted.topics /\ c \in Listening({i}))
      BY <1>6, <1>7, <2>2, <2>5
    <2> QED BY <2>4, <2>5
  <1>11. /\ SubscribedIn(b) = [c \in Conn |-> SubscribedIn(b)[c]]
         /\ ReceivedIn(b) = [c \in Conn |-> ReceivedIn(b)[c]]
         /\ SubscribedTo = [c \in Conn |-> SubscribedTo[c]]
         /\ ReceivedData = [c \in Conn |-> ReceivedData[c]]
    BY DEF SubscribedIn, ReceivedIn, SubscribedTo, ReceivedData
  <1>12. CASE peer[e] = "open" /\ n \in UserTopics
    <2>1. SubscribedTo' = [SubscribedTo EXCEPT ![e] = @ \cup {n}]
      BY ONLY <1>2, <1>3, <1>9, <1>11, <1>12
    <2>2. ReceivedData' = IF n \in DOMAIN StoredData
                            THEN [ReceivedData EXCEPT ![e] = Append(@, <<n, StoredData[n]>>)]
                            ELSE ReceivedData
      <3> DEFINE x == <<n, StoredData[n]>>
      <3>1. \A c \in Conn : ReceivedIn(b)[c] = IF c = e /\ n \in DOMAIN StoredData
                                                 THEN Append(ReceivedData[c], x)
                                                 ELSE ReceivedData[c]
        BY <1>10, <1>12
      <3> HIDE DEF x
      <3>2. ReceivedData' = IF n \in DOMAIN StoredData
                              THEN [ReceivedData EXCEPT ![e] = Append(@, x)]
                              ELSE ReceivedData
        BY ONLY <1>2, <1>3, <1>11, <3>1
      <3> QED BY <3>2 DEF x
    <2>3. Abstract!Subscribe(e, n)
      BY ONLY <1>3, <1>8, <2>1, <2>2 DEF Abstract!Subscribe
    <2> QED BY <1>2, <1>12, <2>3 DEF Abstract!Next
  <1>13. CASE ~(peer[e] = "open" /\ n \in UserTopics)
    <2>1. SubscribedIn(b) = SubscribedTo
      BY ONLY <1>9, <1>11, <1>13
    <2>2. ReceivedIn(b) = ReceivedData
      BY ONLY <1>10, <1>11, <1>13
    <2> QED BY <1>3, <1>8, <2>1, <2>2 DEF Idle
  <1> QED BY <1>12, <1>13

(* CS_KILLSERVER is nothing yet; CS_CLEARSERVER clears.                    *)
LEMMA KillClearIs ==
    ASSUME IInv, NEW i \in Fd, HandleKillServer(i) \/ HandleClearServer(i)
    PROVE  Abstract!Next \/ Idle
  <1> DEFINE b == [Counted EXCEPT !.topics = EmptyMap]
  <1>1. /\ BrokerOK(Counted)
        /\ StoredIn(Counted) = StoredData
        /\ SubscribedIn(Counted) = SubscribedTo
        /\ ReceivedIn(Counted) = ReceivedData
    BY CountedNothing
  <1>2. CASE HandleKillServer(i)
    <2>1. /\ StoredData' = StoredIn(Counted)
          /\ SubscribedTo' = SubscribedIn(Counted)
          /\ ReceivedData' = ReceivedIn(Counted)
      BY <1>2, Committed DEF HandleKillServer
    <2> QED BY <1>1, <2>1 DEF Idle
  <1>3. CASE HandleClearServer(i)
    <2>1. /\ StoredData' = StoredIn(b)
          /\ SubscribedTo' = SubscribedIn(b)
          /\ ReceivedData' = ReceivedIn(b)
      BY <1>3, Committed DEF HandleClearServer
    <2>2. /\ b.sent = Counted.sent /\ b.subscribers = Counted.subscribers
          /\ DOMAIN b.topics = {}
      <3>1. Counted = [subscribers |-> Counted.subscribers, topics |-> Counted.topics,
                       sent |-> Counted.sent, msgssent |-> Counted.msgssent,
                       msgsrecvd |-> Counted.msgsrecvd]
        BY <1>1 DEF BrokerOK
      <3> QED BY <3>1, EmptyMapOK
    <2> HIDE DEF b
    <2>3. StoredIn(b) = Abstract!Nowhere
      BY <2>2 DEF StoredIn, Abstract!Nowhere
    <2>4. SubscribedIn(b) = SubscribedIn(Counted) /\ ReceivedIn(b) = ReceivedIn(Counted)
      BY <2>2 DEF SubscribedIn, ReceivedIn
    <2>5. Abstract!Clear
      BY ONLY <1>1, <2>1, <2>3, <2>4 DEF Abstract!Clear
    <2> QED BY <2>5 DEF Abstract!Next
  <1> QED BY <1>2, <1>3

-----------------------------------------------------------------------------
(* The other steps.                                                        *)

(* Nobody is found under a topic but who is connected.                     *)
LEMMA SubscribersKnown ==
    ASSUME IInv
    PROVE  \A n \in UserTopics : \A i \in At(subscribers, n) :
              i \in DOMAIN clients /\ clients[i] \in Conn /\ n \in At(subtopics, i)
  <1> SUFFICES ASSUME NEW n \in UserTopics, NEW i \in At(subscribers, n)
               PROVE  i \in DOMAIN clients /\ clients[i] \in Conn /\ n \in At(subtopics, i)
    OBVIOUS
  <1>1. i \in Fd /\ n \in Names
    BY AtType, UserTopicNames DEF IInv, TypeOK
  <1>2. n \in At(subtopics, i)
    BY <1>1 DEF IInv, SubscriptionsMirror
  <1>3. i \in DOMAIN clients
    BY <1>2 DEF IInv, SubscriptionsMirror, At
  <1> QED BY <1>2, <1>3, Places

(* What the clients do is nothing, except that who goes leaves.            *)
LEMMA ClientIs ==
    ASSUME IInv, NEW c \in Conn,
           \/ ClientConnect(c) \/ ClientClose(c) \/ ClientReset(c)
           \/ \E m \in Requests : ClientSend(c, m)
    PROVE  Abstract!Next \/ Idle
  <1> USE DEF mapVars, fdVars
  <1>1. /\ sent' = sent /\ topics' = topics /\ subscribers' = subscribers
        /\ clients' = clients
    BY DEF ClientConnect, ClientClose, ClientReset, ClientSend
  <1>2. StoredData' = StoredData /\ ReceivedData' = ReceivedData
    BY <1>1 DEF StoredData, ReceivedData, UserPart
  <1>3. TypeOK
    BY DEF IInv
  <1>4. CASE ClientConnect(c)
    <2>1. \A d \in Conn : d # c => peer'[d] = peer[d]
      BY <1>3, <1>4 DEF TypeOK, ClientConnect
    <2>2. \A n \in UserTopics : \A i \in At(subscribers, n) : clients[i] # c
      BY <1>4, SubscribersKnown DEF IInv, OneOwner, ClientConnect
    <2>3. SubscribedTo' = SubscribedTo
      <3> SUFFICES ASSUME NEW d \in Conn PROVE SubscribedTo'[d] = SubscribedTo[d]
        BY DEF SubscribedTo
      <3>1. CASE d = c
        BY <1>1, <2>2, <3>1 DEF SubscribedTo
      <3>2. CASE d # c
        BY <1>1, <2>1, <3>2 DEF SubscribedTo
      <3> QED BY <3>1, <3>2
    <2> QED BY <1>2, <2>3 DEF Idle
  <1>5. CASE \E m \in Requests : ClientSend(c, m)
    <2>1. peer' = peer
      BY <1>5 DEF ClientSend
    <2>2. SubscribedTo' = SubscribedTo
      BY <1>1, <2>1 DEF SubscribedTo
    <2> QED BY <1>2, <2>2 DEF Idle
  <1>6. CASE ClientClose(c) \/ ClientReset(c)
    <2>1. \A d \in Conn : peer'[d] = IF d = c THEN "closed" ELSE peer[d]
      BY <1>3, <1>6 DEF TypeOK, ClientClose, ClientReset
    <2>2. SubscribedTo' = [SubscribedTo EXCEPT ![c] = {}]
      BY <1>1, <2>1 DEF SubscribedTo
    <2>3. Abstract!Leave(c)
      BY ONLY <1>2, <2>2 DEF Abstract!Leave
    <2> QED BY <2>3 DEF Abstract!Next
  <1> QED BY <1>4, <1>5, <1>6

(* select(), the end of a round and accept() are nothing.                  *)
LEMMA RoundIs ==
    ASSUME IInv, Select \/ NextRound \/ Accept
    PROVE  Idle
  <1> USE DEF sockVars, mapVars, fdVars
  <1>1. /\ sent' = sent /\ topics' = topics /\ subscribers' = subscribers
        /\ peer' = peer
    BY DEF Select, NextRound, Accept
  <1>2. StoredData' = StoredData /\ ReceivedData' = ReceivedData
    BY <1>1 DEF StoredData, ReceivedData, UserPart
  <1>3. \A i \in DOMAIN clients : clients'[i] = clients[i]
    BY DEF Select, NextRound, Accept, Put, Free
  <1>4. SubscribedTo' = SubscribedTo
    <2>1. \A n \in UserTopics : \A i \in At(subscribers, n) : clients'[i] = clients[i]
      BY <1>3, SubscribersKnown
    <2> QED BY <1>1, <2>1 DEF SubscribedTo
  <1> QED BY <1>2, <1>4 DEF Idle

(* A connection that the broker closes has left before: its far end is     *)
(* closed, or it would still have something to be read.                    *)
LEMMA CloseClientIs ==
    ASSUME IInv, NEW i \in Fd, CloseClient(i)
    PROVE  Idle
  <1> DEFINE e == clients[i]
  <1> USE DEF CloseClient, sockVars
  <1>1. StoredData' = StoredData /\ ReceivedData' = ReceivedData
    BY DEF StoredData, ReceivedData, UserPart
  <1>2. peer[e] = "closed" /\ peer' = peer
    BY DEF Turn, IInv, RoundIsFresh, Readable
  <1>3. \A j \in DOMAIN clients : j # i => clients'[j] = clients[j]
    BY DEF Erase
  <1>4. \A n : At(subscribers', n) = IF n \in At(subtopics, i) THEN At(subscribers, n) \ {i}
                                                               ELSE At(subscribers, n)
    BY DEF Unsubscribed, At
  <1>5. \A n \in UserTopics : At(subscribers', n) = At(subscribers, n) \ {i}
    BY <1>4, SubscribersKnown
  <1>6. SubscribedTo' = SubscribedTo
    <2> SUFFICES ASSUME NEW c \in Conn PROVE SubscribedTo'[c] = SubscribedTo[c]
      BY DEF SubscribedTo
    <2>1. CASE peer[c] = "open"
      <3>1. c # e
        BY <1>2, <2>1
      <3>2. \A n \in UserTopics : (\E j \in At(subscribers', n) : clients'[j] = c)
                                      <=> \E j \in At(subscribers, n) : clients[j] = c
        BY <1>3, <1>5, <3>1, SubscribersKnown
      <3> QED BY <1>2, <2>1, <3>2 DEF SubscribedTo
    <2>2. CASE peer[c] # "open"
      BY <1>2, <2>2 DEF SubscribedTo
    <2> QED BY <2>1, <2>2
  <1> QED BY <1>1, <1>6 DEF Idle

(* SC_KILLCLIENT is nothing that PubSub speaks of.                         *)
LEMMA ShutdownIs ==
    ASSUME IInv, Shutdown, UNCHANGED <<sockVars, fdVars>>
    PROVE  Idle
  <1> USE DEF sockVars, fdVars
  <1>1. topics' = topics /\ subscribers' = subscribers
    BY ShutdownOK
  <1>2. \A c \in Conn : sent'[c] = IF c \in Listening(DOMAIN clients)
                                     THEN Append(sent[c], KillClient) ELSE sent[c]
    <2>1. \A c \in Conn : BaseSend(Broker, DOMAIN clients, KillClient).sent[c] =
                             IF c \in Listening(DOMAIN clients)
                               THEN Append(Broker.sent[c], KillClient)
                               ELSE Broker.sent[c]
      BY BrokerTyped, BaseSendSent
    <2>2. Broker.sent = sent
      BY DEF Broker
    <2> QED BY <2>1, <2>2 DEF Shutdown, Commit
  <1>3. \A c \in Conn : Heard(sent'[c]) = Heard(sent[c])
    <2> SUFFICES ASSUME NEW c \in Conn PROVE Heard(Append(sent[c], KillClient)) = Heard(sent[c])
      BY <1>2
    <2>1. sent[c] \in Seq(Notices) /\ KillClient \in Notices
      BY NoticeTypes DEF IInv, TypeOK
    <2>2. KillClient.type # "SC_NOTIFY"
      BY DEF KillClient
    <2> QED BY <2>1, <2>2, HeardMore
  <1>4. ReceivedData' = ReceivedData
    <2>1. /\ ReceivedData = [c \in Conn |-> Heard(sent[c])]
          /\ ReceivedData' = [c \in Conn |-> Heard(sent'[c])]
      BY DEF ReceivedData, Heard
    <2> QED BY ONLY <1>3, <2>1
  <1>5. StoredData' = StoredData /\ SubscribedTo' = SubscribedTo
    BY <1>1 DEF StoredData, SubscribedTo
  <1> QED BY <1>4, <1>5 DEF Idle

(* The end of the broker stops everything.                                 *)
LEMMA GoneIs ==
    ASSUME Gone
    PROVE  Abstract!Next
  <1> USE DEF Gone
  <1>1. ReceivedData' = ReceivedData
    BY DEF ReceivedData, UserPart
  <1>2. StoredData' = Abstract!Nowhere
    BY EmptyMapOK DEF StoredData, Abstract!Nowhere
  <1>3. SubscribedTo' = [c \in Conn |-> {}]
    BY EmptyMapOK DEF SubscribedTo
  <1>4. Abstract!Stop
    BY ONLY <1>1, <1>2, <1>3 DEF Abstract!Stop
  <1> QED BY <1>4 DEF Abstract!Next

-----------------------------------------------------------------------------
(* Theorem.                                                                *)

(* The constructor's topics are none of the users'.                        *)
LEMMA InitIs == Init => Abstract!Init
  <1> SUFFICES ASSUME Init PROVE Abstract!Init
    OBVIOUS
  <1> DEFINE t == Put(EmptyMap, "version", VersionData)
             s == [c \in Conn |-> <<>>]
             a == [subscribers |-> EmptyMap, topics |-> t, sent |-> s,
                   msgssent |-> 0, msgsrecvd |-> 0]
             b == RebuildStatsTopic(a)
             e == InitialBroker
  <1>1. /\ IsMap(EmptyMap, Names, Data) /\ DOMAIN EmptyMap = {}
        /\ IsMap(EmptyMap, Names, SUBSET Fd) /\ IsFiniteSet(DOMAIN EmptyMap)
        /\ \A x : At(EmptyMap, x) = {}
    BY EmptyMapOK, FS_EmptySet
  <1>2. DOMAIN t = {"version"}
    BY <1>1 DEF Put
  <1>3. BrokerOK(a) /\ Known(a)
    <2>1. IsMap(t, Names, Data)
      BY <1>1, PutMap, NamesAssumption, DataTypes
    <2>2. s \in [Conn -> Seq(Notices)]
      BY EmptySeq
    <2> HIDE DEF t, s
    <2> QED BY <1>1, <2>1, <2>2 DEF BrokerOK, Known
  <1>4. StoredIn(a) = Abstract!Nowhere
    <2>1. DOMAIN a.topics \cap UserTopics = {}
      BY <1>2 DEF UserTopics
    <2> HIDE DEF a
    <2> QED BY <2>1 DEF StoredIn, Abstract!Nowhere
  <1>5. SubscribedIn(a) = [c \in Conn |-> {}]
    BY <1>1 DEF SubscribedIn
  <1>6. ReceivedIn(a) = [c \in Conn |-> <<>>]
    BY HeardNothing DEF ReceivedIn
  <1>7. e = RebuildTopicsTopic(b)
    BY DEF InitialBroker
  <1> HIDE DEF a, e
  <1>8. /\ BrokerOK(b) /\ Known(b) /\ StoredIn(b) = StoredIn(a)
        /\ SubscribedIn(b) = SubscribedIn(a) /\ ReceivedIn(b) = ReceivedIn(a)
    BY <1>3, RebuildNothing
  <1> HIDE DEF b
  <1>9. /\ StoredIn(e) = StoredIn(b) /\ SubscribedIn(e) = SubscribedIn(b)
        /\ ReceivedIn(e) = ReceivedIn(b)
    BY <1>7, <1>8, RebuildNothing
  <1>10. StoredData = StoredIn(e) /\ SubscribedTo = SubscribedIn(e)
         /\ ReceivedData = ReceivedIn(e)
    BY DEF Init, StoredIn, StoredData, SubscribedIn, SubscribedTo, ReceivedIn,
           ReceivedData, Heard, e
  <1> QED BY ONLY <1>4, <1>5, <1>6, <1>8, <1>9, <1>10 DEF Abstract!Init

(* Every step of the broker, the clients and the kernel is one of PubSub,  *)
(* or leaves its state as it is.                                           *)
LEMMA NextIs == IInv /\ [Next]_vars => [Abstract!Next]_(Abstract!vars)
  <1> SUFFICES ASSUME IInv, [Next]_vars PROVE Abstract!Next \/ Idle
    BY DEF Idle, Abstract!vars
  <1>1. CASE UNCHANGED vars
    BY <1>1 DEF vars, sockVars, mapVars, fdVars, Idle,
                StoredData, SubscribedTo, ReceivedData, UserPart
  <1>2. ASSUME NEW c \in Conn,
               \/ ClientConnect(c) \/ ClientClose(c) \/ ClientReset(c)
               \/ \E m \in Requests : ClientSend(c, m)
        PROVE  Abstract!Next \/ Idle
    BY <1>2, ClientIs
  <1>3. ASSUME NEW i \in Fd, Serve(i)
        PROVE  Abstract!Next \/ Idle
    BY <1>3, PublishIs, SubscribeIs, KillClearIs, CloseClientIs DEF Serve
  <1>4. ASSUME NEW s \in Signals, Signal(s)
        PROVE  Idle
    BY <1>4, ShutdownIs DEF Signal
  <1>5. CASE Select \/ NextRound \/ Accept
    BY <1>5, RoundIs
  <1>6. CASE KillRequested
    BY <1>6, ShutdownIs DEF KillRequested
  <1>7. CASE Exit \/ AcceptFails
    BY <1>7, GoneIs DEF Exit, AcceptFails
  <1> QED BY <1>1, <1>2, <1>3, <1>4, <1>5, <1>6, <1>7 DEF Next, ServerStep

(* The broker implements publish and subscribe: each publication on a      *)
(* user's topic goes once to each subscriber that is still there and to    *)
(* nobody else, in the step that stores it, and the stored data to who     *)
(* subscribes and to him alone (process(), publish() and subscribe()).     *)
THEOREM BrokerImplementsPubSub == Spec => ImplementsPubSub
  <1>1. Init => Abstract!Init
    BY InitIs
  <1>2. IInv /\ [Next]_vars => [Abstract!Next]_(Abstract!vars)
    BY NextIs
  <1> QED BY <1>1, <1>2, Invariance, PTL DEF Spec, ImplementsPubSub, Abstract!Spec
=============================================================================

------------------------------- MODULE Server -------------------------------
(***************************************************************************)
(* The broker: class MyServer of server.cpp on top of class TCPServer of   *)
(* tcp.h.  One thread runs select(), then serves every descriptor of the   *)
(* returned set once, in ascending order; a signal handler may take over   *)
(* between two of those steps.                                             *)
(*                                                                         *)
(* A connection is a member of Conn and is used once; the descriptor by    *)
(* which the broker knows it is a member of Fd and is used again after it  *)
(* is closed.  Requests and notices are kept as histories: reqs[c] is all  *)
(* that c has written, of which the broker has read the first handled[c];  *)
(* sent[c] is all that the broker has written to c.  Messages are whole    *)
(* here: how they are cut into bytes is not this module's subject.         *)
(***************************************************************************)
EXTENDS Messages, Sequences, FiniteSets

CONSTANTS Conn,        \* the connections that clients may open
          Fd,          \* the descriptors the broker may hand to them
          ListenFd,    \* the descriptor of the listening socket
          Signals,     \* the signals that may arrive
          MaxRequests  \* bound: requests written by all clients together

ASSUME ServerAssumption ==
    /\ IsFiniteSet(Fd) /\ Fd \subseteq Nat
    /\ ListenFd \in Nat /\ \A i \in Fd : ListenFd < i
    /\ Signals \subseteq {"SIGINT", "SIGQUIT"}
    /\ MaxRequests \in Nat

VARIABLES
    \* sockets, as the kernel keeps them
    peer,         \* the client's end: "unused", "open" or "closed"
    backlog,      \* connections waiting for accept()
    reqs, handled, sent,
    \* TCPServer
    clients,      \* fd -> connection
    active,       \* active_fd_set
    ready,        \* what is left of read_fd_set in this round
    \* MyServer
    subscribers,  \* topic name -> set of fds
    subtopics,    \* fd -> set of topic names
    topics,       \* topic name -> data
    msgssent, msgsrecvd, serverKill,
    \* control
    phase,        \* "select", "dispatch", "sleep" (in shutdown()) or "stopped"
    signals       \* the signals whose handlers are running

sockVars == <<peer, backlog, reqs>>
mapVars  == <<subscribers, topics, sent, msgssent, msgsrecvd>>
fdVars   == <<clients, active>>
vars == <<sockVars, handled, mapVars, fdVars, ready, subtopics, serverKill,
          phase, signals>>

Running == phase \in {"select", "dispatch"}

-----------------------------------------------------------------------------
(* The part of the state that process() works on, passed along the calls   *)
(* it makes and stored at the end of the handler.                          *)

Broker == [subscribers |-> subscribers, topics |-> topics, sent |-> sent,
           msgssent |-> msgssent, msgsrecvd |-> msgsrecvd]

Commit(b) ==
    /\ subscribers' = b.subscribers
    /\ topics' = b.topics
    /\ sent' = b.sent
    /\ msgssent' = b.msgssent
    /\ msgsrecvd' = b.msgsrecvd

(* basesend() to every descriptor of F: a connection whose far end is gone *)
(* answers EPIPE, and the message is dropped and still counted.            *)
Listening(F) == {clients[i] : i \in F \cap DOMAIN clients}
                    \cap {c \in Conn : peer[c] = "open"}

BaseSend(b, F, m) ==
    [b EXCEPT !.sent = [c \in Conn |-> IF c \in Listening(F)
                                         THEN Append(b.sent[c], m)
                                         ELSE b.sent[c]],
              !.msgssent = @ + Cardinality(F)]

(* The send loop of publish() and publishInternal(); operator[] leaves an  *)
(* entry for the topic even when nobody subscribes to it.                  *)
SendToSubscribers(b, n) ==
    LET F == At(b.subscribers, n)
    IN  BaseSend([b EXCEPT !.subscribers = Put(@, n, F)],
                 F, Notify(n, b.topics[n]))

Store(b, n, d) == [b EXCEPT !.topics = Put(@, n, d)]

RebuildTopicsTopic(b) ==
    SendToSubscribers(
        Store(b, "topics", TopicList(DOMAIN b.topics \cup {"topics"})),
        "topics")

RebuildStatsTopic(b) ==
    SendToSubscribers(
        Store(b, "stats", Stats(Cardinality(DOMAIN b.subscribers),
                                b.msgssent, b.msgsrecvd)),
        "stats")

(* Mutant: a new topic does not make a new list.                           *)
PublishUnlisted(b, n, d) == SendToSubscribers(Store(b, n, d), n)

PublishTopic(b, n, d) ==
    LET pushed == SendToSubscribers(Store(b, n, d), n)
    IN  IF n \in DOMAIN b.topics THEN pushed ELSE RebuildTopicsTopic(pushed)

(* Mutant: the stored data is not sent to the new subscriber.              *)
SubscribeSilently(b, i, n) ==
    [b EXCEPT !.subscribers = Put(@, n, At(@, n) \cup {i})]

(* Mutant: the stored data is sent to all subscribers again.               *)
SubscribeAgain(b, i, n) ==
    LET added == [b EXCEPT !.subscribers = Put(@, n, At(@, n) \cup {i})]
    IN  IF n \in DOMAIN b.topics
          THEN BaseSend(added, At(added.subscribers, n), Notify(n, b.topics[n]))
          ELSE added

SubscribeTo(b, i, n) ==
    LET added == [b EXCEPT !.subscribers = Put(@, n, At(@, n) \cup {i})]
    IN  IF n \in DOMAIN b.topics
          THEN BaseSend(added, {i}, Notify(n, b.topics[n]))
          ELSE added

-----------------------------------------------------------------------------
(* The constructor: the version topic, then the two topics that the broker *)
(* rebuilds, in this order.                                                *)
InitialBroker ==
    RebuildTopicsTopic(RebuildStatsTopic(
        [subscribers |-> EmptyMap,
         topics |-> Put(EmptyMap, "version", VersionData),
         sent |-> [c \in Conn |-> <<>>],
         msgssent |-> 0, msgsrecvd |-> 0]))

Init ==
    /\ peer = [c \in Conn |-> "unused"]
    /\ backlog = <<>>
    /\ reqs = [c \in Conn |-> <<>>]
    /\ handled = [c \in Conn |-> 0]
    /\ clients = EmptyMap
    /\ active = {ListenFd}
    /\ ready = {}
    /\ subtopics = EmptyMap
    /\ subscribers = InitialBroker.subscribers
    /\ topics = InitialBroker.topics
    /\ sent = InitialBroker.sent
    /\ msgssent = InitialBroker.msgssent
    /\ msgsrecvd = InitialBroker.msgsrecvd
    /\ serverKill = FALSE
    /\ phase = "select"
    /\ signals = {}

-----------------------------------------------------------------------------
(* What the clients and the kernel do to the sockets.                      *)

Pending(c) == handled[c] < Len(reqs[c])

Written == {w \in Conn \X (1 .. MaxRequests) : w[2] <= Len(reqs[w[1]])}

(* connect(): complete as soon as the kernel has queued it, and refused    *)
(* when the listening socket is closed.                                    *)
ClientConnect(c) ==
    /\ phase # "stopped"
    /\ peer[c] = "unused"
    /\ peer' = [peer EXCEPT ![c] = "open"]
    /\ backlog' = Append(backlog, c)
    /\ UNCHANGED <<reqs, handled, mapVars, fdVars, ready, subtopics,
                   serverKill, phase, signals>>

ClientSend(c, m) ==
    /\ phase # "stopped"
    /\ peer[c] = "open"
    /\ Cardinality(Written) < MaxRequests
    /\ reqs' = [reqs EXCEPT ![c] = Append(@, m)]
    /\ UNCHANGED <<peer, backlog, handled, mapVars, fdVars, ready, subtopics,
                   serverKill, phase, signals>>

(* The client closes or exits; what it wrote stays readable.               *)
ClientClose(c) ==
    /\ phase # "stopped"
    /\ peer[c] = "open"
    /\ peer' = [peer EXCEPT ![c] = "closed"]
    /\ UNCHANGED <<backlog, reqs, handled, mapVars, fdVars, ready, subtopics,
                   serverKill, phase, signals>>

(* The connection is reset: what the broker has not read yet is lost.      *)
ClientReset(c) ==
    /\ phase # "stopped"
    /\ peer[c] = "open"
    /\ Pending(c)
    /\ peer' = [peer EXCEPT ![c] = "closed"]
    /\ reqs' = [reqs EXCEPT ![c] = SubSeq(@, 1, handled[c])]
    /\ UNCHANGED <<backlog, handled, mapVars, fdVars, ready, subtopics,
                   serverKill, phase, signals>>

-----------------------------------------------------------------------------
(* TCPServer::update().                                                    *)

Readable(i) ==
    IF i = ListenFd THEN backlog # <<>>
    ELSE Pending(clients[i]) \/ peer[clients[i]] = "closed"

Select ==
    /\ phase = "select"
    /\ {i \in active : Readable(i)} # {}
    /\ ready' = {i \in active : Readable(i)}
    /\ phase' = "dispatch"
    /\ UNCHANGED <<sockVars, handled, mapVars, fdVars, subtopics, serverKill,
                   signals>>

(* The for loop over the descriptors has come to i.                        *)
Turn(i) ==
    /\ phase = "dispatch"
    /\ i \in ready
    /\ \A j \in ready : i <= j

Free == Fd \ DOMAIN clients

(* Mutant: the new descriptor is not added to active_fd_set.               *)
AcceptUnwatched ==
    /\ Turn(ListenFd)
    /\ \E i \in Free :
        /\ \A j \in Free : i <= j
        /\ clients' = Put(clients, i, Head(backlog))
    /\ backlog' = Tail(backlog)
    /\ ready' = ready \ {ListenFd}
    /\ UNCHANGED <<peer, reqs, handled, mapVars, active, subtopics, serverKill,
                   phase, signals>>

Accept ==
    /\ Turn(ListenFd)
    /\ \E i \in Free :
        /\ \A j \in Free : i <= j
        /\ clients' = Put(clients, i, Head(backlog))
        /\ active' = active \cup {i}
    /\ backlog' = Tail(backlog)
    /\ ready' = ready \ {ListenFd}
    /\ UNCHANGED <<peer, reqs, handled, mapVars, subtopics, serverKill, phase,
                   signals>>

(* Mutant: the descriptor stays among the subscribers of its topics.       *)
Remembered(i) == subscribers

(* unsubscribe(), called by onClose().                                     *)
Unsubscribed(i) ==
    [n \in DOMAIN subscribers |-> IF n \in At(subtopics, i)
                                    THEN subscribers[n] \ {i}
                                    ELSE subscribers[n]]

(* Mutant: onClose() is not called.                                        *)
CloseQuietly(i) ==
    /\ Turn(i)
    /\ i # ListenFd
    /\ ~Pending(clients[i])
    /\ clients' = Erase(clients, i)
    /\ active' = active \ {i}
    /\ ready' = ready \ {i}
    /\ UNCHANGED <<sockVars, handled, mapVars, subtopics, serverKill, phase,
                   signals>>

(* Mutant: the descriptor stays in active_fd_set.                          *)
CloseWatched(i) ==
    /\ Turn(i)
    /\ i # ListenFd
    /\ ~Pending(clients[i])
    /\ clients' = Erase(clients, i)
    /\ subscribers' = Unsubscribed(i)
    /\ subtopics' = Erase(subtopics, i)
    /\ ready' = ready \ {i}
    /\ UNCHANGED <<sockVars, handled, topics, sent, msgssent, msgsrecvd, active,
                   serverKill, phase, signals>>

CloseClient(i) ==
    /\ Turn(i)
    /\ i # ListenFd
    /\ ~Pending(clients[i])
    /\ clients' = Erase(clients, i)
    /\ active' = active \ {i}
    /\ subscribers' = Unsubscribed(i)
    /\ subtopics' = Erase(subtopics, i)
    /\ ready' = ready \ {i}
    /\ UNCHANGED <<sockVars, handled, topics, sent, msgssent, msgsrecvd,
                   serverKill, phase, signals>>

-----------------------------------------------------------------------------
(* MyServer::process(), one action per request type.                       *)

Request(i) == LET c == clients[i] IN reqs[c][handled[c] + 1]

(* What every request does before it is looked at.                         *)
Counted == RebuildStatsTopic([Broker EXCEPT !.msgsrecvd = @ + 1])

Receive(i, type) ==
    /\ Turn(i)
    /\ i # ListenFd
    /\ Pending(clients[i])
    /\ Request(i).type = type
    /\ handled' = [handled EXCEPT ![clients[i]] = @ + 1]
    /\ ready' = ready \ {i}
    /\ UNCHANGED <<sockVars, fdVars, phase, signals>>

HandlePublish(i) ==
    /\ Receive(i, "CS_PUBLISH")
    /\ Commit(PublishTopic(Counted, Request(i).name, Request(i).data))
    /\ UNCHANGED <<subtopics, serverKill>>

HandleSubscribe(i) ==
    /\ Receive(i, "CS_SUBSCRIBE")
    /\ Commit(SubscribeTo(Counted, i, Request(i).name))
    /\ subtopics' = Put(subtopics, i, At(subtopics, i) \cup {Request(i).name})
    /\ UNCHANGED serverKill

HandleKillServer(i) ==
    /\ Receive(i, "CS_KILLSERVER")
    /\ Commit(Counted)
    /\ serverKill' = TRUE
    /\ UNCHANGED subtopics

HandleClearServer(i) ==
    /\ Receive(i, "CS_CLEARSERVER")
    /\ Commit([Counted EXCEPT !.topics = EmptyMap])
    /\ UNCHANGED <<subtopics, serverKill>>

-----------------------------------------------------------------------------
(* The loop of server(), shutdown() and the end of the process.            *)

(* Mutant: only the subscribers are told.                                  *)
ShutdownSubscribers == Commit(BaseSend(Broker, DOMAIN subtopics, KillClient))

Shutdown == Commit(BaseSend(Broker, DOMAIN clients, KillClient))

(* Mutant: the loop goes on although the kill has been asked for.          *)
NextRoundRegardless ==
    /\ phase = "dispatch" /\ ready = {}
    /\ phase' = "select"
    /\ UNCHANGED <<sockVars, handled, mapVars, fdVars, ready, subtopics,
                   serverKill, signals>>

(* The round is over: go on, or shut down if a request has asked for it.   *)
NextRound ==
    /\ phase = "dispatch" /\ ready = {} /\ ~serverKill
    /\ phase' = "select"
    /\ UNCHANGED <<sockVars, handled, mapVars, fdVars, ready, subtopics,
                   serverKill, signals>>

KillRequested ==
    /\ phase = "dispatch" /\ ready = {} /\ serverKill
    /\ Shutdown
    /\ phase' = "sleep"
    /\ UNCHANGED <<sockVars, handled, fdVars, ready, subtopics, serverKill,
                   signals>>

(* SIGINT or SIGQUIT: the handler shuts down and never returns.  It may    *)
(* interrupt another shutdown() that is asleep; a signal is blocked only   *)
(* during its own handler.                                                 *)
Signal(s) ==
    /\ phase # "stopped"
    /\ s \notin signals
    /\ signals' = signals \cup {s}
    /\ Shutdown
    /\ phase' = "sleep"
    /\ UNCHANGED <<sockVars, handled, fdVars, ready, subtopics, serverKill>>

(* The broker's objects and sockets are gone.                              *)
Gone ==
    /\ phase' = "stopped"
    /\ clients' = EmptyMap /\ active' = {} /\ ready' = {}
    /\ backlog' = <<>>
    /\ subscribers' = EmptyMap /\ subtopics' = EmptyMap /\ topics' = EmptyMap
    /\ UNCHANGED <<peer, reqs, handled, sent, msgssent, msgsrecvd, serverKill,
                   signals>>

(* "delete serv" after the sleep, and exit.                                *)
Exit == phase = "sleep" /\ Gone

(* No descriptor is left: accept() fails, and the exception ends server(). *)
AcceptFails == Turn(ListenFd) /\ Free = {} /\ Gone

-----------------------------------------------------------------------------
Serve(i) ==
    \/ HandlePublish(i) \/ HandleSubscribe(i)
    \/ HandleKillServer(i) \/ HandleClearServer(i)
    \/ CloseClient(i)

ServerStep ==
    \/ Select \/ Accept \/ AcceptFails
    \/ \E i \in Fd : Serve(i)
    \/ NextRound \/ KillRequested \/ Exit

Next ==
    \/ ServerStep
    \/ \E s \in Signals : Signal(s)
    \/ \E c \in Conn :
        \/ ClientConnect(c) \/ ClientClose(c) \/ ClientReset(c)
        \/ \E m \in Requests : ClientSend(c, m)

Spec == Init /\ [][Next]_vars

(* The broker's thread is always scheduled; clients and users may stop.    *)
FairSpec == Spec /\ WF_vars(ServerStep)

-----------------------------------------------------------------------------
TypeOK ==
    /\ peer \in [Conn -> {"unused", "open", "closed"}]
    /\ backlog \in Seq(Conn)
    /\ reqs \in [Conn -> Seq(Requests)]
    /\ handled \in [Conn -> Nat]
    /\ sent \in [Conn -> Seq(Notices)]
    /\ IsMap(clients, Fd, Conn)
    /\ active \subseteq Fd \cup {ListenFd}
    /\ ready \subseteq Fd \cup {ListenFd}
    /\ IsMap(subscribers, Names, SUBSET Fd)
    /\ IsMap(subtopics, Fd, SUBSET Names)
    /\ IsMap(topics, Names, Data)
    /\ msgssent \in Nat /\ msgsrecvd \in Nat
    /\ serverKill \in BOOLEAN
    /\ phase \in {"select", "dispatch", "sleep", "stopped"}
    /\ signals \subseteq {"SIGINT", "SIGQUIT"}

(* The two indexes of the subscriptions, by topic and by descriptor, are   *)
(* each other's inverse, and none of them knows a descriptor that is not   *)
(* connected: what a closed client subscribed to is forgotten before its   *)
(* descriptor can be handed to the next one (subscribe(), unsubscribe()).  *)
SubscriptionsMirror ==
    /\ \A i \in Fd : \A n \in Names :
          i \in At(subscribers, n) <=> n \in At(subtopics, i)
    /\ DOMAIN subtopics \subseteq DOMAIN clients

(* The descriptors that select() watches are those of the connected        *)
(* clients; and what is left of a round is still connected and still has   *)
(* something to read, whatever was served, closed or accepted since the    *)
(* select(): clients[i] in update() never makes up an entry for a closed   *)
(* descriptor, and neither accept() nor read() blocks the only thread.     *)
RoundIsFresh ==
    /\ active = DOMAIN clients \cup (IF phase = "stopped" THEN {} ELSE {ListenFd})
    /\ ready \subseteq active
    /\ \A i \in ready : Readable(i)

(* A connection is in one place: it waits for accept() or has one          *)
(* descriptor, and both only after connect(); so what is served to one     *)
(* descriptor of a round takes nothing from another (TCPServer::update()). *)
OneOwner ==
    /\ \A i, j \in DOMAIN clients : clients[i] = clients[j] => i = j
    /\ \A k, l \in 1 .. Len(backlog) : backlog[k] = backlog[l] => k = l
    /\ \A k \in 1 .. Len(backlog) : \A i \in DOMAIN clients : backlog[k] # clients[i]
    /\ \A k \in 1 .. Len(backlog) : peer[backlog[k]] # "unused"
    /\ \A i \in DOMAIN clients : peer[clients[i]] # "unused"

(* The names that c has subscribed to and the broker has read it.          *)
Asked(c) == {n \in SubNames :
               \E k \in 1 .. handled[c] : reqs[c][k] = Subscribe(n)}

(* d is what the last notification about n in s brought.                   *)
LatestIs(s, n, d) ==
    \E k \in 1 .. Len(s) :
        /\ s[k].type = "SC_NOTIFY" /\ s[k].name = n /\ s[k].data = d
        /\ \A l \in k + 1 .. Len(s) : s[l].type = "SC_NOTIFY" => s[l].name # n

(* README, "any subscribers subscribed to that topic receive the new data. *)
(* The broker also stores the last data on a topic, and sends it to any    *)
(* new subscriber": the last that a connected subscriber was sent on a     *)
(* topic is what the broker holds for it, whoever published, cleared or    *)
(* disconnected in between and whichever descriptor it was given.          *)
SubscribersUpToDate ==
    \A i \in DOMAIN clients :
        LET c == clients[i]
        IN  peer[c] = "open" =>
              \A n \in Asked(c) \cap DOMAIN topics : LatestIs(sent[c], n, topics[n])

(* Nothing is sent on a topic to a client that has not subscribed to it;   *)
(* the subscriptions of the descriptor's previous owner do not count.      *)
OnlyWhatWasAsked ==
    \A c \in Conn : \A k \in 1 .. Len(sent[c]) :
        sent[c][k].type = "SC_NOTIFY" => sent[c][k].name \in Asked(c)

(* README, "topics : a list of all published topics": unless a client has  *)
(* put data of its own in the place of the list, the stored list names     *)
(* every stored topic, also those that come back one by one after          *)
(* clearServer().                                                          *)
TopicListComplete ==
    "topics" \in DOMAIN topics =>
        topics["topics"] \in Payloads \cup {TopicList(DOMAIN topics)}

(* The broker as publish and subscribe, for the topics that it does not    *)
(* rebuild itself: every step of it is one of module PubSub or none.       *)
UserTopics == (PubNames \cup SubNames) \ {"topics", "stats", "version"}

StoredData == [n \in DOMAIN topics \cap UserTopics |-> topics[n]]

SubscribedTo ==
    [c \in Conn |->
        IF peer[c] = "open"
          THEN {n \in UserTopics : \E i \in At(subscribers, n) : clients[i] = c}
          ELSE {}]

(* What the first k messages of s brought on those topics, in their order. *)
UserPart(s) ==
    LET part[k \in 0 .. Len(s)] ==
            IF k = 0 THEN <<>>
            ELSE IF s[k].type = "SC_NOTIFY" /\ s[k].name \in UserTopics
                   THEN Append(part[k - 1], <<s[k].name, s[k].data>>)
                   ELSE part[k - 1]
    IN  part

ReceivedData == [c \in Conn |-> UserPart(sent[c])[Len(sent[c])]]

Abstract == INSTANCE PubSub WITH
    Client <- Conn, Topic <- UserTopics, Data <- Payloads,
    stored <- StoredData, subscribed <- SubscribedTo, received <- ReceivedData

(* README, "any subscribers subscribed to that topic receive the new data":*)
(* each publication goes once to each of them and to nobody else, in the   *)
(* step that stores it, and the stored data to who subscribes and to him   *)
(* alone - whatever the broker sends about its own topics in between.      *)
ImplementsPubSub == Abstract!Spec

(* SC_KILLCLIENT is sent only by a broker that is shutting down, to every  *)
(* client it has accepted, and no notification follows it.                 *)
KillEndsTheStream ==
    /\ \A c \in Conn : \A k \in 1 .. Len(sent[c]) :
          sent[c][k] = KillClient =>
             ~Running /\ \A l \in k .. Len(sent[c]) : sent[c][l] = KillClient
    /\ phase = "sleep" =>
          \A i \in DOMAIN clients :
             LET c == clients[i]
             IN  peer[c] = "open" =>
                   sent[c] # <<>> /\ sent[c][Len(sent[c])] = KillClient

(* Whatever a client writes is served, or the broker is gone: the select   *)
(* loop comes round to every descriptor (TCPServer::update()).             *)
RequestsServed ==
    \A c \in Conn : Pending(c) ~> (~Pending(c) \/ phase = "stopped")

(* killServer() ends the broker, with the clients that are connected by    *)
(* then told so.                                                           *)
KillStopsServer == serverKill ~> phase = "stopped"

(* The stored list of topics is complete, and never without the broker's   *)
(* other topic: process() rebuilds the statistics first.                   *)
ListOK(t) ==
    /\ "topics" \in DOMAIN t => "stats" \in DOMAIN t
    /\ "topics" \in DOMAIN t => t["topics"] \in Payloads \cup {TopicList(DOMAIN t)}

(* The inductive invariant under the safety properties that are proved:    *)
(* a request is read from its own connection (OneOwner), whose descriptor  *)
(* is known to be connected (RoundIsFresh), and the topic list is built    *)
(* where the statistics already are (ListOK).                              *)
IInv ==
    /\ TypeOK /\ OneOwner /\ RoundIsFresh /\ SubscriptionsMirror
    /\ IsFiniteSet(DOMAIN subscribers)
    /\ ListOK(topics)

(* subtopics holds what the owner of the descriptor has asked for, and a   *)
(* connection that has no descriptor yet has asked for nothing.            *)
AsksKept ==
    /\ \A i \in DOMAIN clients : At(subtopics, i) = Asked(clients[i])
    /\ \A c \in Conn : handled[c] <= Len(reqs[c])
    /\ \A c \in Conn : peer[c] = "unused" => handled[c] = 0
    /\ \A k \in 1 .. Len(backlog) : handled[backlog[k]] = 0

(* The inductive invariant for what is sent: the broker goes by subtopics  *)
(* and subscribers, the promises are about what the client has asked for.  *)
StreamInv ==
    /\ IInv /\ AsksKept
    /\ KillEndsTheStream /\ OnlyWhatWasAsked /\ SubscribersUpToDate
=============================================================================

------------------------------- MODULE Client -------------------------------
(***************************************************************************)
(* A client process between init() and destroy(): client.cpp on top of     *)
(* class TCPClient of tcp.h.  The threads of the application call the API; *)
(* the thread that init() has started reads what the broker sends.  They   *)
(* share the topics and one condition variable under one mutex, and the    *)
(* flag "running", which is read outside it.                               *)
(*                                                                         *)
(* What a thread does between lock() and unlock() is one step, except that *)
(* pthread_cond_wait() ends it and begins another; what it does before     *)
(* lock() is a step of its own.  Of the broker there is what this client   *)
(* can tell of it: what it stores under each name, the subscriptions that  *)
(* it has read, and the notices that it sends, which are numbered.  A      *)
(* publication makes a new version of a topic; the answer to subscribe()   *)
(* brings the version that is stored, once more if it was there before.    *)
(***************************************************************************)
EXTENDS Messages, Sequences, FiniteSets

CONSTANTS Thread,     \* the threads of the application
          Object,     \* the addresses of Topic objects
          MaxNotices, \* bound: notifications that the broker sends
          MaxVersion, \* bound: publications of all clients
          MaxAsked    \* bound: subscriptions on the way to the broker

ASSUME ClientAssumption ==
    /\ Object \subseteq Nat \ {0}  \* NULL is no address
    /\ MaxNotices \in Nat /\ MaxVersion \in Nat /\ MaxAsked \in Nat

VARIABLES
    running,
    client,     \* the MyClient object: "live" or "deleted"
    waittopic,  \* its member: a name, AnyTopic ("") or NoTopic (NULL)
    topics,     \* topic name -> Topic object
    state,      \* Topic object -> its state
    held,       \* Topic object -> the number of the notice it holds, or 0
    net,        \* where the network thread is
    pc,         \* where each thread of the application is
    call,       \* the arguments of its call
    obj,        \* the Topic object that a waiting get() has a pointer to
    got,        \* the last notice it was returned, by topic name
    waiters,    \* the threads in pthread_cond_wait() that are not signalled
    mutex,      \* "free" between two steps, or "lost": locked for ever
    inbound,    \* what the broker has sent and the client has not read
    asked,      \* the names of the CS_SUBSCRIBEs that it has not read
    known,      \* the names for which it has this client as a subscriber
    stored,     \* topic name -> the version that it has stored; 0: none
    published,  \* the last version of any topic
    notices,    \* history: the notifications that it has sent to the client
    server,     \* the broker's end: "up", "killed", "closed" or "reset"
    alive       \* the process has not died

netVars    == <<running, client, net>>
topicVars  == <<topics, state, held>>
threadVars == <<pc, call, obj, got>>
brokerVars == <<known, stored, published, notices>>
wireVars   == <<inbound, asked, brokerVars, server>>
vars == <<netVars, topicVars, threadVars, wireVars, waittopic, waiters, mutex, alive>>

NoTopic  == [null |-> TRUE]
AnyTopic == [null |-> FALSE]
Topic(n) == [name |-> n]

GetWaits == {"GET_WAITNONE", "GET_WAITANY", "GET_WAITNEW"}

NoCall   == [name |-> "none", wait |-> "GET_WAITNONE"]
NoObject == 0

Waiting(t) == pc[t] \in {"waitdata", "waitnew", "waitany"}

count == Len(notices)

Init ==
    /\ running = TRUE
    /\ client = "live"
    /\ waittopic = NoTopic
    /\ topics = EmptyMap
    /\ state = [o \in Object |-> "TOPIC_NODATA"]
    /\ held = [o \in Object |-> 0]
    /\ net = "test"
    /\ pc = [t \in Thread |-> "idle"]
    /\ call = [t \in Thread |-> NoCall]
    /\ obj = [t \in Thread |-> NoObject]
    /\ got = [t \in Thread |-> [n \in SubNames |-> 0]]
    /\ waiters = {}
    /\ mutex = "free"
    /\ inbound = <<>> /\ asked = <<>>
    /\ known = {} /\ stored = [n \in SubNames |-> 0]
    /\ published = 0 /\ notices = <<>>
    /\ server = "up"
    /\ alive = TRUE

-----------------------------------------------------------------------------
(* The broker and the connection.                                          *)

(* A notice with a version of topic n, in answer to a subscription or not. *)
Note(n, v, answer) ==
    /\ count < MaxNotices
    /\ notices' = Append(notices, [name |-> n, version |-> v, answer |-> answer])
    /\ inbound' = Append(inbound, Notify(n, UserData(count + 1)))

(* Somebody publishes: the broker stores it, and sends it if this client   *)
(* is among the subscribers.                                               *)
ServerPublish(n) ==
    /\ server = "up" /\ published < MaxVersion
    /\ published' = published + 1
    /\ stored' = [stored EXCEPT ![n] = published']
    /\ IF n \in known THEN Note(n, published', FALSE) ELSE UNCHANGED <<notices, inbound>>
    /\ UNCHANGED <<netVars, topicVars, threadVars, asked, known, server, waittopic,
                   waiters, mutex, alive>>

(* The broker reads a CS_SUBSCRIBE, the first for a name or another: "now  *)
(* send any data we already have for that topic".                          *)
ServerAnswer(n) ==
    /\ server = "up" /\ asked # <<>> /\ n = Head(asked)
    /\ asked' = Tail(asked)
    /\ known' = known \cup {n}
    /\ IF stored[n] # 0 THEN Note(n, stored[n], TRUE) ELSE UNCHANGED <<notices, inbound>>
    /\ UNCHANGED <<netVars, topicVars, threadVars, stored, published, server, waittopic,
                   waiters, mutex, alive>>

(* CS_CLEARSERVER, of this client or another.                              *)
ServerClear ==
    /\ server = "up"
    /\ stored' = [n \in SubNames |-> 0]
    /\ UNCHANGED <<netVars, topicVars, threadVars, inbound, asked, known, published,
                   notices, server, waittopic, waiters, mutex, alive>>

(* It ends: it reads no more requests, and what it has stored is gone.     *)
BrokerEnds ==
    /\ asked' = <<>> /\ known' = {}
    /\ stored' = [n \in SubNames |-> 0] /\ published' = 0
    /\ UNCHANGED notices

ServerKill ==
    /\ server = "up"
    /\ server' = "killed"
    /\ inbound' = Append(inbound, KillClient)
    /\ BrokerEnds
    /\ UNCHANGED <<netVars, topicVars, threadVars, waittopic, waiters, mutex, alive>>

(* The broker's end is closed, after a shutdown or without one; what the   *)
(* client has not read is lost if the connection is reset by that.         *)
ServerGone ==
    /\ server \in {"up", "killed"}
    /\ \/ server' = "closed" /\ UNCHANGED inbound
       \/ server' = "reset" /\ inbound # <<>> /\ inbound' = <<>>
    /\ BrokerEnds
    /\ UNCHANGED <<netVars, topicVars, threadVars, waittopic, waiters, mutex, alive>>

-----------------------------------------------------------------------------
(* threadfunc() and MyClient::process().                                   *)

(* lock(): nobody gets past it once the mutex is left locked.              *)
Lock == alive /\ mutex = "free"

NetTest ==
    /\ alive /\ net = "test"
    /\ net' = IF running THEN "read" ELSE "leave"
    /\ UNCHANGED <<running, client, topicVars, threadVars, wireVars, waittopic,
                   waiters, mutex, alive>>

(* "waittopic && ..." and then pthread_cond_signal(), which wakes a thread *)
(* if one is waiting.                                                      *)
SignalIf(condition) ==
    IF condition
      THEN /\ waittopic' = NoTopic
           /\ IF waiters = {} THEN UNCHANGED waiters
              ELSE \E t \in waiters : waiters' = waiters \ {t}
      ELSE UNCHANGED <<waittopic, waiters>>

Read ==
    /\ Lock /\ net = "read" /\ inbound # <<>>
    /\ net' = "test"
    /\ inbound' = Tail(inbound)
    /\ UNCHANGED <<client, topics, threadVars, asked, brokerVars, server, mutex, alive>>

(* Mutant: the thread that waits is not signalled.                         *)
ProcessKillQuietly ==
    /\ Read
    /\ Head(inbound).type = "SC_KILLCLIENT"
    /\ running' = FALSE
    /\ UNCHANGED <<state, held, waittopic, waiters>>

ProcessKill ==
    /\ Read
    /\ Head(inbound).type = "SC_KILLCLIENT"
    /\ running' = FALSE
    /\ SignalIf(waittopic # NoTopic)
    /\ UNCHANGED <<state, held>>

ProcessNotify ==
    /\ Read
    /\ Head(inbound).type = "SC_NOTIFY"
    /\ LET n    == Head(inbound).name
           here == {topics[m] : m \in {n} \cap DOMAIN topics}
       IN  /\ held' = [o \in Object |-> IF o \in here THEN Head(inbound).data.val
                                                    ELSE held[o]]
           /\ state' = [o \in Object |-> IF o \in here THEN "TOPIC_CHANGED"
                                                     ELSE state[o]]
           /\ SignalIf(here # {} /\ waittopic \in {AnyTopic, Topic(n)})
    /\ UNCHANGED running

(* Mutant: update() returns false when nothing has come.                   *)
NetIdle ==
    /\ alive /\ net = "read"
    /\ inbound = <<>>
    /\ net' = "leave"
    /\ UNCHANGED <<running, client, topicVars, threadVars, wireVars, waittopic,
                   waiters, mutex, alive>>

(* update() returns false: the port is closed.                             *)
NetClosed ==
    /\ alive /\ net = "read"
    /\ inbound = <<>> /\ server \in {"closed", "reset"}
    /\ net' = "leave"
    /\ UNCHANGED <<running, client, topicVars, threadVars, wireVars, waittopic,
                   waiters, mutex, alive>>

NetDelete ==
    /\ alive /\ net = "leave"
    /\ client' = "deleted"
    /\ net' = "deleted"
    /\ UNCHANGED <<running, topicVars, threadVars, wireVars, waittopic, waiters,
                   mutex, alive>>

NetStop ==
    /\ alive /\ net = "deleted"
    /\ running' = FALSE
    /\ net' = "ended"
    /\ UNCHANGED <<client, topicVars, threadVars, wireVars, waittopic, waiters,
                   mutex, alive>>

-----------------------------------------------------------------------------
(* The API up to lock(): the check that the client is running.  A call     *)
(* that fails it changes nothing: it throws, or returns a topic in state   *)
(* TOPIC_NOTCONNECTED.                                                     *)

Enter(t, where) ==
    /\ alive /\ pc[t] = "idle" /\ running
    /\ pc' = [pc EXCEPT ![t] = where]
    /\ UNCHANGED <<netVars, topicVars, obj, got, wireVars, waittopic, waiters,
                   mutex, alive>>

CallGet(t, n, w) ==
    /\ Enter(t, "get")
    /\ call' = [call EXCEPT ![t] = [name |-> n, wait |-> w]]

CallSubscribe(t, n) ==
    /\ Len(asked) < MaxAsked
    /\ Enter(t, "subscribe")
    /\ call' = [call EXCEPT ![t].name = n]

(* publish(), killServer() and clearServer().                              *)
CallRequest(t) == Enter(t, "request") /\ UNCHANGED call

-----------------------------------------------------------------------------
(* get(), from lock() on.                                                  *)

Return(t) ==
    /\ pc' = [pc EXCEPT ![t] = "idle"]
    /\ call' = [call EXCEPT ![t] = NoCall]
    /\ obj' = [obj EXCEPT ![t] = NoObject]

(* Mutant: the topic stays changed.                                        *)
ReturnChanged(t, o) ==
    /\ Return(t)
    /\ got' = [got EXCEPT ![t][call[t].name] = held[o]]
    /\ waittopic' = NoTopic
    /\ UNCHANGED <<topicVars, waiters>>

(* The end of get(): a copy of the topic, which is then unchanged.         *)
ReturnTopic(t, o) ==
    /\ Return(t)
    /\ got' = [got EXCEPT ![t][call[t].name] = held[o]]
    /\ state' = [state EXCEPT ![o] = "TOPIC_UNCHANGED"]
    /\ waittopic' = NoTopic
    /\ UNCHANGED <<topics, held, waiters>>

(* Mutant: waittopic is not set.                                           *)
CondWaitUnnamed(t, where, o, w) ==
    /\ pc' = [pc EXCEPT ![t] = where]
    /\ obj' = [obj EXCEPT ![t] = o]
    /\ waittopic' = NoTopic
    /\ waiters' = waiters \cup {t}
    /\ UNCHANGED <<topicVars, call, got>>

CondWait(t, where, o, w) ==
    /\ pc' = [pc EXCEPT ![t] = where]
    /\ obj' = [obj EXCEPT ![t] = o]
    /\ waittopic' = w
    /\ waiters' = waiters \cup {t}
    /\ UNCHANGED <<topicVars, call, got>>

(* TOPIC_NOTFOUND: not subscribed.                                         *)
GetNotFound(t) ==
    /\ Lock /\ pc[t] = "get"
    /\ call[t].name \notin DOMAIN topics
    /\ Return(t)
    /\ UNCHANGED <<netVars, topicVars, got, wireVars, waittopic, waiters,
                   mutex, alive>>

Found(t, o) ==
    /\ Lock /\ pc[t] = "get"
    /\ call[t].name \in DOMAIN topics /\ o = topics[call[t].name]
    /\ UNCHANGED <<netVars, wireVars, mutex, alive>>

(* TOPIC_NOTFOUND again: subscribed, no data, and no wait.                 *)
GetNoData(t, o) ==
    /\ Found(t, o)
    /\ state[o] = "TOPIC_NODATA" /\ call[t].wait = "GET_WAITNONE"
    /\ Return(t)
    /\ waittopic' = NoTopic
    /\ UNCHANGED <<topicVars, got, waiters>>

GetTopic(t, o) ==
    /\ Found(t, o)
    /\ state[o] # "TOPIC_NODATA"
    /\ call[t].wait = "GET_WAITNEW" => state[o] = "TOPIC_CHANGED"
    /\ ReturnTopic(t, o)

GetWait(t, o) ==
    /\ Found(t, o)
    /\ \/ /\ state[o] = "TOPIC_NODATA" /\ call[t].wait # "GET_WAITNONE"
          /\ CondWait(t, "waitdata", o, Topic(call[t].name))
       \/ /\ state[o] = "TOPIC_UNCHANGED" /\ call[t].wait = "GET_WAITNEW"
          /\ CondWait(t, "waitnew", o, Topic(call[t].name))

(* The conditions of the two wait loops.                                   *)
MustWait(t) ==
    \/ pc[t] = "waitdata" /\ state[obj[t]] = "TOPIC_NODATA"
    \/ pc[t] = "waitnew"  /\ state[obj[t]] # "TOPIC_CHANGED"

(* The thread has left pthread_cond_wait() and holds the mutex again.      *)
Woken(t) ==
    /\ Lock /\ Waiting(t) /\ t \notin waiters
    /\ UNCHANGED <<netVars, wireVars, mutex, alive>>

(* TOPIC_NOTCONNECTED.                                                     *)
GetAborted(t) ==
    /\ Woken(t) /\ pc[t] # "waitany" /\ ~running
    /\ Return(t)
    /\ waittopic' = NoTopic
    /\ UNCHANGED <<topicVars, got, waiters>>

(* Mutant: waittopic is set before the loop, not in it.                    *)
GetWaitUnnamed(t) ==
    /\ Woken(t) /\ pc[t] # "waitany" /\ running /\ MustWait(t)
    /\ CondWait(t, pc[t], obj[t], NoTopic)

GetWaitAgain(t) ==
    /\ Woken(t) /\ pc[t] # "waitany" /\ running /\ MustWait(t)
    /\ CondWait(t, pc[t], obj[t], Topic(call[t].name))

GetWaited(t) ==
    /\ Woken(t) /\ pc[t] # "waitany" /\ running /\ ~MustWait(t)
    /\ ReturnTopic(t, obj[t])

-----------------------------------------------------------------------------
(* waitForAny(), which checks nothing.                                     *)

WaitForAny(t) ==
    /\ Lock /\ pc[t] = "idle"
    /\ CondWait(t, "waitany", NoObject, AnyTopic)
    /\ UNCHANGED <<netVars, wireVars, mutex, alive>>

AnyArrived(t) ==
    /\ Woken(t) /\ pc[t] = "waitany"
    /\ pc' = [pc EXCEPT ![t] = "idle"]
    /\ waittopic' = NoTopic
    /\ UNCHANGED <<topicVars, call, obj, got, waiters>>

(* pthread_cond_wait() may return without a signal.                        *)
SpuriousWakeup(t) ==
    /\ alive /\ t \in waiters
    /\ waiters' = waiters \ {t}
    /\ UNCHANGED <<netVars, topicVars, threadVars, wireVars, waittopic,
                   mutex, alive>>

-----------------------------------------------------------------------------
(* The requests: subscribe(), publish() and simpleMsg(), from lock() on.   *)

(* The addresses that a topic of S has, or a thread that waits.            *)
InUse(S) == {topics[m] : m \in S} \cup {obj[t] : t \in Thread}

(* Mutant: the topic's entry is made without a Topic object.               *)
NullTopic(n) ==
    /\ topics' = Put(topics, n, NoObject)
    /\ UNCHANGED <<state, held>>

(* A new object; what nothing points to any more is forgotten.             *)
NewTopic(n) ==
    LET rest == InUse(DOMAIN topics \ {n})
    IN  \E o \in Object \ InUse(DOMAIN topics) :
            /\ \A p \in Object \ InUse(DOMAIN topics) : o <= p
            /\ topics' = Put(topics, n, o)
            /\ state' = [p \in Object |-> IF p \in rest THEN state[p] ELSE "TOPIC_NODATA"]
            /\ held' = [p \in Object |-> IF p \in rest THEN held[p] ELSE 0]

Sends(t, kind) ==
    /\ Lock /\ pc[t] = kind
    /\ pc' = [pc EXCEPT ![t] = "idle"]
    /\ call' = [call EXCEPT ![t] = NoCall]
    /\ UNCHANGED <<netVars, obj, got, inbound, brokerVars, server, waittopic, waiters, alive>>

Subscribed(t) ==
    /\ Sends(t, "subscribe")
    /\ NewTopic(call[t].name)
    /\ asked' = IF server = "up" THEN Append(asked, call[t].name) ELSE asked
    /\ UNCHANGED mutex

Requested(t) ==
    /\ Sends(t, "request")
    /\ UNCHANGED <<topicVars, asked, mutex>>

(* Every write() to the closed socket of a deleted object fails, and       *)
(* basesend() throws "cannot send" over the unlock(), and in subscribe()   *)
(* when the new topic is in its place.                                     *)
RequestThrows(t) ==
    /\ client = "deleted"
    /\ \/ Sends(t, "subscribe") /\ NewTopic(call[t].name)
       \/ Sends(t, "request") /\ UNCHANGED topicVars
    /\ mutex' = "lost"
    /\ UNCHANGED asked

(* The thread is about to use *client, with the mutex: it reads or writes  *)
(* its members (an idle one in waitForAny(), which checks nothing), or     *)
(* writes to its socket.                                                   *)
UsesClient(t) ==
    \/ pc[t] \in {"idle", "subscribe", "request"}
    \/ pc[t] = "get" /\ call[t].name \in DOMAIN topics
    \/ Waiting(t) /\ t \notin waiters

(* What else may come of that: SIGPIPE, if the broker's end is closed; or  *)
(* anything, if the object is deleted - the process dies, or (the actions  *)
(* above) the memory is still as it was.                                   *)
Dies(t) ==
    /\ Lock
    /\ \/ pc[t] \in {"subscribe", "request"} /\ server \in {"closed", "reset"}
       \/ UsesClient(t) /\ client = "deleted"
    /\ alive' = FALSE
    /\ pc' = [s \in Thread |-> "idle"] /\ waiters' = {}
    /\ call' = [s \in Thread |-> NoCall] /\ obj' = [s \in Thread |-> NoObject]
    /\ UNCHANGED <<netVars, topicVars, got, wireVars, waittopic, mutex>>

-----------------------------------------------------------------------------
Net == NetTest \/ ProcessKill \/ ProcessNotify \/ NetClosed \/ NetDelete \/ NetStop

Locked(t) ==
    \/ GetNotFound(t)
    \/ \E o \in Object : GetNoData(t, o) \/ GetTopic(t, o) \/ GetWait(t, o)
    \/ GetAborted(t) \/ GetWaitAgain(t) \/ GetWaited(t) \/ AnyArrived(t)
    \/ Subscribed(t) \/ Requested(t) \/ RequestThrows(t)

Calls(t) ==
    \/ \E n \in SubNames : CallSubscribe(t, n) \/ \E w \in GetWaits : CallGet(t, n, w)
    \/ CallRequest(t) \/ WaitForAny(t)

Next ==
    \/ Net
    \/ \E t \in Thread : Locked(t) \/ Calls(t) \/ SpuriousWakeup(t) \/ Dies(t)
    \/ \E n \in SubNames : ServerPublish(n) \/ ServerAnswer(n)
    \/ ServerClear \/ ServerKill \/ ServerGone

Spec == Init /\ [][Next]_vars

(* The network thread, and a thread that is inside a call and not waiting  *)
(* for a signal, are scheduled; nothing obliges the application to call,   *)
(* the broker to send, or the system to wake a thread without a signal.    *)
FairSpec == Spec /\ WF_vars(Net) /\ \A t \in Thread : WF_vars(Locked(t))

-----------------------------------------------------------------------------
TypeOK ==
    /\ running \in BOOLEAN /\ alive \in BOOLEAN
    /\ client \in {"live", "deleted"}
    /\ waittopic \in {NoTopic, AnyTopic} \cup {Topic(n) : n \in SubNames}
    /\ IsMap(topics, SubNames, Object)
    /\ state \in [Object -> {"TOPIC_NODATA", "TOPIC_UNCHANGED", "TOPIC_CHANGED"}]
    /\ held \in [Object -> Nat]
    /\ net \in {"test", "read", "leave", "deleted", "ended"}
    /\ pc \in [Thread -> {"idle", "get", "subscribe", "request",
                          "waitdata", "waitnew", "waitany"}]
    /\ call \in [Thread -> [name : SubNames \cup {"none"}, wait : GetWaits]]
    /\ obj \in [Thread -> Object \cup {NoObject}]
    /\ got \in [Thread -> [SubNames -> Nat]]
    /\ waiters \subseteq {t \in Thread : Waiting(t)}
    /\ inbound \in Seq([type : {"SC_NOTIFY"}, name : SubNames, data : [val : Nat]]
                         \cup {KillClient})
    /\ mutex \in {"free", "lost"}
    /\ asked \in Seq(SubNames) /\ known \subseteq SubNames
    /\ published \in Nat /\ stored \in [SubNames -> Nat]
    /\ notices \in Seq([name : SubNames, version : Nat, answer : BOOLEAN])
    /\ server \in {"up", "killed", "closed", "reset"}

(* A call of get() ends and returns a topic with its data.                 *)
Returns(t) == GetWaited(t) \/ \E o \in Object : GetTopic(t, o)

(* README, "GET_WAITNEW waits until new data arrives", "GET_WAITANY waits  *)
(* until the topic contains data": a topic that get() returns has data,    *)
(* and data of this topic; they are never an older version than what the   *)
(* same thread was returned before.  With GET_WAITNEW a notice has come    *)
(* since, and its data are a newer version, unless it is the answer to a   *)
(* subscription: subscribe() makes the topic new to everybody, though the  *)
(* broker may store what it has sent before.  All this whatever other      *)
(* threads have read, subscribed to again or been woken for in between.    *)
Advances(t, n, old, new) ==
    /\ new \in 1 .. count /\ notices[new].name = n
    /\ old > 0 => notices[old].version <= notices[new].version
    /\ call[t].wait = "GET_WAITNEW" =>
          /\ old < new
          /\ old > 0 => notices[new].answer \/ notices[old].version < notices[new].version

ReadsAdvance ==
    [][\A t \in Thread : Returns(t) =>
          LET n == call[t].name IN Advances(t, n, got[t][n], got'[t][n])]_vars

(* The client object is deleted, the process can die of a call that has    *)
(* passed the check of running, and one that throws can leave the mutex    *)
(* locked, only when the broker has ended: as long as it is up every call  *)
(* finds what it has checked.                                              *)
ConnectedWhileUp ==
    server = "up" =>
        /\ alive /\ running /\ mutex = "free"
        /\ client = "live" /\ net \in {"test", "read"}

(* notify(): "if we were waiting for this topic, or for any topic,         *)
(* signal": a thread that waits for the topic of a notice does not go on   *)
(* waiting when the notice is processed.                                   *)
NotifyWakesWaiters ==
    [][\A t \in waiters :
          ProcessNotify /\ (pc[t] = "waitany" \/ Head(inbound).name = call[t].name)
             => t \notin waiters']_vars

(* A thread waits no longer than until the network thread has come to a    *)
(* notice for it that the broker has sent, unless the connection is reset. *)
NoticeEndsWait ==
    \A t \in Thread :
        (/\ Waiting(t)
         /\ \E k \in 1 .. Len(inbound) :
               /\ inbound[k] # KillClient
               /\ inbound[k].name \in DOMAIN topics
               /\ pc[t] = "waitany" \/ inbound[k].name = call[t].name)
           ~> (~Waiting(t) \/ ~alive \/ server = "reset")

(* process(): SC_KILLCLIENT wakes the thread that waits, and no other      *)
(* thread of the client has to.                                            *)
KillEndsWait ==
    \A t \in Thread :
        (Waiting(t) /\ \E k \in 1 .. Len(inbound) : inbound[k] = KillClient)
           ~> (~Waiting(t) \/ ~alive \/ server = "reset")

-----------------------------------------------------------------------------
(* The inductive invariant, and its parts.                                 *)

(* A thread that waits in get() has a Topic object of the topic it named.  *)
Gets(t) == pc[t] \in {"waitdata", "waitnew"}

CallsOK ==
    \A t \in Thread :
        /\ pc[t] = "subscribe" => call[t].name \in SubNames
        /\ Gets(t) => obj[t] \in Object /\ call[t].name \in DOMAIN topics

NoKillWhileUp ==
    server = "up" => \A k \in 1 .. Len(inbound) : inbound[k] # KillClient

(* No two topics share an object, and an object that a thread waits for is *)
(* not given to another topic.                                             *)
OwnObjects ==
    \A m \in DOMAIN topics :
        /\ \A n \in DOMAIN topics : topics[m] = topics[n] => m = n
        /\ \A t \in Thread : Gets(t) /\ obj[t] = topics[m] => m = call[t].name

(* What is on its way is for a topic subscribed to, in the order sent, and *)
(* newer than all that the client holds or has returned.                   *)
Later(v) ==
    /\ \A o \in Object : held[o] < v
    /\ \A t \in Thread, n \in SubNames : got[t][n] < v

InOrder ==
    /\ Later(count + 1)
    /\ \A k \in 1 .. Len(inbound) : inbound[k] # KillClient =>
          /\ inbound[k].name \in DOMAIN topics
          /\ inbound[k].data.val <= count
          /\ Later(inbound[k].data.val)
          /\ \A j \in 1 .. k - 1 : inbound[j] # KillClient =>
                inbound[j].data.val < inbound[k].data.val

(* A topic that has data has not been returned in a later version, and one *)
(* that has changed not in this one either.  A thread that waits will find *)
(* newer data in its object, and if the topic has been given another       *)
(* object, older data than there.                                          *)
HeldIsNew ==
    /\ \A o \in Object : state[o] # "TOPIC_NODATA" => held[o] > 0
    /\ \A t \in Thread, n \in DOMAIN topics :
          /\ state[topics[n]] # "TOPIC_NODATA" => held[topics[n]] >= got[t][n]
          /\ state[topics[n]] = "TOPIC_CHANGED" => held[topics[n]] > got[t][n]

AwaitedIsNew ==
    \A t \in Thread : Gets(t) =>
        /\ ~MustWait(t) => held[obj[t]] > got[t][call[t].name]
        /\ LET o == topics[call[t].name]
           IN  o # obj[t] /\ state[o] # "TOPIC_NODATA" => held[o] > held[obj[t]]

(* The broker knows only subscriptions that the client has made.           *)
AskedOK ==
    /\ known \subseteq DOMAIN topics
    /\ \A k \in 1 .. Len(asked) : asked[k] \in DOMAIN topics

(* The versions of a topic are sent in order, and what is no answer is     *)
(* newer than all before; what is stored is the newest, if it is there.    *)
VersionsGrow ==
    /\ \A n \in SubNames : stored[n] <= published
    /\ \A k \in 1 .. count :
          /\ server = "up" => notices[k].version <= published
          /\ stored[notices[k].name] # 0 => notices[k].version <= stored[notices[k].name]
          /\ \A j \in 1 .. k - 1 : notices[j].name = notices[k].name =>
                /\ notices[j].version <= notices[k].version
                /\ notices[k].answer \/ notices[j].version < notices[k].version

(* Whatever is on its way, held, waited for or returned is of that topic.  *)
Of(n, k) == k \in 1 .. count /\ notices[k].name = n

OwnNotices ==
    /\ \A k \in 1 .. Len(inbound) : inbound[k] # KillClient =>
          Of(inbound[k].name, inbound[k].data.val)
    /\ \A n \in DOMAIN topics :
          state[topics[n]] # "TOPIC_NODATA" => Of(n, held[topics[n]])
    /\ \A t \in Thread :
          /\ Gets(t) /\ state[obj[t]] # "TOPIC_NODATA" => Of(call[t].name, held[obj[t]])
          /\ \A n \in SubNames : got[t][n] > 0 => Of(n, got[t][n])

IInv ==
    /\ TypeOK /\ ConnectedWhileUp
    /\ CallsOK /\ NoKillWhileUp /\ OwnObjects
    /\ InOrder /\ HeldIsNew /\ AwaitedIsNew
    /\ AskedOK /\ VersionsGrow /\ OwnNotices

-----------------------------------------------------------------------------
(* A claim of the documentation that the code does not meet.               *)

(* README, diamond show: "If the server exits, the wait will abort".       *)
ServerExitEndsWait ==
    \A t \in Thread :
        (pc[t] = "waitdata" /\ client = "live" /\ server \in {"killed", "closed", "reset"})
           ~> (~Waiting(t) \/ ~alive)
=============================================================================

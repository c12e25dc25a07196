------------------------------- MODULE Linkage ------------------------------
(***************************************************************************)
(* A program that uses the client library through the C functions of       *)
(* clinkage.cpp, or through the Python module of diamondpython.c on top of *)
(* them, and what becomes of a topic on its way: built up from C or taken  *)
(* from a Python sequence, turned into bytes, kept by the broker, turned   *)
(* into bytes again, and fetched datum by datum.                           *)
(*                                                                         *)
(* The program has one thread.  A call is one step, except that Python's   *)
(* publish() is a step that builds the topic and a step that publishes it, *)
(* and that a call that waits is taken when it can return (module Client   *)
(* has the waiting, module Lifecycle what init() does beside connecting).  *)
(***************************************************************************)
EXTENDS Codec

CONSTANTS Programs,     \* programs: the language, and the names of the topics
          Floats,       \* bytes of floats
          Strings,
          Others,       \* what other clients publish
          PySequences,  \* the sequences that a Python program publishes
          MaxItems,     \* bound: the length of a topic built up in C
          MaxPublishes, \* bound: topics published, by anyone
          MaxInits,     \* bound: init() without destroy()
          MaxQueue      \* bound: messages on the way in one direction

Datums == {Float(f) : f \in Floats} \cup {String(s) : s \in Strings}

(* Items of a Python sequence: a number and the float nearest to it; a     *)
(* text and its UTF-8 bytes, which may hold a 0; a number that no float    *)
(* stands for (a complex one, or one that is too large); something else.   *)
Item == [kind : {"number"}, f : Word]
          \cup [kind : {"text"}, s : {s \in Seq(Byte) : Len(s) <= MaxInt}]
          \cup [kind : {"odd", "other"}]

ASSUME LinkageAssumption ==
    /\ \A p \in Programs : p.lang \in {"C", "Python"} /\ p.names \subseteq Name
    /\ Floats \subseteq Word /\ Strings \subseteq Text /\ Others \subseteq Data
    /\ \A q \in PySequences : q \in Seq(Item) /\ Len(q) <= MaxInt
    /\ MaxItems \in 0 .. MaxInt

VARIABLES
    program,         \* which it is
    inerror, exception,
    topicToPublish, topicToAccess,
    raised,          \* what the last Python function raised, or "nothing"
    tuple,           \* what the last get() of Python returned: a tuple, or False
    running, initCount,
    connected,       \* init() has connected; it does so once here (see Lifecycle)
    looping,         \* the network thread has not left its loop: it reads once
                     \* more when destroy() clears running meanwhile
    topics,          \* the client's: name -> data and state
    outbox, inbox,   \* messages to the broker and from it
    broker,          \* "none", "up" or "gone"
    stored,          \* the broker's: name -> data
    subscribed,      \* the names the program has subscribed to
    pc, asked,       \* inside Python's publish(): the name and the sequence
    published,       \* history: <<name, data>>
    publishes        \* how many

cVars      == <<inerror, exception, topicToPublish, topicToAccess>>
pyVars     == <<raised, tuple, pc, asked>>
clientVars == <<running, initCount, connected, looping, topics>>
brokerVars == <<inbox, broker, stored, subscribed>>
histVars   == <<published, publishes>>
vars == <<program, cVars, pyVars, clientVars, outbox, brokerVars, histVars>>

Fresh == [d |-> <<>>, state |-> "TOPIC_NODATA"]  \* Topic()
False == <<>>  \* of Python; a tuple t is <<t>>

IsValid(t) == t.state \in {"TOPIC_UNCHANGED", "TOPIC_CHANGED"}

GetWaits == {"GET_WAITNONE", "GET_WAITANY", "GET_WAITNEW"}

Names == program.names

NoCall == [name |-> <<>>, seq |-> <<>>]

Init ==
    /\ program \in Programs
    /\ inerror = FALSE /\ exception = "none"
    /\ topicToPublish = <<>> /\ topicToAccess = Fresh
    /\ raised = "nothing" /\ tuple = False /\ pc = "idle" /\ asked = NoCall
    /\ running = FALSE /\ initCount = 0 /\ connected = FALSE /\ looping = FALSE
    /\ topics = <<>>
    /\ outbox = <<>> /\ inbox = <<>>
    /\ broker = "none" /\ stored = <<>> /\ subscribed = {}
    /\ published = {} /\ publishes = 0

Has(map, n) == n \in DOMAIN map
With(map, n, v) == [m \in DOMAIN map \cup {n} |-> IF m = n THEN v ELSE map[m]]

-----------------------------------------------------------------------------
(* The wrappers: what they do with the outcome of the C++ function, and    *)
(* the result r that they return.                                          *)

Fails(e, r)      == r = -1 /\ exception' = e /\ inerror' = TRUE
Returns(v, r)    == r = v /\ inerror' = FALSE /\ UNCHANGED exception

(* killserver, clearserver and waitforany: no "return" at the end.         *)
ReturnsNoValue(r) == r \in {-1, 0, 1} /\ inerror' = FALSE /\ UNCHANGED exception

Error == IF inerror THEN exception ELSE "NULL"

(* publish(), subscribe(), killServer() and clearServer() when connected.  *)
Request(p) ==
    /\ Len(outbox) < MaxQueue
    /\ outbox' = Append(outbox, p)

Connected == running /\ UNCHANGED <<clientVars, brokerVars>>

NotConnected(r) ==
    /\ ~running /\ Fails("not connected", r)
    /\ UNCHANGED <<topicToPublish, topicToAccess, clientVars, outbox, brokerVars,
                   histVars>>

diamondapparatus_init(r) ==
    /\ initCount < MaxInits
    /\ \/ /\ initCount = 0 /\ broker # "up"
          /\ Fails("connect", r) /\ UNCHANGED <<running, initCount, connected, looping>>
       \/ /\ initCount = 0 /\ broker = "up" /\ ~connected
          /\ Returns(0, r) /\ initCount' = 1
          /\ running' = TRUE /\ connected' = TRUE /\ looping' = TRUE
       \/ /\ initCount > 0
          /\ Returns(0, r) /\ initCount' = initCount + 1
          /\ UNCHANGED <<running, connected, looping>>
    /\ UNCHANGED <<topicToPublish, topicToAccess, topics, outbox, brokerVars, histVars>>

diamondapparatus_destroy(r) ==
    /\ IF initCount = 0 THEN UNCHANGED <<running, initCount>>
       ELSE /\ initCount' = initCount - 1
            /\ running' = (running /\ initCount' = 0)
    /\ Returns(initCount', r)
    /\ UNCHANGED <<topicToPublish, topicToAccess, topics, connected, looping, outbox,
                   brokerVars, histVars>>

diamondapparatus_subscribe(n, r) ==
    \/ /\ running /\ Request(StrMsg(CS_SUBSCRIBE, n))
       /\ topics' = With(topics, n, Fresh)
       /\ Returns(0, r)
       /\ UNCHANGED <<topicToPublish, topicToAccess, running, initCount, connected, looping,
                      brokerVars, histVars>>
    \/ NotConnected(r)

diamondapparatus_publish(n, r) ==
    \/ /\ Connected /\ publishes < MaxPublishes
       /\ Request(ToMessage(CS_PUBLISH, n, topicToPublish))
       /\ published' = published \cup {<<n, topicToPublish>>}
       /\ publishes' = publishes + 1
       /\ Returns(0, r)
       /\ UNCHANGED <<topicToPublish, topicToAccess>>
    \/ NotConnected(r)

diamondapparatus_killserver(r) ==
    \/ /\ Connected /\ Request(NoDataMsg(CS_KILLSERVER))
       /\ ReturnsNoValue(r)
       /\ UNCHANGED <<topicToPublish, topicToAccess, histVars>>
    \/ NotConnected(r)

diamondapparatus_clearserver(r) ==
    \/ /\ Connected /\ Request(NoDataMsg(CS_CLEARSERVER))
       /\ ReturnsNoValue(r)
       /\ UNCHANGED <<topicToPublish, topicToAccess, histVars>>
    \/ NotConnected(r)

(* It checks nothing, and is woken by a notice (or for no reason).         *)
diamondapparatus_waitforany(r) ==
    /\ ReturnsNoValue(r)
    /\ UNCHANGED <<topicToPublish, topicToAccess, clientVars, outbox, brokerVars, histVars>>

(* get(): a topic of its own, with a state only, or a copy of the client's.*)
diamondapparatus_get(n, wait) ==
    /\ \/ /\ ~running
          /\ topicToAccess' = [Fresh EXCEPT !.state = "TOPIC_NOTCONNECTED"]
          /\ UNCHANGED topics
       \/ /\ running /\ ~Has(topics, n)
          /\ topicToAccess' = [Fresh EXCEPT !.state = "TOPIC_NOTFOUND"]
          /\ UNCHANGED topics
       \/ /\ running /\ Has(topics, n) /\ topics[n].state = "TOPIC_NODATA"
          /\ wait = "GET_WAITNONE"
          /\ topicToAccess' = [Fresh EXCEPT !.state = "TOPIC_NOTFOUND"]
          /\ UNCHANGED topics
       \/ /\ running /\ Has(topics, n) /\ topics[n].state # "TOPIC_NODATA"
          /\ wait = "GET_WAITNEW" => topics[n].state = "TOPIC_CHANGED"
          /\ topicToAccess' = topics[n]
          /\ topics' = [topics EXCEPT ![n].state = "TOPIC_UNCHANGED"]
    /\ inerror' = FALSE /\ UNCHANGED exception
    /\ UNCHANGED <<topicToPublish, running, initCount, connected, looping, outbox,
                   brokerVars, histVars>>

(* newtopic, addfloat and addstring.                                       *)
diamondapparatus_newtopic ==
    /\ topicToPublish' = <<>>
    /\ UNCHANGED <<inerror, exception, topicToAccess, clientVars, outbox,
                   brokerVars, histVars>>

diamondapparatus_add(x) ==
    /\ topicToPublish' = Append(topicToPublish, x)
    /\ UNCHANGED <<inerror, exception, topicToAccess, clientVars, outbox,
                   brokerVars, histVars>>

(* The fetch functions on a topic: an index out of range gives the float   *)
(* 0, and the wrong type a default.                                        *)
ZeroDat   == Float(<<0, 0, 0, 0>>)
NotString == <<63>>  \* for "?notstring?"
Fetch(t, n) == IF n \in 1 .. Len(t.d) THEN t.d[n] ELSE ZeroDat

fetchtype(t, n)   == Fetch(t, n).t
fetchfloat(t, n)  == IF fetchtype(t, n) = DT_FLOAT THEN Fetch(t, n).f ELSE ZeroDat.f
fetchstring(t, n) == IF fetchtype(t, n) = DT_STRING THEN Fetch(t, n).s ELSE NotString
fetchsize(t)      == Len(t.d)

(* A program in C.                                                         *)
CCalls ==
    /\ program.lang = "C"
    /\ UNCHANGED <<program, pyVars>>
    /\ \/ \E r \in -1 .. MaxInits :
            \/ diamondapparatus_init(r) \/ diamondapparatus_destroy(r)
            \/ diamondapparatus_killserver(r) \/ diamondapparatus_clearserver(r)
            \/ diamondapparatus_waitforany(r)
            \/ \E n \in Names : diamondapparatus_subscribe(n, r) \/ diamondapparatus_publish(n, r)
       \/ \E n \in Names, w \in GetWaits : diamondapparatus_get(n, w)
       \/ diamondapparatus_newtopic
       \/ Len(topicToPublish) < MaxItems /\ \E x \in Datums : diamondapparatus_add(x)

-----------------------------------------------------------------------------
(* The Python module.                                                      *)

Raises(reason) ==
    raised' = reason /\ pc' = "idle" /\ asked' = NoCall

diamond_init ==
    /\ program.lang = "Python" /\ pc = "idle"
    /\ \E r \in {-1, 0} :
          /\ diamondapparatus_init(r)
          /\ Raises(IF r < 0 THEN "unable to communicate with server" ELSE "nothing")
    /\ UNCHANGED <<program, tuple>>

(* CHKRUN, with which the other functions begin.                           *)
Chkrun(f, n, seq) ==
    /\ program.lang = "Python" /\ pc = "idle"
    /\ IF running THEN /\ pc' = f /\ raised' = "nothing"
                       /\ asked' = [NoCall EXCEPT !.name = n, !.seq = seq]
                  ELSE Raises("unable to communicate with server")
    /\ UNCHANGED <<program, tuple, inerror, exception, topicToAccess,
                   clientVars, outbox, brokerVars, histVars>>

(* PyFloat_AsDouble() returns -1 for a number that no float stands for.    *)
MinusOne == <<0, 0, 128, 191>>

Converted(x) ==
    CASE x.kind = "number" -> Float(x.f)
      [] x.kind = "odd"    -> Float(MinusOne)
      [] x.kind = "text"   -> String(CString(x.s))

(* The items before the first that is neither a number nor a text.         *)
Accepted(seq) ==
    LET others == {i \in 1 .. Len(seq) : seq[i].kind = "other"}
    IN  IF others = {} THEN seq ELSE SubSeq(seq, 1, Min(others) - 1)

(* Mutant: what is left of an earlier call is kept.                        *)
AddsItems(seq) ==
    topicToPublish' = topicToPublish
        \o [i \in 1 .. Len(Accepted(seq)) |-> Converted(Accepted(seq)[i])]

(* newtopic, and the additions.                                            *)
BuildsTopic(seq) ==
    topicToPublish' = [i \in 1 .. Len(Accepted(seq)) |-> Converted(Accepted(seq)[i])]

diamond_publish(n, seq) ==
    IF ~running \/ Accepted(seq) = seq
      THEN /\ Chkrun("publish", n, seq)
           /\ IF running THEN BuildsTopic(seq) ELSE UNCHANGED topicToPublish
      ELSE /\ program.lang = "Python" /\ pc = "idle"
           /\ BuildsTopic(seq)
           /\ Raises("published topics must be sequences of numbers and strings")
           /\ UNCHANGED <<program, tuple, inerror, exception, topicToAccess,
                          clientVars, outbox, brokerVars, histVars>>

PyEnters ==
    \/ /\ \/ Chkrun("destroy", <<>>, <<>>) \/ Chkrun("waitforany", <<>>, <<>>)
          \/ \E n \in Names : Chkrun("subscribe", n, <<>>) \/ Chkrun("get", n, <<>>)
       /\ UNCHANGED topicToPublish
    \/ \E n \in Names, seq \in PySequences : diamond_publish(n, seq)

(* The C function; get and destroy do not fail.                            *)
Fallible(r) ==
    \/ pc = "publish" /\ diamondapparatus_publish(asked.name, r)
    \/ pc = "subscribe" /\ diamondapparatus_subscribe(asked.name, r)
    \/ pc = "waitforany" /\ diamondapparatus_waitforany(r)

(* An exception that is pending when the function returns is a SystemError.*)
Pending == \E i \in 1 .. Len(asked.seq) : asked.seq[i].kind = "odd"

PyRequests ==
    /\ \E r \in -1 .. 1 :
          /\ Fallible(r)
          /\ Raises(IF r < 0 THEN Error'
                    ELSE IF Pending THEN "SystemError" ELSE "nothing")
    /\ UNCHANGED <<program, tuple>>

PyDestroys ==
    /\ pc = "destroy"
    /\ \E r \in 0 .. MaxInits : diamondapparatus_destroy(r)
    /\ Raises("nothing")
    /\ UNCHANGED <<program, tuple>>

PyTuple(t) ==
    [i \in 1 .. fetchsize(t) |->
        IF fetchtype(t, i) = DT_FLOAT THEN Float(fetchfloat(t, i))
                                      ELSE String(fetchstring(t, i))]

PyGets ==
    /\ pc = "get"
    /\ \E w \in GetWaits : diamondapparatus_get(asked.name, w)
    /\ tuple' = IF IsValid(topicToAccess') THEN <<PyTuple(topicToAccess')>> ELSE False
    /\ Raises("nothing")
    /\ UNCHANGED program

PyCalls == diamond_init \/ PyEnters \/ PyRequests \/ PyDestroys \/ PyGets

-----------------------------------------------------------------------------
(* The broker, and other clients of it.                                    *)

brokerOnly == <<program, cVars, pyVars, clientVars>>

Sent(p) == inbox' = Append(inbox, p)

(* "overwrite pkt type", and the packet goes to the subscribers.           *)
Stamped(p) == Net(SC_NOTIFY) \o SubSeq(p, 5, Len(p))

Stores(p) ==
    \E n \in NameFromMsg(p) :
        /\ stored' = With(stored, n, FromMessage(p).d)
        /\ IF n \in subscribed THEN Sent(Stamped(p)) ELSE UNCHANGED inbox

BrokerTakes(type) ==
    /\ broker = "up" /\ outbox # <<>> /\ MsgType(Head(outbox)) = type
    /\ Len(inbox) < MaxQueue
    /\ outbox' = Tail(outbox)
    /\ UNCHANGED <<brokerOnly, histVars>>

BrokerPublishes ==
    /\ BrokerTakes(CS_PUBLISH)
    /\ Stores(Head(outbox))
    /\ UNCHANGED <<broker, subscribed>>

BrokerSubscribes ==
    /\ BrokerTakes(CS_SUBSCRIBE)
    /\ \E n \in MsgOf(Head(outbox)) :
          /\ subscribed' = subscribed \cup {n}
          /\ IF Has(stored, n) THEN Sent(ToMessage(SC_NOTIFY, n, stored[n]))
                               ELSE UNCHANGED inbox
    /\ UNCHANGED <<broker, stored>>

BrokerKilled ==
    /\ BrokerTakes(CS_KILLSERVER)
    /\ broker' = "gone"
    /\ inbox' = Append(inbox, NoDataMsg(SC_KILLCLIENT))
    /\ UNCHANGED <<stored, subscribed>>

BrokerCleared ==
    /\ BrokerTakes(CS_CLEARSERVER)
    /\ stored' = <<>>
    /\ UNCHANGED <<broker, inbox, subscribed>>

BrokerStarts ==
    /\ broker = "none" /\ broker' = "up"
    /\ UNCHANGED <<brokerOnly, outbox, inbox, stored, subscribed, histVars>>

OtherPublishes(n, d) ==
    /\ broker = "up" /\ publishes < MaxPublishes /\ Len(inbox) < MaxQueue
    /\ Stores(ToMessage(CS_PUBLISH, n, d))
    /\ published' = published \cup {<<n, d>>} /\ publishes' = publishes + 1
    /\ UNCHANGED <<brokerOnly, outbox, broker, subscribed>>

(* Another client's kill, or a signal.                                     *)
BrokerEnds ==
    /\ broker = "up" /\ Len(inbox) < MaxQueue
    /\ broker' = "gone"
    /\ inbox' = Append(inbox, NoDataMsg(SC_KILLCLIENT))
    /\ UNCHANGED <<brokerOnly, outbox, stored, subscribed, histVars>>

Broker ==
    \/ BrokerPublishes \/ BrokerSubscribes \/ BrokerKilled \/ BrokerCleared
    \/ BrokerStarts \/ BrokerEnds
    \/ \E n \in Names, d \in Others : OtherPublishes(n, d)

(* MyClient::process().                                                    *)
Process ==
    /\ looping /\ inbox # <<>>
    /\ inbox' = Tail(inbox)
    /\ running' = (running /\ MsgType(Head(inbox)) # SC_KILLCLIENT)
    /\ looping' = running'
    /\ \/ /\ MsgType(Head(inbox)) = SC_NOTIFY
          /\ \E n \in NameFromMsg(Head(inbox)) :
                topics' = IF Has(topics, n)
                            THEN [topics EXCEPT ![n] = [d |-> FromMessage(Head(inbox)).d,
                                                        state |-> "TOPIC_CHANGED"]]
                            ELSE topics
       \/ MsgType(Head(inbox)) # SC_NOTIFY /\ UNCHANGED topics
    /\ UNCHANGED <<program, cVars, pyVars, initCount, connected, outbox, broker, stored, subscribed,
                   histVars>>

Next == CCalls \/ PyCalls \/ Broker \/ Process

Spec == Init /\ [][Next]_vars

-----------------------------------------------------------------------------
(* What toMessage() leaves of a name: all, or of a longer one the clipped  *)
(* length and one more, which a 0 among the items is to end, or behind.    *)
NameSent(name, d, behind) ==
    IF Len(name) <= MaxName THEN name
    ELSE SubSeq(name, 1, MaxName + 1) \o CString(DataBytes(d) \o behind)

PublishedAs(n, d) ==
    \E e \in published, behind \in Beyond : n = NameSent(e[1], e[2], behind) /\ d = e[2]

(* Whatever a get() has returned, in C or as a tuple in Python, and        *)
(* whatever the broker keeps, was published under that name, datum for     *)
(* datum: through both conversions, the name between the bytes, and the    *)
(* broker's own notice.  A name that toMessage() clips has become another, *)
(* longer than any that it does not clip: it is never taken for one.       *)
FetchedAsPublished ==
    /\ \A n \in DOMAIN stored : PublishedAs(n, stored[n])
    /\ \A n \in DOMAIN topics :
          topics[n].state # "TOPIC_NODATA" => PublishedAs(n, topics[n].d)
    /\ IsValid(topicToAccess) => \E n \in Names : PublishedAs(n, topicToAccess.d)
    /\ tuple # False => tuple = <<topicToAccess.d>>

(* toMessage(), "now we have the size, alloc the buffer and fill it in":   *)
(* the items and the clipped name fill what was counted, whatever the      *)
(* length of the name, and fromMessage() reads a message to its end and    *)
(* not beyond; strcpy() stays inside if the name is not longer than        *)
(* MaxName, and leaves the buffer by as much as a longer one exceeds the   *)
(* items that follow.                                                      *)
SizesAgree ==
    /\ \A e \in published :
          /\ Len(ToMessage(CS_PUBLISH, e[1], e[2])) = SizeOf(e[1], e[2])
          /\ NameFits(e[1], e[2]) <=>
                 Len(e[1]) <= MaxName \/ Len(e[1]) <= MaxName + Len(DataBytes(e[2]))
    /\ \A p \in ToSet(inbox) :
          MsgType(p) = SC_NOTIFY => FromMessage(p).at = Len(p) + 1

(* python/README, publish: "will publish the data in the sequence": a call *)
(* that does not raise has sent its own items, all of them and nothing of  *)
(* an earlier call that was given up half way; under its own name, if that *)
(* is not clipped.                                                         *)
PublishesItsSequence ==
    [][pc = "publish" /\ pc' = "idle" /\ raised' = "nothing" =>
          LET p == Last(outbox')
              d == FromMessage(p).d
          IN  /\ Len(asked.name) <= MaxName =>
                     \A n \in NameFromMsg(p) : n = asked.name
              /\ Len(d) = Len(asked.seq)
              /\ \A i \in 1 .. Len(d) :
                    /\ asked.seq[i].kind = "number" => d[i] = Float(asked.seq[i].f)
                    /\ asked.seq[i].kind = "text" => d[i] = String(CString(asked.seq[i].s))]_vars
=============================================================================

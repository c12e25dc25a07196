# Diamond Apparatus in TLA+

Diamond Apparatus is a publish/subscribe system: a broker keeps the last data
published on each topic and pushes it to the clients that have subscribed. This
directory holds TLA+ models of its code, the TLC configurations that check them
on small instances, and theorems about them that TLAPS checks for every
instance.

## The system

| Part | Code | State | Operations |
|---|---|---|---|
| Messages and topic data | `messages.h`, `data.h`, `data.cpp` | the data of a topic | six message types; a topic to and from bytes |
| Broker | `server.cpp` | `subscribers`, `subtopics`, `topics`, the statistics, `serverKill` | publish, subscribe, kill, clear; `onClose`; `shutdown`; the signal handler |
| TCP server loop | `tcp.h`, `TCPServer` | `clients`, `active_fd_set`, `curClient` | `select`, accept, read, close |
| Framing | `tcp.h`, `basesend`, `TCPReceiver` | the bytes of the message so far | send with retries; reassemble |
| Client library | `client.cpp`, `TCPClient` | `topics`, `waittopic`, `running`, one mutex, one condition variable | `subscribe`, `publish`, `get`, `waitForAny`, `killServer`, `clearServer`; `process` |
| Client life cycle | `client.cpp` | `initCount`, the thread, the client object | `init`, `destroy`, the end of the thread |
| C linkage | `clinkage.cpp`, `mainc.c` | the last exception, a topic to publish, a topic got | wrappers that return -1 |
| Command line | `main.cpp` | flags of the listen loop | server, listen, show, pub, kill, check, version |
| Python binding | `python/diamondpython.c` | the exception that is raised | argument conversion; building and unpacking topics |
| Clock, examples, build | `time.cpp`, `test.cpp`, `CMakeLists.txt` | none that matters here | |

How they interact. An application thread calls the client library, which writes
a request to the connection while it holds the mutex. The broker's only thread
finds the connection readable with `select()`, reads one message, changes its
maps and writes notices to the connections of the subscribers, all before it
looks at the next descriptor. The client's network thread reads a notice, takes
the mutex, stores the data and signals the condition variable for which an
application thread may wait in `get()` or `waitForAny()`. SIGINT and SIGQUIT
interrupt the broker's thread; its handler tells all clients and does not
return.

What is hard about it, and what makes each part correct:

* The broker is single-threaded, but its round works on a snapshot of
  descriptors that accepts and closes change, and descriptors are used again.
  Correct means: no stale descriptor is served, nothing that a closed client
  subscribed to survives it, a subscriber has what the broker holds, nobody is
  sent what they did not ask for, and the end of the broker reaches everyone
  once and last.
* The client is multi-threaded around a condition variable, one `waittopic` and
  a flag that is read outside the mutex. Correct means: `get()` never goes back
  to older data and GET_WAITNEW waits for a notice that is new, no wakeup is
  lost, and a wait ends when the broker ends.
* The connection is a byte stream with partial reads and writes, and each message
  is two writes. Correct means: packets are the messages, whole, once and in
  order, until the connection ends, and its end is seen.
* `init()` and `destroy()` start and stop a thread and an object that other
  threads use. Correct means: nothing is used before it is there or after it is
  gone, and each thread keeps to its own session, as far as sessions do not
  overlap; the code does not keep them from it.
* Every read and write blocks, the broker has one thread, and a client writes
  while it holds its mutex. Correct means: as long as clients read, everything
  is pushed to everyone, in one order.
* Data are converted between Python or C, memory and bytes four times on their
  way. Correct means: what is fetched is what was published, and no buffer is
  left.
* The commands are processes that nobody coordinates. Correct means: one server
  at a time, and a command that has exited has done its work.

`PROJECT.json` lists the hazards one by one, each at its line.

## The modules

| Module | What it models |
|---|---|
| `Messages` | the messages, the contents of a topic as far as the broker makes or tells them apart, and `std::map` |
| `Server` | `MyServer` on `TCPServer` |
| `Client` | a client process between `init()` and `destroy()` |
| `Framing` | `basesend()` and `TCPReceiver` on one direction of a connection |
| `Fifo` | what `Framing` promises: messages delivered in order, or the end |
| `PubSub` | what `Server` promises: publications, once and in order, to those who have subscribed |
| `Lifecycle` | the sessions of a client process: `init()`, `destroy()`, `threadfunc()` |
| `Codec` | messages as bytes: `toMessage()`, `fromMessage()`, the other messages |
| `Linkage` | a C or a Python program on `clinkage.cpp` and `diamondpython.c`, with the bytes of `Codec` on the way to a broker and back |
| `Commands` | the programs `main.cpp` and `mainc.c`: processes that meet at one port |
| `Backpressure` | broker and clients with bounded socket buffers and blocking reads and writes |
| `MC...` | small instances for TLC |
| `ServerProofs`, `PubSubProofs` | theorems about `Server`: its own state, what it sends, and that it implements `PubSub` |
| `ClientProofs`, `LifecycleProofs`, `FramingProofs`, `CommandsProofs`, `BackpressureProofs` | theorems about the module of that name |
| `LinkageProofs` | theorems about `Codec` and `Linkage` |

`Server` and `Client` exchange whole messages in order, over connections that
may end at any moment. That is what `Fifo` says, and `Framing` shows when the
code below them keeps it, and when it does not.

### Server

A connection is a member of `Conn`; the descriptor by which the broker knows it
is a member of `Fd`, the lowest free one, and is used again. The variables
`clients`, `active`, `subscribers`, `subtopics`, `topics`, `msgssent`,
`msgsrecvd` and `serverKill` are the program's. `ready` is what is left of
`read_fd_set` in the for loop of `update()`, and `phase` tells where the loop of
`server()` is. `reqs`, `handled` and `sent` are histories: all that each client
has written, how much of it the broker has read, and all that the broker has
written to it.

`Select` begins a round. `Accept`, `CloseClient` and the four `Handle...` actions
serve the lowest descriptor that is left; `NextRound` and `KillRequested` end the
round. A handler is one action, with all that the code does in it: it counts the
request and rebuilds and pushes the statistics (`Counted`), then does the
request's own work. The functions of the code are operators on a record of the
five variables that they share (`Broker`), composed in the order of the calls,
and `Commit` stores the result. So `PublishTopic` stores, pushes, and for a new
name rebuilds and pushes the list, with `subscribers[name]` leaving its entry.

The clients and the kernel may connect, send, close and reset in any order
between these steps. `Signal` is the handler of SIGINT and SIGQUIT, also while
another `shutdown()` sleeps; `AcceptFails` is the exception of `accept()` when
no descriptor is left, which ends the broker.

Messages are whole: reading one is one step, writing one never blocks, and a
message for a connection whose far end is closed is dropped and counted, as with
EPIPE. The time in the statistics is left out: it is not compared with anything.

### Client

`running`, `client`, `waittopic`, `topics` are the program's; `state` and `held`
are the members of the Topic objects, by address, because `subscribe()` puts a
new object in the place of one that `get()` may still point to. Notices are
numbered, and `held` is the number of the notice that an object holds.
`waiters` is the set of threads inside `pthread_cond_wait()` that have not been
woken: a signal takes one out of it, a spurious wakeup too.

Everything a thread does between `lock()` and `unlock()` is one action, except
that a wait ends one and begins another. The check of `running` before `lock()`
is an action of its own (`CallGet`, `CallSubscribe`, `CallRequest`), so that
other threads come between. A call that fails the check changes nothing and is
not an action. `threadfunc()` is five steps: test, read and process, leave,
delete, clear `running`.

Using the deleted client object is undefined; the model goes on in both ways, as
if the memory were still there, and with the death of the process (`Dies`),
which also stands for SIGPIPE when a request is written to a closed connection.
That goes for `waitForAny()` too, which checks nothing before it uses the
object. If the process goes on, the descriptor in that memory is closed, and
`basesend()` throws in the end, over the `unlock()`: `RequestThrows` leaves
`mutex` `"lost"`, and nobody gets past `Lock` any more. A Topic object that
nothing points to any more may be given out again: the code never frees it, and
nothing can tell the difference.

Of the broker there is what this client can tell of it. `stored` is what it
holds under each name, by a version that every publication raises
(`ServerPublish`); `asked` are the subscriptions on their way, `known` those
that it has read. A publication is sent to a client that is known; the answer to
a subscription (`ServerAnswer`) is what is stored, the same version again if it
was sent before. `ServerClear` forgets what is stored. SC_KILLCLIENT comes after
all notices, and the connection is closed with or without it; a reset loses what
the client has not read. `notices` is the history of what was sent: the name,
the version, and whether it was an answer.

### Framing

One direction of one connection, from `basesend()` at one end to
`TCPReceiver::update()` at the other. A byte is a pair: the number of its message
and its place in it, the first `SizeLen` places being the size. A message is
known by its size.

`sender` tells which of the two writes of `basesend()` comes next, `tries` is its
`i`, `first` its `rv > 0`; `errno` keeps its value from call to call, as in the
code. A write takes all bytes, or fails, or (with `Faults`) takes some. `wire`
holds the bytes between the two ends, and `sockError` the ends that the kernel
will tell of a reset. `recvdata`, `recvsize`, `rv` and `portClosed` are the
program's; `buffer` is what is in the buffer, and its length is `recvct`. A read
takes any number of the bytes that are there, up to what is left of the part:
`ReadPart`, `ReadSize` and `ReadData` are the three outcomes. Bytes that are no
size are read as a number of `Garbage`, or make `malloc()` fail.

When `update()` returns true it is called again, by `threadfunc()` or by the
broker's loop; when it returns false the end is closed (`Break`). The broker
waits in `select()` in between, which only delays the next read. `Interrupt` is
the handler of SIGINT: a new message to the same connection, wherever
`basesend()` was. Either end may go away at any moment, with unread data (a
reset, which may lose what is on the way) or without.

### PubSub

The broker as its users see it: connections, topics that users publish, and for
each connection the sequence of what it has received. `Publish` stores and
appends to every subscriber in one step; `Subscribe` appends what is stored to
the one who subscribes; `Clear`, `Leave` and `Stop` do the rest. `Server`
implements it under a mapping that forgets descriptors, rounds, the backlog and
the special topics (`Abstract` in `Server`): `ImplementsPubSub`.

### Lifecycle

A session is a call of `init()` that connects: session s has the s-th `MyClient`
object, connection and thread. `client`, `running`, `initCount` are the
program's: one each for all sessions. `init()` is two steps, `InitConnects` and
`InitReturns`, with the loop `while(!running){}` between them; `threadfunc()` is
`ThreadStarts`, `ThreadTests`, `ThreadReads` or `ThreadSeesEnd`, `ThreadDeletes`
and `ThreadEnds`. The thread uses the object that `client` points to when it
calls `update()`, and deletes what it points to when it gets there. The broker
may end at any time, with SC_KILLCLIENT or without, and start again.

`init()` asks only whether `initCount` is 0, so a session may begin while the
thread of the one before is still there: `init()`; `destroy()`; `init()` does
it, since the last `destroy()` does nothing, and so does a program that waits
until `isRunning()` is false, which it is before the thread has deleted its
object. No function of the API tells when a thread has ended. Then two threads
call `update()` of one object, or use one that the other has deleted. That is
undefined, and the model has what may come of it: of a message that two read,
each may get a part, or its type is lost; a deleted object has a closed
descriptor, or one that is another session's by now; the object of the new
session is deleted by the old thread, or one object twice; and the process may
come to its end at any such step (`Dies`), as it may at a lock of the mutex that
a nested `destroy()` has destroyed. `alone` is the history variable that tells
such a session from the others: whether every earlier thread had ended when it
began.

### Codec and Linkage

`Codec` has bytes and nothing else: a message is a sequence of numbers,
`htonl()` turns four of them round, and `ToMessage`, `SizeOf` and `FromMessage`
are the two passes over a topic and the way back. `MaxName` is the 128 to which
the length of a name is clipped. `Name`, `Text`, `Datum` and `Data` say what
names, strings, values and contents of a topic there are: a name may have any
length, a string and a topic are not longer than an `int` can tell. A size is
not wrapped at 2^31: a topic whose message does not fit into memory is left out.
The passes are recursive functions (`Sizes`, `BytesUpTo`, `Reads`), one value
for each item.

The first pass counts a name that is longer than `MaxName` by its clipped length,
and the second copies it whole, 0 included, and then writes the items over it. So
what is sent is the clipped length and one letter more, and the items after
that; the name on the other side goes on through the items up to the first 0
(`NameSent`), and if there is none up to one that lies behind the packet: `Beyond`
are the bytes that may be there. `NameFits` tells whether `strcpy()` stays in the
buffer; what it overwrites when it does not is undefined, and the model follows
the runs of the program in which that is nothing of its own.

`Linkage` is a program in one of two languages. Its static variables are those of
`clinkage.cpp`: `inerror`, `exception`, `topicToPublish`, `topicToAccess`. Each
wrapper is an operator with the result `r` it may return; those without a
`return` may return anything (`ReturnsNoValue`: -1, 0 and 1 are what its callers
tell apart). Python calls are one step, but the functions that call the library
are two, the check of `running` and the rest, so that the broker may end in
between; `publish()` builds the topic in the first. Items of a sequence are
numbers, texts (which may hold a 0 and are cut there), `odd` numbers, for which
`PyFloat_AsDouble()` sets an exception and gives -1, and others. The broker and
the client's `process()` are those of `Server` and `Client`, reduced to storing,
sending and receiving.

### Commands

Four processes at a time, each started at any moment: the command server, check,
version, listen, show, pub or kill, as the C++ program or the C program has it.
`pc` is where a process is in its `main()`; one that is done has an exit code. A
server first tries to connect (`AlreadyRunning`, `NoneRunning`), then binds: the
system refuses an address on which another process listens, or on which old
connections are kept because the broker closed first (`timewait`). A broker takes
the requests of connections that are accepted, also when the process has left,
tells its clients at the end, and closes everything after its two seconds.
`Signal` is the handler of the commands, `SignalTaken` that of the broker.

There is one topic besides `version`; data are the numbers of the processes that
published them, and `history` is what was stored, in order.

### Backpressure

Clients that publish on one topic, subscribe to it, or both. A socket buffer
holds `UpRoom` parts (a message is two, its size and its data) on the way to the
broker and `DownRoom` messages on the way back; `write()` waits for room and
`read()` for the rest of a message. The broker is one thread that selects, reads
a size, reads the data, stores, and pushes to one subscriber after the other. A
client that publishes holds its mutex from `Lock` to `WriteData`, and its
network thread needs it in `NetProcess`. A client may stop for good, or go away,
at any moment.

## What the runs check

| Run | Instance | Shows |
|---|---|---|
| `server_topics` | 2 connections, 2 descriptors, 3 requests, 2 values; clients publish under a name of their own and under `topics`, and subscribe to those and to `stats`; one signal | the inductive invariant of the proofs about what is sent; fresh rounds; the kill is sent to all, last; the two subscription maps mirror each other; subscribers are up to date, also on what broker and clients both write; nobody gets what they did not ask for; the topic list is complete; the broker implements `PubSub` |
| `server_life` | 3 connections for 2 descriptors, 2 requests (clear and kill), both signals, the broker's thread scheduled | every request is served; a kill request stops the broker; the inductive invariant of the proofs |
| `client_threads` | 2 application threads, 1 topic, 2 notices of 2 versions, 1 subscription on the way, 2 addresses | what `get()` returns is of its topic and never an older version, and with GET_WAITNEW a notice that is new; client object, mutex and process are whole as long as the broker is up; the inductive invariant of the proofs |
| `client_alone` | 1 application thread, 2 topics, 2 notices of 2 versions | a notice or a kill ends the wait it is for |
| `framing` | 3 messages of 1 or 3 bytes after a size of 4, any cut | the packets are the messages and both ends are in step; the framing implements `Fifo`, with its fairness |
| `framing_faults` | 1 message and the handler's, sizes of 2 bytes, 2 attempts, failing and short writes, sizes read as 0 or 3 | types; the end of the connection is seen; `basesend()` comes to an end |
| `lifecycle` | 2 sessions that may overlap, `init()` nested to 3, 2 messages | the inductive invariant of the proofs; in a session that began alone the thread uses and deletes its own object, once; `init()` returns too early only if an earlier thread is there, and without one it does return; the end of a connection is told, whatever came before |
| `commands` | 4 processes in 6 combinations, 1 signal | one server at a time; what is printed is in order; what pub wrote is stored after its exit; listen prints the last data; show, kill and a listen that has a signal come to their end |
| `linkage` | a C program with a short name, a Python program with the longest name that is not clipped, and one with a name that is; one float, one string, 2 publications, topics of up to 2 items; a 0 behind a packet, or a letter and a 0 | what is fetched was published, datum for datum; buffers are as large as what is written, exactly if the name fits; a call that gave up leaves nothing for the next |
| `backpressure` | 3 clients in 4 divisions of publishing and subscribing, buffers for 1, 2 publications each, 1 client that stops or leaves | the inductive invariant of the proofs; all subscribers see one order; the two ways named are the only ones in which the service stalls |
| `client_exit`, `lifecycle_destroy` | as small as the case allows | two statements of the documentation that the code does not meet (below) |

Why the bounds are enough. Two connections for two descriptors reach every
relation of two clients, and a third connection finds no descriptor or takes
over one that was used; with two connections a descriptor is used again when the
first of them has closed before the second is accepted. Three requests are
enough to subscribe, clear and publish again, to publish before and after a
subscription, or to subscribe, close and publish from the client that takes
over; what is proved (below) needs no bound. Two values tell old data from new.
In `server_life` what is stored plays no part, so its clients only clear and
kill. In the client, two threads show every interference of one thread with
another, a second notice every order of a read and a write, and two versions a
second one that is the same again or newer; two topics with one thread show a
notice for another topic than the one waited for. The two addresses are the
topic's and the one of an object that was replaced while somebody waits for it;
a third `subscribe()` comes when that wait has ended. In the framing, messages
of 1 and 3 bytes give every cut of a part (none, one and several), and a third
message follows one that was cut. Two attempts are the last and one before it;
the code has ten, and `FramingProofs` has any number. Two sessions are one that
starts while the one before it is there, or ends, or has ended; a count of 3 is
one whose `destroy()` leaves a count that is nested still. The six combinations
of `commands` have each command in each language it has, two publishers with a
listener, three servers at once, and kill with each command that waits. In
`linkage`, the float has bytes that are not the same backwards, one name is at
the limit and one over it, and two publications are a call that gives up with
one after it. The name over the limit becomes another name before a float and is
itself again before a string; without items that depends on what lies behind the
packet, and both are in `Beyond`. In `backpressure`, buffers for one message
reach every state in which somebody waits; with room for two of each the same
properties hold. `MaxRequests`, `MaxNotices`, `MaxVersion`, `MaxAsked`,
`MaxMessages`, `MaxSignals`, `MaxSessions`, `MaxNested`, `MaxItems`,
`MaxPublishes`, `MaxInits`, `MaxQueue` and `MaxFaults` are the only bounds.

Deadlock is checked in `lifecycle`. It is not checked in the others: broker,
clients and commands may stop for good (the broker has exited, or nothing is
sent any more), and every run reaches such states.

Fairness. `Server`: weak fairness of the broker's step. It is the only thing
the broker's thread can do, and the system schedules it; clients, users and
signals need do nothing. `Client`: weak fairness of the network thread and of
each application thread that is inside a call, which assumes that the mutex is
handed on eventually: no thread holds it for ever in this model, except that one
whose request has thrown leaves it locked, and then nobody is owed a step that
needs it. No fairness for
the application to call, for the broker to send or close, or for wakeups without
a signal. `Framing`: weak fairness of the step of `basesend()` and of the step of
`update()`, since a thread that is inside one of them has nothing else to do; no
fairness for a message to be sent, for anybody to go away or for a signal. A
sender that neither runs nor goes away is therefore excluded: it does stop the
receiver, which reads the rest of a message without `select()`, and that is what
`Backpressure` has. `Lifecycle`: weak fairness of each thread and of the loop in
`init()`; none for calls or for the broker. `Commands`: weak fairness of each
program that has been started, of its network thread and of each broker; none
for starting a command, for signals, or for the end of TIME_WAIT. `Backpressure`:
weak fairness of the broker and of the threads of clients that run; a client
that stops may stay stopped. `Linkage` has safety properties only.

### Where code and documentation disagree

* `client_exit`: a wait does not end when the connection closes without
  SC_KILLCLIENT, nor when the kill is processed between the check of `running`
  and the lock.
* `lifecycle_destroy`: `destroy()` tests `initCount && --initCount`, so it clears
  `running` and destroys the mutex when the count is still positive, and does
  nothing when it has come to 0: the thread goes on and the connection stays
  open until the process ends or the broker does.

What a property of a passing run has to leave out, found with the same models:

* `client_alone` has one thread because `client.cpp:77` compares a notice with
  the one `waittopic` of the client. With two threads, one that waits is not woken
  when the other has called `get()` or `waitForAny()` meanwhile
  (`NotifyWakesWaiters` with `Thread` of two).
* `ConnectedWhileUp` says "while the broker is up" because `client.cpp:172`
  deletes the client object before `running` is cleared: once the broker has
  ended, a call that has passed the check uses a deleted object. And when its
  descriptor is closed `basesend()` throws (`tcp.h:75`) out of `subscribe()`,
  `publish()` or `simpleMsg()` (`client.cpp:119`, `127`, `136`), which leave the
  mutex locked: every later call that locks waits for ever. In `subscribe()` the
  new topic is in its place already.
* `ReadsAdvance` excepts the answer to a subscription: `server.cpp:88-96` sends
  what is stored on each `subscribe()`, also the second to the same name, and
  `subscribe()` makes the topic new. So after a `subscribe()` of any thread a
  GET_WAITNEW may return the data that it has returned before.
* `SessionApart`, `InitWaitsForThread` and `InitEnds` except a session that
  starts while an earlier thread is there, as in `init()`; `destroy()`;
  `init()`. Then `client.cpp:169` and `172` use and delete the object of the new
  session in the old thread, `init()` returns on the flag that the old thread
  has left (`client.cpp:205`) before there is a thread of its own, or spins for
  ever if the old thread clears what the new one has set. `EndReported` has no
  such exception: the end of the connection ends them all, if the process lives.
* `SizesAgree` says by how much a name may be longer than 128: by the bytes of the
  items (`data.cpp:41`, `71`). Beyond that `strcpy()` writes outside the buffer.
* `InStep` has no failing writes: when one of its writes fails, `basesend()`
  begins again with the size, though part of the message is on its way, and the
  receiver takes data for a size; a write that is cut short counts as done.
* `EndSeen` speaks of the end of the connection and not of the kill: a handler
  that comes between the two writes of a message sends its own as the data of
  that one, and the client never sees SC_KILLCLIENT.
* `AllDelivered` excepts two ways to stall. A client that publishes and subscribes
  waits, with full buffers, for a broker that waits for it: `publish()` holds the
  mutex that the network thread needs to go on reading. And a client that stops in
  the middle of a message, or with its buffers full, stops the broker.
* `InitEnds` excepts a broker that ends meanwhile: the thread may have set and
  cleared `running` before the loop in `init()` looks at it, which then never
  ends.
* `SignalEndsListen` speaks of a listen to which data come: the handler only
  sets a flag, and `get()` is not interrupted, so without new data listen does
  not end.

Seen in the code, and simple enough to need no run: the first figure of the
stats topic is the size of the `subscribers` map, which has an entry for every
name that was ever published or subscribed to, where the documentation has the
subscriber count; `clearServer()` deletes the special topics too, and the
version is never published again, so that `diamond version` then waits for ever;
`get()` without waiting returns TOPIC_NOTFOUND for a topic that is subscribed
and has no data yet, where the documentation has TOPIC_NODATA; `isClosed()` does
not tell of a connection that the peer has closed in order. `killserver`,
`clearserver` and `waitforany` of the C linkage return no value, so that the C
program may take a kill that succeeded for an error (both exits are in
`Commands`) and Python's `waitforany()` may raise with a text of NULL. Python's
`destroy()` raises when the broker has gone and leaves the count as it is, so
that the program cannot connect again. A name longer than 128 arrives as another
name, and without items it ends wherever the next 0 is in the receiver's memory.
A server that is started while the system still keeps connections of the one
before it cannot bind: SO_REUSEADDR is set too late.

## What is proved

`ServerProofs` proves, for every set of connections, names and values, every
finite set of descriptors and every number of requests:

* `TypeCorrect`: the type invariant;
* `RoundsAreFresh`: no round serves a descriptor that is not connected or has
  nothing to read;
* `SubscriptionsMirrored`: `subscribers` and `subtopics` are each other's
  inverse, and know connected descriptors only;
* `TopicListAlwaysComplete`: the topic list names every stored topic, unless a
  client's own data stand in its place.

They follow from one inductive invariant, `IInv` in `Server` (theorem
`Invariance`). None of the four is inductive alone:

* that a round stays fresh while its descriptors are served needs `OneOwner`: two
  descriptors of one connection would take each other's requests. And a
  connection has one descriptor only because what waits for `accept()` has none;
* the type of `clients` after `accept()` needs a fresh round: the backlog is not
  empty because the listening socket was readable and nobody else has accepted;
* the type of a request needs it too: it is read from a connection that is there
  and has written it;
* the topic list stays complete when the statistics are stored only because the
  list is never there without them (`ListOK`): every request stores the
  statistics first, and `clearServer()` deletes both;
* the statistics are numbers only if the map whose size they give is finite.

The proofs are lemmas in this order: the map operations; each operator on the
broker's record keeps its type, its subscriptions and the topic list; each
action keeps the invariant; the theorems. The assumptions are those of the
modules: `ServerAssumption` (finitely many descriptors, numbers greater than the
listening one; at most the two signals) and `NamesAssumption` (the special names
are names).

`FramingProofs` proves, for every set of sizes, every number of messages,
attempts and signals:

* `FramingTypeCorrect`: the type invariant and the limit of the attempts,
  whatever `write()` and `read()` do;

and with the assumption `Reliable`, that no signal comes and that no write is
cut short or fails while the receiver is there (without either, frames are lost:
see above):

* `FramingInStep`: the two ends are in step, so the packets are the messages;
* `FramingImplementsFifo`: every step is a step of `Fifo` or none of its steps.

That the packets are the messages is not inductive. `InStep` adds what is between
the two ends: the wire is a stretch of the stream, each byte following the one
before (`Linked`), from the byte that the receiver expects (`Here`) to the one
that the sender writes next (`There`), and the buffer holds the bytes before
those. `NoRetry` says that no write has failed, without which the sender would
write a stretch twice. The argument: writing the next bytes of a message
prolongs a stretch (`RunLinked`), losing or reading some at an end leaves one
(`SubLinked`), a new message changes none (`GrowLinked`), and what a read takes
are the next bytes of the message at hand (`HeadRead`). `RunLinked` is proved for
the numbers of message and place first (`RunChained`, `LinkedIsChain`), which
keeps arithmetic away from pairs.

The assumption of the module is `FramingAssumption`: a size is a positive number,
and so are the length of a count and the number of attempts.

`BackpressureProofs` proves, for every number of clients, publications and faults,
every division of publishing and subscribing, and buffers of every size:

* `OneOrder`: what a subscriber has processed, with what its network thread holds,
  what is on the way and what is about to be pushed, is the broker's history.

It follows from the inductive invariant of `Backpressure`, `IInv` (theorem
`Invariance`). That the stream of a subscriber is the history is kept by every
action that moves a message along it (`HeadMoved`, `ReadKeepsStream`,
`ProcessKeepsStream`, `PushKeepsStream`) and by the one that begins it
(`HandleKeepsStream`), which starts from an empty `todo`: nothing of the message
before is left to be pushed. The types need `RoundIsReady`: what `ReadSize`
takes is there because the round holds descriptors with something to read,
except the one that the broker is at, and that is one because the loop goes
through them in ascending order (`LeastUnique`). The assumption is
`BackpressureAssumption`: descriptors are numbers, roles are of the clients, and
a buffer has room for something. No fairness and no scheduling is assumed.

`ServerProofs` goes on to prove, for the same sets and numbers:

* `AlwaysUpToDate`: the last that a connected subscriber was sent on a topic is
  what the broker holds for it;
* `NeverUnasked`: nobody is sent a topic that they have not subscribed to;
* `KillAlwaysEndsTheStream`: SC_KILLCLIENT is sent by a broker that shuts down, to
  all that it has accepted, and is the last.

All three are about histories: what a client has written, how much of it was
read, and what was sent to it. The broker itself goes by its two maps. The
inductive invariant `StreamInv` (theorem `StreamInvariance`) joins them with
`AsksKept`: `subtopics[i]` is what the present owner of descriptor i has asked
for, and a connection that waits in the backlog has asked for nothing, so that
one that takes over a descriptor begins with nothing. With `IInv`, by which
`subscribers` and `subtopics` mirror each other, a push on a topic reaches
exactly those who have asked for it; so the last notice stays the one that is
stored, through the statistics that precede every request and the list that
follows a new name.

`PubSubProofs` proves that `Server` implements `PubSub`
(`BrokerImplementsPubSub`): its initial state maps to that of `PubSub`, and
every step to one of `PubSub`'s or to none. `Publish` and `Subscribe` of
`PubSub` are the handlers of these requests when the name is a user's
(`PublishIs`, `SubscribeIs`); `Clear` is that of CS_CLEARSERVER (`KillClearIs`);
`Leave` is the end of the client, or the close by the broker that follows a
reset (`ClientIs`, `CloseClientIs`); `Stop` is shutdown, or the end for want of
a descriptor (`ShutdownIs`, `GoneIs`). All else is nothing to `PubSub`: rounds,
accepts, and the broker's own topics (`OwnStore`, `RebuildNothing`), also when a
client publishes under their names. What a connection has received is defined by
recursion over all that was sent to it (`UserPart`). The library's induction
theorems cannot be used here (they take a predicate), so the induction is over
sets of numbers: one that is not empty has a smallest member (`Smallest`), and
one that has 0 and every successor up to a bound has all (`UpTo`). With these
the recursive definition is shown to have a value and to be what its equation
says (`PartExists`, `PartUnique`, `UserPartIs`).

`ClientProofs` proves, for every number of threads, topics, objects, notices,
versions and subscriptions on the way:

* `AlwaysConnectedWhileUp`: as long as the broker is up, the network thread runs,
  the client object lives, no call kills the process and none leaves the mutex
  locked;
* `ReadsAlwaysAdvance` (an action property): what `get()` returns is a notice of
  its topic and never of an older version than what the same thread was returned
  before; with GET_WAITNEW the notice is a later one, and its version newer
  unless it answers a subscription;
* `NoticeAlwaysWakes` (an action property), with the assumption `OneThread`: a
  notice of the topic waited for takes the waiter out of its wait. With two
  threads it is false: the second to wait overwrites `waittopic`.

`IInv` of `Client` (theorem `ClientInvariance`) has, beside the types: what is
on its way is for topics subscribed to, in order, and later than everything held
or returned (`InOrder`); what is held or returned for a topic is of that topic
(`OwnNotices`), and the versions of a topic are sent in order, what is no answer
newer than all before (`VersionsGrow`, with `AskedOK`: the broker knows only
what the client has subscribed to); an object that has changed holds a later
notice than any thread was returned for its topic (`HeldIsNew`); no two topics
share an object, nor does a new topic get one for which a thread still waits
(`OwnObjects`). The hard part is `subscribe()` while another thread waits in
`get()`: it puts a new object in the place of the one that `get()` points to,
and the waiter later returns the old one. `AwaitedIsNew` says why that is no
step back: what a waiter finds in its object is later than what it was returned,
and what the new object holds is later still.

`LifecycleProofs` proves, for any number of sessions and nested calls, every end
and start of brokers, and sessions that start at any time, also while the thread
of another is there (the only assumption is `LifecycleAssumption`, on the bounds):

* `SessionStaysApart`: in a session that began alone the thread uses and deletes
  its own object, that once, and the process comes to no harm while the mutex is
  there;
* `InitWaits` (an action property): `init()` returns before its own thread has
  started only if an earlier one is still there.

Neither is inductive: `IInv` of `Lifecycle` (theorem `LifecycleInvariance`) adds
that `running` is set only while a thread is there that will clear it, so that a
flag left by a thread that has ended never ends the loop in `init()`, and that
nothing has happened yet to the sessions to come. From a session that began
alone on there is one thread, the session's own (`OneThread`): no other can use
its object.

`CommandsProofs` proves, for any number of processes and every choice of what they
run and when:

* `OneBrokerAtATime`: one process at most listens at the port;
* `AlwaysPrintedInOrder`: what a listen prints was published, in that order and
  once; a show prints one topic; an empty line means that the broker has gone.

The inductive invariant (`IInv` in `CommandsProofs`, theorem `CommandsInvariance`)
says what makes the order last from pub to the terminal, although several
brokers may follow each other: a process asks once (`AskedOnce`), so nothing is
published twice and a listen that is about to be answered has printed nothing;
what is printed, held and in the inbox comes in the order of the history
(`Ordered`), the newest publication after all of it (`NewestIsLater`); and as long
as its broker serves, a client keeps its connection and gets no SC_KILLCLIENT
(`Attached`), so that only one whose broker has gone prints an empty line
(`Shown`). TLC has checked this invariant on the instance of run `commands`, too.

`LinkageProofs` proves, for every set of programs, names (of any length),
strings, floats, Python sequences and contents of topics (of any length), every
bound of the queues and whatever lies behind a packet:

* `AlwaysAsPublished`: what the broker keeps and what a program fetches, in C or
  as a tuple in Python, was published under that name, datum for datum, or under
  one of which that name is what `toMessage()` has left;
* `SizesAlwaysAgree`: `toMessage()` fills the buffer it has allocated,
  `fromMessage()` reads a notice to its end and not beyond, and `strcpy()` stays
  in the buffer exactly if the name is not longer than 128 or the items make up
  for it;
* `AlwaysPublishesItsSequence` (an action property): a `publish()` of Python that
  does not raise has sent its own sequence, whatever was called before.

All three stand on a lemma about the codec, `RoundTrip`: `fromMessage()` undoes
`toMessage()`. It is an induction over the items of a topic, made of sets of
numbers as in `PubSubProofs` (`Smallest`, `UpTo`); `Recursion` shows that a
function given by its first value and by steps exists, so that `Sizes`,
`BytesUpTo` and `Reads` are what their equations say (`SizesAre`, `BytesAre`,
`RoundTrip`). Below it are `NetIs` (`ntohl()` undoes `htonl()` on 32 bits),
`PassesAgree` (the second pass writes what the first has counted), `WrittenStays`
(an item, once written, stays where it is) and `TakesItem` (reading at the place
of an item gives that item and ends where it ends). `HeaderIs` says that the type,
the count and the name are read as they were written, or as `NameSent` says of a
name that is clipped (`NameSentIs`); sent again under that name, the message is
the same (`SameMessage`).

The inductive invariant (`IInv` in `LinkageProofs`, theorem `LinkageInvariance`)
says that everything on the way to the broker and back is a message of something
published, a request or a kill (`OnTheWay`), that what the broker and the client
keep was published under that name, but for a topic without data yet
(`StoredPart`, `TopicsPart`), and so what is being fetched (`AccessPart`); that
between the two steps of Python's `publish()` the static topic holds the
conversion of that call's sequence, and that the tuple is the topic fetched
(`PyInv`). TLC has checked it on the instance of run `linkage`, too. The
assumptions are `CodecAssumption` (a clipped length with its 0 fits into a byte,
and what lies behind a packet is letters up to a 0) and `LinkageAssumption`
(constants are of the types above).

Only model-checked: liveness, also that of `Fifo`, `RequestsServed` and
`KillStopsServer` of `Server`, `AllDelivered` of `Backpressure`, `EndReported`
and `InitEnds` of `Lifecycle` and the properties of `Client`, `Framing` and
`Commands` with fairness or `~>`: fairness and ENABLED are out of the prover's
reach.

## Not modelled

* The clock, the example program and the build files: no state of their own.
* The CSV text of a topic, its age, the header and the options of listen, and the
  building of a topic from the arguments of pub: wording and parsing.
* In the Python module, the parsing of arguments, reference counts, objects that
  are no sequence, and strings that are not UTF-8.
* `deletetopic()`, `forceExit()` and `waitForIdle()`, which nothing calls.
* In `Server`, a signal that interrupts a handler in the middle, and one that
  comes before `serv` is set or after it is reset: what a half-done map operation
  leaves is undefined. `Framing` has the message that it cuts in two. In
  `Commands`, signals to a server that does not serve yet and to version, which
  have no handler.
* What `strcpy()` overwrites behind the buffer for a name that is too long, or in
  a `StrMsg` for one of 256 letters and more: that is undefined, and may be
  anything.
* FD_SETSIZE, the wrap of the 32-bit counters, and memory that is not there.

## Plan

Done: all modules above, and the proofs of every safety and action property that
a run checks and of the refinements `Server` to `PubSub` and `Framing` to `Fifo`.
What is left:

1. A theorem that composes `Framing` with `Server`: a connection in `Server` is a
   `Fifo` of messages, so that what holds of whole messages holds of their bytes.
2. Safety facts on which the liveness properties rest, such as that a client which
   waits for a lock is waited for by nobody who holds it.

----------------------------- MODULE Backpressure -----------------------------
(***************************************************************************)
(* What full socket buffers do to the broker and its clients: every write  *)
(* and every read of a message that has begun blocks, the broker has one   *)
(* thread for all of them, and a client writes while it holds the mutex    *)
(* that its other thread needs to go on reading.                           *)
(*                                                                         *)
(* Modules Server and Client have no such bounds.  Here there is one topic,*)
(* with subscribers from the start, and the clients publish on it.  On its *)
(* way to the broker a message is two parts, as basesend() writes it: its  *)
(* size and its data.                                                      *)
(***************************************************************************)
EXTENDS Naturals, Sequences

CONSTANTS Client,       \* the clients, by their descriptors
          Roles,        \* who publishes, and who subscribes
          UpRoom,       \* bound: parts in the buffers on the way to the broker
          DownRoom,     \* bound: messages in those on the way from it
          MaxPublishes, \* bound: calls of publish() in each client
          MaxFaults     \* bound: clients that stop or go away

ASSUME BackpressureAssumption ==
    /\ Client \subseteq Nat
    /\ Roles \subseteq [pubs : SUBSET Client, subs : SUBSET Client]
    /\ UpRoom \in Nat \ {0} /\ DownRoom \in Nat \ {0}
    /\ MaxPublishes \in Nat /\ MaxFaults \in Nat

VARIABLES
    role, faults,
    \* of each client
    process,  \* "runs", "stopped" (by a signal, or for any reason), or "gone"
    app,      \* in publish(): "idle", "lock", "size", "data" (about to write it)
    calls,    \* of publish()
    net,      \* the network thread: "read", or "process" with a packet
    packet,
    got,      \* what process() has been given
    \* the connections
    up, down,
    \* the broker
    turn,     \* the descriptors that are left of this round
    at,       \* "round", "data" (of a message that has begun), or "push"
    todo,     \* the subscribers that publish() has still to write to
    message,  \* that it handles
    history   \* that it has handled

appVars    == <<app, calls>>
netVars    == <<net, packet, got>>
brokerVars == <<turn, at, todo, message, history>>
vars == <<role, faults, process, appVars, netVars, up, down, brokerVars>>

Size    == "size"
Nothing == <<>>

Init ==
    /\ role \in Roles /\ faults = 0
    /\ process = [c \in Client |-> "runs"]
    /\ app = [c \in Client |-> "idle"] /\ calls = [c \in Client |-> 0]
    /\ net = [c \in Client |-> "read"] /\ packet = [c \in Client |-> Nothing]
    /\ got = [c \in Client |-> <<>>]
    /\ up = [c \in Client |-> <<>>] /\ down = [c \in Client |-> <<>>]
    /\ turn = {} /\ at = "round" /\ todo = {} /\ message = Nothing
    /\ history = <<>>

Runs(c) == process[c] = "runs"

(* The mutex of client c.                                                  *)
Locked(c) == app[c] \in {"size", "data"}

-----------------------------------------------------------------------------
(* MyClient::publish().                                                    *)

App(c, from, to) ==
    /\ Runs(c) /\ app[c] = from
    /\ app' = [app EXCEPT ![c] = to]
    /\ UNCHANGED <<role, faults, process, netVars, down, brokerVars>>

Publish(c) ==
    /\ c \in role.pubs /\ calls[c] < MaxPublishes
    /\ App(c, "idle", "lock")
    /\ calls' = [calls EXCEPT ![c] = @ + 1]
    /\ UNCHANGED up

Lock(c) == App(c, "lock", "size") /\ UNCHANGED <<calls, up>>

(* write() blocks until there is room.                                     *)
Write(c, part) ==
    /\ Len(up[c]) < UpRoom
    /\ up' = [up EXCEPT ![c] = Append(@, <<part, calls[c]>>)]
    /\ UNCHANGED calls

WriteSize(c) == App(c, "size", "data") /\ Write(c, Size)

(* and unlock().                                                           *)
WriteData(c) == App(c, "data", "idle") /\ Write(c, "data")

-----------------------------------------------------------------------------
(* The network thread of the client.                                       *)

NetRead(c) ==
    /\ Runs(c) /\ net[c] = "read" /\ down[c] # <<>>
    /\ net' = [net EXCEPT ![c] = "process"]
    /\ packet' = [packet EXCEPT ![c] = Head(down[c])]
    /\ down' = [down EXCEPT ![c] = Tail(@)]
    /\ UNCHANGED <<role, faults, process, appVars, got, up, brokerVars>>

(* Mutant: a message that comes while the mutex is held is dropped.        *)
NetTryProcess(c) ==
    /\ Runs(c) /\ net[c] = "process"
    /\ net' = [net EXCEPT ![c] = "read"]
    /\ got' = IF Locked(c) THEN got ELSE [got EXCEPT ![c] = Append(@, packet[c])]
    /\ packet' = [packet EXCEPT ![c] = Nothing]
    /\ UNCHANGED <<role, faults, process, appVars, up, down, brokerVars>>

(* process(), from lock() to unlock().                                     *)
NetProcess(c) ==
    /\ Runs(c) /\ net[c] = "process" /\ ~Locked(c)
    /\ net' = [net EXCEPT ![c] = "read"]
    /\ got' = [got EXCEPT ![c] = Append(@, packet[c])]
    /\ packet' = [packet EXCEPT ![c] = Nothing]
    /\ UNCHANGED <<role, faults, process, appVars, up, down, brokerVars>>

-----------------------------------------------------------------------------
(* A client that is not scheduled any more, and one that is gone with what *)
(* it has not read.                                                        *)

Fault(c, how) ==
    /\ process' = [process EXCEPT ![c] = how]
    /\ UNCHANGED <<role, appVars, netVars, up, brokerVars>>

Stop(c) ==
    /\ Runs(c) /\ faults < MaxFaults /\ faults' = faults + 1
    /\ Fault(c, "stopped")
    /\ UNCHANGED down

Leave(c) ==
    /\ \/ Runs(c) /\ faults < MaxFaults /\ faults' = faults + 1
       \/ process[c] = "stopped" /\ UNCHANGED faults
    /\ Fault(c, "gone")
    /\ down' = [down EXCEPT ![c] = <<>>]

-----------------------------------------------------------------------------
(* The broker.                                                             *)

Ready(c) == up[c] # <<>>

(* The loops of the broker go through descriptors in ascending order.      *)
Least(c, S) == c \in S /\ \A d \in S : c <= d

Broker == UNCHANGED <<role, faults, process, appVars, netVars>>

Select ==
    /\ at = "round" /\ turn = {} /\ \E c \in Client : Ready(c)
    /\ turn' = {c \in Client : Ready(c)}
    /\ UNCHANGED <<up, down, at, todo, message, history>> /\ Broker

(* TCPServer::update() has come to c: its receiver reads a size.           *)
ReadSize(c) ==
    /\ at = "round" /\ Least(c, turn)
    /\ up' = [up EXCEPT ![c] = Tail(@)]
    /\ at' = "data"
    /\ UNCHANGED <<turn, down, todo, message, history>> /\ Broker

(* Mutant: the broker reads on, and the rest is pushed with what follows.  *)
HandleUnpushed(c) ==
    /\ message' = <<c, Head(up[c])[2]>>
    /\ history' = Append(history, message')
    /\ todo' = {s \in role.subs : Least(s, role.subs)}

(* publish(): stored, and to be pushed to the subscribers.                 *)
Handle(c) ==
    /\ message' = <<c, Head(up[c])[2]>>
    /\ history' = Append(history, message')
    /\ todo' = role.subs

(* and then the data, for which read() waits.                              *)
ReadData(c) ==
    /\ at = "data" /\ Least(c, turn)
    /\ Ready(c)
    /\ up' = [up EXCEPT ![c] = Tail(@)]
    /\ Handle(c)
    /\ at' = "push"
    /\ UNCHANGED <<turn, down>> /\ Broker

(* It has come to its end: the client is closed.                           *)
ReadEnd(c) ==
    /\ at = "data" /\ Least(c, turn)
    /\ ~Ready(c) /\ process[c] = "gone"
    /\ at' = "round" /\ turn' = turn \ {c}
    /\ UNCHANGED <<up, down, todo, message, history>> /\ Broker

(* basesend(): EPIPE if the client is gone, and otherwise write() blocks   *)
(* until there is room.                                                    *)
Push(c) ==
    /\ at = "push" /\ Least(c, todo)
    /\ \/ process[c] = "gone" /\ UNCHANGED down
       \/ /\ process[c] # "gone" /\ Len(down[c]) < DownRoom
          /\ down' = [down EXCEPT ![c] = Append(@, message)]
    /\ todo' = todo \ {c}
    /\ UNCHANGED <<up, turn, at, message, history>> /\ Broker

(* Mutant: the packet is not freed.                                        *)
PushedHeld ==
    /\ at = "push" /\ todo = {}
    /\ at' = "round" /\ turn' = turn \ {message[1]}
    /\ UNCHANGED <<up, down, todo, message, history>> /\ Broker

Pushed ==
    /\ at = "push" /\ todo = {}
    /\ at' = "round" /\ turn' = turn \ {message[1]} /\ message' = Nothing
    /\ UNCHANGED <<up, down, todo, history>> /\ Broker

-----------------------------------------------------------------------------
AppStep(c) == Lock(c) \/ WriteSize(c) \/ WriteData(c)

NetStep(c) == NetRead(c) \/ NetProcess(c)

BrokerStep ==
    \/ Select \/ Pushed
    \/ \E c \in Client : ReadSize(c) \/ ReadData(c) \/ ReadEnd(c) \/ Push(c)

Next ==
    \/ BrokerStep
    \/ \E c \in Client : Publish(c) \/ AppStep(c) \/ NetStep(c) \/ Stop(c) \/ Leave(c)

Spec == Init /\ [][Next]_vars

(* Threads of processes that run are scheduled; nobody has to call         *)
(* publish(), and who stops may stay stopped.                              *)
FairSpec ==
    /\ Spec /\ WF_vars(BrokerStep)
    /\ \A c \in Client : WF_vars(AppStep(c)) /\ WF_vars(NetStep(c))

-----------------------------------------------------------------------------
Messages == Client \X (1 .. MaxPublishes)
Parts    == {Size, "data"} \X (1 .. MaxPublishes)

TypeOK ==
    /\ role \in Roles /\ faults \in 0 .. MaxFaults
    /\ process \in [Client -> {"runs", "stopped", "gone"}]
    /\ app \in [Client -> {"idle", "lock", "size", "data"}]
    /\ calls \in [Client -> 0 .. MaxPublishes]
    /\ \A c \in Client : app[c] # "idle" => calls[c] > 0
    /\ net \in [Client -> {"read", "process"}]
    /\ packet \in [Client -> Messages \cup {Nothing}]
    /\ \A c \in Client : net[c] = "process" => packet[c] \in Messages
    /\ got \in [Client -> Seq(Messages)] /\ down \in [Client -> Seq(Messages)]
    /\ up \in [Client -> Seq(Parts)]
    /\ turn \subseteq Client /\ at \in {"round", "data", "push"}
    /\ todo \subseteq role.subs
    /\ message \in (IF at = "push" THEN Messages ELSE {Nothing})
    /\ history \in Seq(Messages)

(* Every subscriber sees the publications in the one order in which the    *)
(* broker has taken them, none left out, however far each of them has got  *)
(* and whoever waits for whose buffer or mutex: what its network thread    *)
(* has processed, with what it holds, what is on the way and what is about *)
(* to be pushed, is the broker's history (MyServer::publish(),             *)
(* MyClient::process()).                                                   *)
Held(c)   == IF net[c] = "process" THEN <<packet[c]>> ELSE <<>>
Pushes(c) == IF c \in todo THEN <<message>> ELSE <<>>

SameOrder ==
    \A c \in role.subs :
        process[c] # "gone" =>
            ((got[c] \o Held(c)) \o down[c]) \o Pushes(c) = history

(* No buffer holds more than it has room for.                              *)
WithinRoom ==
    \A c \in Client : Len(up[c]) <= UpRoom /\ Len(down[c]) <= DownRoom

(* What the broker reads is there: its round is of descriptors with        *)
(* something to read, but for the one at which it is.                      *)
RoundIsReady ==
    \A c \in turn :
        \/ Ready(c)
        \/ at = "data" /\ Least(c, turn)
        \/ at = "push" /\ c = message[1]

(* The inductive invariant under SameOrder.                                *)
IInv ==
    /\ TypeOK /\ WithinRoom /\ RoundIsReady
    /\ at # "push" => todo = {}
    /\ SameOrder

(* The broker waits for c to read, the network thread of c for its mutex,  *)
(* and the thread that holds it for the broker to read.                    *)
Cycle(c) ==
    /\ at = "push" /\ Least(c, todo) /\ Len(down[c]) = DownRoom
    /\ process[c] # "gone"
    /\ net[c] = "process" /\ Locked(c) /\ Len(up[c]) = UpRoom

(* The broker waits for a client that has stopped: in the middle of a      *)
(* message, or with its buffers full.                                      *)
WaitsForStopped(c) ==
    /\ process[c] = "stopped"
    /\ \/ at = "data" /\ Least(c, turn) /\ ~Ready(c)
       \/ at = "push" /\ Least(c, todo) /\ Len(down[c]) = DownRoom

Stalled == \E c \in Client : Cycle(c) \/ WaitsForStopped(c)

(* These are the only two ways in which the service stalls.  In all others *)
(* every call of publish() in a process that runs returns, and what was    *)
(* written is pushed to every subscriber that runs, also with another one  *)
(* stopped and with its buffers not yet full.                              *)
AllDelivered ==
    []<>(Stalled \/ \A c \in Client :
                       /\ Runs(c) => app[c] = "idle"
                       /\ up[c] = <<>> \/ (process[c] # "runs" /\ Len(up[c]) = 1)
                       /\ c \in role.subs /\ Runs(c) => got[c] = history)
=============================================================================

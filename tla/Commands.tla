------------------------------ MODULE Commands ------------------------------
(***************************************************************************)
(* The command line programs, main.cpp and mainc.c: processes that are     *)
(* started at any time and find each other through one port.  A server     *)
(* command becomes the broker; the others connect to it, do one thing with *)
(* one topic, and exit.                                                    *)
(*                                                                         *)
(* The broker and the client library are as in modules Server and Client,  *)
(* reduced to what the commands do with them: one topic and the topic      *)
(* "version", and one thread of the application in each process.           *)
(***************************************************************************)
EXTENDS Integers, Sequences, FiniteSets, SequencesExt

CONSTANTS Process,   \* numbers of processes; also what a "pub" publishes
          Scenarios, \* functions from Process to what it runs: [cmd, lang]
          MaxSignals \* bound: signals that are sent to any of them

Commands == {"server", "version", "check", "listen", "show", "pub", "kill"}

ASSUME CommandsAssumption ==
    /\ Process \subseteq Nat \ {0} /\ MaxSignals \in Nat
    /\ \A run \in Scenarios :
          run \in [Process -> [cmd : Commands, lang : {"C++"}] \cup
                              [cmd : Commands \ {"version", "check"}, lang : {"C"}]]

NoData   == 0
NoBroker == 0
Version  == -1        \* what is stored under "version"
SC_KILLCLIENT == -2   \* in the place of data

VARIABLES
    run,        \* the scenario
    signals,    \* how many there have been
    pc,         \* where each process is
    code,       \* its exit code; "none" as long as it runs
    out,        \* the data that it has printed
    quit,       \* exitListenLoop
    phase,      \* of a server: "none", "serving", "killed" (serverKill is set),
                \* "sleep" and "dying" (in shutdown(), for good), or "ended"
    timewait,   \* the port is kept for connections that the broker closed first
    history,    \* what has been stored on the topic, by the process that published it
    stored,     \* the broker's: topic -> data or NoData
    subs,       \* the processes that have subscribed
    at,         \* the broker that a process is connected to, or NoBroker
    conn,       \* its connection: "none", "backlog", "open", "left" or "closed"
    running,    \* the client's flag
    topic,      \* the client's topic: state and data
    woken,      \* it is not in pthread_cond_wait()
    requests,   \* on the way to the broker
    inbox       \* on the way from the broker

procVars   == <<pc, code, out, quit>>
brokerVars == <<phase, timewait, history, stored, subs>>
clientVars == <<running, topic, woken>>
vars == <<run, signals, procVars, brokerVars, clientVars, at, conn, requests, inbox>>

Topics == {"topic", "version"}

(* The topic that a command is about.                                      *)
Name(p) == IF run[p].cmd = "version" THEN "version" ELSE "topic"

Init ==
    /\ run \in Scenarios /\ signals = 0
    /\ pc = [p \in Process |-> "start"] /\ code = [p \in Process |-> "none"]
    /\ out = [p \in Process |-> <<>>] /\ quit = [p \in Process |-> FALSE]
    /\ phase = [p \in Process |-> "none"] /\ timewait = FALSE
    /\ history = <<>> /\ stored = [n \in Topics |-> NoData] /\ subs = {}
    /\ at = [p \in Process |-> NoBroker] /\ conn = [p \in Process |-> "none"]
    /\ running = [p \in Process |-> FALSE]
    /\ topic = [p \in Process |-> [state |-> "TOPIC_NODATA", data |-> NoData]]
    /\ woken = [p \in Process |-> TRUE]
    /\ requests = [p \in Process |-> <<>>] /\ inbox = [p \in Process |-> <<>>]

Alive(p)     == code[p] = "none"
Listening(s) == phase[s] \in {"serving", "killed", "sleep", "dying"}

Goes(p, from, to) == Alive(p) /\ pc[p] = from /\ pc' = [pc EXCEPT ![p] = to]

(* exit(): the system closes the connection.                               *)
Leaves(p) ==
    conn' = [conn EXCEPT ![p] = IF @ \in {"open", "backlog"} THEN "left" ELSE @]

Exits(p, c) ==
    /\ code' = [code EXCEPT ![p] = c]
    /\ pc' = [pc EXCEPT ![p] = "exited"]
    /\ Leaves(p)

-----------------------------------------------------------------------------
(* init().                                                                 *)

InitCalled(p) ==
    /\ Alive(p) /\ pc[p] = "start"
    /\ ~(run[p].cmd = "server" /\ run[p].lang = "C")

Connects(p, s) ==
    /\ InitCalled(p) /\ Listening(s)
    /\ at' = [at EXCEPT ![p] = s]

(* Where a command goes on from there.                                     *)
Second(p) == CASE run[p].cmd \in {"listen", "show", "version"} -> "subscribe"
               [] run[p].cmd \in {"pub", "kill"}               -> "request"
               [] run[p].cmd = "check"                         -> "finish"

InitConnects(p) ==
    /\ run[p].cmd # "server"
    /\ \E s \in Process : Connects(p, s)
    /\ conn' = [conn EXCEPT ![p] = "backlog"]
    /\ running' = [running EXCEPT ![p] = TRUE]
    /\ pc' = [pc EXCEPT ![p] = Second(p)]
    /\ UNCHANGED <<run, signals, code, out, quit, brokerVars, topic, woken, requests, inbox>>

(* "Failed: ..."                                                           *)
InitThrows(p) ==
    /\ InitCalled(p) /\ run[p].cmd # "server"
    /\ \A s \in Process : ~Listening(s)
    /\ Exits(p, "1")
    /\ UNCHANGED <<run, signals, out, quit, brokerVars, clientVars, at, requests, inbox>>

(* subscribe(), publish() and killServer().                                *)
Asks(p, from, to, request) ==
    /\ Goes(p, from, to) /\ running[p]
    /\ requests' = [requests EXCEPT ![p] = Append(@, request)]
    /\ UNCHANGED <<run, signals, code, out, quit, brokerVars, running, woken, at, conn, inbox>>

Subscribes(p) ==
    /\ Asks(p, "subscribe", IF run[p].cmd = "listen" THEN "loop" ELSE "get", "subscribe")
    /\ topic' = [topic EXCEPT ![p] = [state |-> "TOPIC_NODATA", data |-> NoData]]

Requests(p) == Asks(p, "request", "finish", run[p].cmd) /\ UNCHANGED topic

(* "not connected".  Or the connection has gone under it, and it dies of   *)
(* the second write: SIGPIPE.                                              *)
RequestThrows(p) ==
    /\ Alive(p) /\ pc[p] \in {"subscribe", "request"}
    /\ \/ ~running[p] /\ Exits(p, "1")
       \/ conn[p] = "closed" /\ Exits(p, "SIGPIPE")
    /\ UNCHANGED <<run, signals, out, quit, brokerVars, clientVars, at, requests, inbox>>

-----------------------------------------------------------------------------
(* get(): the check, the lock, and the wait.  "listen" waits for new data, *)
(* "show" and "version" for any, which is the first that comes.            *)

After(p) == IF run[p].cmd = "listen" THEN "loop" ELSE "finish"

Gets(p, from, to) ==
    /\ Goes(p, from, to)
    /\ UNCHANGED <<run, signals, code, quit, brokerVars, running, at, conn, requests, inbox>>

(* Mutant: while(isRunning()).                                             *)
LoopTestRunning(p) ==
    /\ Gets(p, "loop", IF running[p] THEN "get" ELSE "finish")
    /\ UNCHANGED <<out, topic, woken>>

(* while(isRunning() && !exitListenLoop); the C program has no such flag.  *)
LoopTest(p) ==
    /\ Gets(p, "loop", IF running[p] /\ ~quit[p] THEN "get" ELSE "finish")
    /\ UNCHANGED <<out, topic, woken>>

(* A topic that is not valid: show prints an empty line, version the       *)
(* default of Datum::s(); listen, and the programs in C, print nothing.    *)
PrintsInvalid(p) ==
    out' = IF run[p].cmd # "listen" /\ run[p].lang = "C++"
             THEN [out EXCEPT ![p] = Append(@, NoData)] ELSE out

GetNotConnected(p) ==
    /\ ~running[p]
    /\ \/ Gets(p, "get", After(p))
       \/ Gets(p, "wait", After(p)) /\ woken[p]
    /\ PrintsInvalid(p)
    /\ UNCHANGED <<topic, woken>>

GetLocks(p) ==
    /\ running[p]
    /\ Gets(p, "get", "locked")
    /\ UNCHANGED <<out, topic, woken>>

(* Mutant: the topic stays changed.                                        *)
PrintsAgain(p) ==
    /\ topic[p].state = "TOPIC_CHANGED"
    /\ out' = [out EXCEPT ![p] = Append(@, topic[p].data)]
    /\ UNCHANGED topic

Prints(p) ==
    /\ topic[p].state = "TOPIC_CHANGED"
    /\ out' = [out EXCEPT ![p] = Append(@, topic[p].data)]
    /\ topic' = [topic EXCEPT ![p].state = "TOPIC_UNCHANGED"]

GetReturns(p) ==
    /\ \/ Gets(p, "locked", After(p))
       \/ Gets(p, "wait", After(p)) /\ woken[p] /\ running[p]
    /\ Prints(p)
    /\ UNCHANGED woken

GetWaits(p) ==
    /\ Gets(p, "locked", "wait")
    /\ topic[p].state # "TOPIC_CHANGED"
    /\ woken' = [woken EXCEPT ![p] = FALSE]
    /\ UNCHANGED <<out, topic>>

(* destroy(), which leaves the connection to exit(), and "return 0".  In C *)
(* killserver returns no value, and the program takes that for an error.   *)
Finishes(p) ==
    /\ Alive(p) /\ pc[p] = "finish"
    /\ \/ Exits(p, "0")
       \/ run[p] = [cmd |-> "kill", lang |-> "C"] /\ Exits(p, "1")
    /\ UNCHANGED <<run, signals, out, quit, brokerVars, clientVars, at, requests, inbox>>

(* handler(): in the loop of listen, a flag; elsewhere, destroy() and      *)
(* exit(1).                                                                *)
Signal(p) ==
    /\ Alive(p) /\ run[p].cmd \notin {"server", "version"}
    /\ signals < MaxSignals /\ signals' = signals + 1
    /\ IF run[p] = [cmd |-> "listen", lang |-> "C++"]
             /\ pc[p] \in {"loop", "get", "locked", "wait"}
         THEN quit' = [quit EXCEPT ![p] = TRUE] /\ UNCHANGED <<pc, code, conn>>
         ELSE Exits(p, "1") /\ UNCHANGED quit
    /\ UNCHANGED <<run, out, brokerVars, clientVars, at, requests, inbox>>

-----------------------------------------------------------------------------
(* The thread of the client.                                               *)

(* Mutant: nobody is woken.                                                *)
NetTakesQuietly(p) ==
    /\ Alive(p) /\ running[p] /\ inbox[p] # <<>>
    /\ inbox' = [inbox EXCEPT ![p] = Tail(@)]
    /\ UNCHANGED <<woken, run, signals, procVars, brokerVars, at, requests>>

NetTakes(p) ==
    /\ Alive(p) /\ running[p] /\ inbox[p] # <<>>
    /\ inbox' = [inbox EXCEPT ![p] = Tail(@)]
    /\ woken' = [woken EXCEPT ![p] = TRUE]
    /\ UNCHANGED <<run, signals, procVars, brokerVars, at, requests>>

NetNotice(p) ==
    /\ NetTakes(p)
    /\ Head(inbox[p]) # SC_KILLCLIENT
    /\ topic' = [topic EXCEPT ![p] = [state |-> "TOPIC_CHANGED", data |-> Head(inbox[p])]]
    /\ UNCHANGED <<running, conn>>

(* The thread ends, and closes its end of the connection.                  *)
NetKill(p) ==
    /\ NetTakes(p)
    /\ Head(inbox[p]) = SC_KILLCLIENT
    /\ running' = [running EXCEPT ![p] = FALSE]
    /\ Leaves(p)
    /\ UNCHANGED topic

(* The other end is closed: nobody is woken.                               *)
NetEnd(p) ==
    /\ Alive(p) /\ running[p] /\ inbox[p] = <<>> /\ conn[p] = "closed"
    /\ running' = [running EXCEPT ![p] = FALSE]
    /\ UNCHANGED <<run, signals, procVars, brokerVars, topic, woken, at, conn, requests, inbox>>

-----------------------------------------------------------------------------
(* The server command: "first, try to connect, expecting an exception".    *)

AlreadyRunning(p) ==
    /\ run[p].cmd = "server"
    /\ \E s \in Process : Connects(p, s)
    /\ Exits(p, "1")
    /\ UNCHANGED <<run, signals, out, quit, brokerVars, clientVars, requests, inbox>>

NoneRunning(p) ==
    /\ run[p].cmd = "server" /\ Alive(p) /\ pc[p] = "start"
    /\ run[p].lang = "C" \/ \A s \in Process : ~Listening(s)
    /\ pc' = [pc EXCEPT ![p] = "bind"]
    /\ UNCHANGED <<run, signals, code, out, quit, brokerVars, clientVars, at, conn, requests, inbox>>

Started(p) ==
    /\ Goes(p, "bind", "serve")
    /\ phase' = [phase EXCEPT ![p] = "serving"]
    /\ stored' = [topic |-> NoData, version |-> Version]
    /\ subs' = {}
    /\ UNCHANGED <<run, signals, code, out, quit, timewait, history, clientVars, at, conn, requests, inbox>>

(* Mutant: the address can be used again while another listens there.      *)
BindsShared(p) == Started(p)

(* bind(), for a socket on which SO_REUSEADDR is not set yet.              *)
InUse == timewait \/ \E s \in Process : Listening(s)

Binds(p) == ~InUse /\ Started(p)

BindFails(p) ==
    /\ Alive(p) /\ pc[p] = "bind"
    /\ InUse
    /\ Exits(p, "1")
    /\ UNCHANGED <<run, signals, out, quit, brokerVars, clientVars, at, requests, inbox>>

Accepts(s, p) ==
    /\ phase[s] \in {"serving", "killed"} /\ at[p] = s /\ conn[p] = "backlog"
    /\ conn' = [conn EXCEPT ![p] = "open"]
    /\ UNCHANGED <<run, signals, procVars, brokerVars, clientVars, at, requests, inbox>>

(* Mutant: a client that has left is forgotten with what it has sent.      *)
TakesOpen(s, p, request) ==
    /\ phase[s] \in {"serving", "killed"} /\ at[p] = s /\ conn[p] = "open"
    /\ requests[p] # <<>> /\ Head(requests[p]) = request
    /\ requests' = [requests EXCEPT ![p] = Tail(@)]
    /\ UNCHANGED <<run, signals, procVars, clientVars, at, conn>>

(* process(), for a client that is there or has left.                      *)
Takes(s, p, request) ==
    /\ phase[s] \in {"serving", "killed"} /\ at[p] = s /\ conn[p] \in {"open", "left"}
    /\ requests[p] # <<>> /\ Head(requests[p]) = request
    /\ requests' = [requests EXCEPT ![p] = Tail(@)]
    /\ UNCHANGED <<run, signals, procVars, clientVars, at, conn>>

Notify(ps, d) ==
    inbox' = [p \in Process |-> IF p \in ps THEN Append(inbox[p], d) ELSE inbox[p]]

TakesPub(s, p) ==
    /\ Takes(s, p, "pub")
    /\ history' = Append(history, p)
    /\ stored' = [stored EXCEPT !.topic = p]
    /\ Notify({q \in subs : Name(q) = "topic"}, p)
    /\ UNCHANGED <<phase, timewait, subs>>

(* Mutant: what is stored is not sent to a new subscriber.                 *)
TakesSubscribeOnly(s, p) ==
    /\ Takes(s, p, "subscribe")
    /\ subs' = subs \cup {p}
    /\ UNCHANGED <<phase, timewait, history, stored, inbox>>

TakesSubscribe(s, p) ==
    /\ Takes(s, p, "subscribe")
    /\ subs' = subs \cup {p}
    /\ Notify({q \in {p} : stored[Name(q)] # NoData}, stored[Name(p)])
    /\ UNCHANGED <<phase, timewait, history, stored>>

(* Mutant: the flag is cleared again.                                      *)
TakesKillQuietly(s, p) ==
    /\ Takes(s, p, "kill")
    /\ UNCHANGED <<brokerVars, inbox>>

TakesKill(s, p) ==
    /\ Takes(s, p, "kill")
    /\ phase' = [phase EXCEPT ![s] = "killed"]
    /\ UNCHANGED <<timewait, history, stored, subs, inbox>>

Unsubscribes(s, p) ==
    /\ phase[s] \in {"serving", "killed"} /\ at[p] = s
    /\ conn[p] = "left" /\ requests[p] = <<>>
    /\ conn' = [conn EXCEPT ![p] = "closed"]
    /\ subs' = subs \ {p}
    /\ UNCHANGED <<run, signals, procVars, phase, timewait, history, stored, clientVars, at, requests, inbox>>

(* shutdown(), at the end of a round or in the handler.                    *)
Shuts(s, how) ==
    /\ phase' = [phase EXCEPT ![s] = how]
    /\ Notify({p \in Process : at[p] = s /\ conn[p] = "open"}, SC_KILLCLIENT)
    /\ UNCHANGED <<run, procVars, timewait, history, stored, subs, clientVars, at, conn,
                   requests>>

RoundEnds(s) == phase[s] = "killed" /\ Shuts(s, "sleep") /\ UNCHANGED signals

SignalTaken(s) ==
    /\ phase[s] \in {"serving", "killed"} /\ Shuts(s, "dying")
    /\ signals < MaxSignals /\ signals' = signals + 1

(* "wait for client death", for two seconds, and then everything is        *)
(* closed: reset if there is something to read, and with the broker as the *)
(* first to close where the client has not.  In C the process goes on to   *)
(* its usage.                                                              *)
Closes(s) ==
    /\ phase[s] \in {"sleep", "dying"}
    /\ phase' = [phase EXCEPT ![s] = "ended"]
    /\ pc' = [pc EXCEPT ![s] = "exited"]
    /\ code' = [code EXCEPT ![s] = IF phase[s] = "sleep" /\ run[s].lang = "C++"
                                     THEN "0" ELSE "1"]
    /\ LET here == {p \in Process : at[p] = s}
       IN  /\ conn' = [p \in Process |-> IF p \in here THEN "closed" ELSE conn[p]]
           /\ inbox' = [p \in Process |-> IF p \in here /\ requests[p] # <<>>
                                            THEN <<>> ELSE inbox[p]]
           /\ timewait' = (\E p \in here : conn[p] = "open" /\ requests[p] = <<>>)
    /\ UNCHANGED <<run, signals, out, quit, history, stored, subs, clientVars, at, requests>>

TimePasses ==
    /\ timewait /\ timewait' = FALSE
    /\ UNCHANGED <<run, signals, procVars, phase, history, stored, subs, clientVars, at, conn,
                   requests, inbox>>

-----------------------------------------------------------------------------
Starts(p) == InitConnects(p) \/ InitThrows(p) \/ AlreadyRunning(p) \/ NoneRunning(p)

Runs(p) ==
    \/ Subscribes(p) \/ Requests(p) \/ RequestThrows(p)
    \/ LoopTest(p) \/ GetNotConnected(p) \/ GetLocks(p) \/ GetReturns(p) \/ GetWaits(p)
    \/ Finishes(p) \/ Binds(p) \/ BindFails(p)

NetRuns(p) == NetNotice(p) \/ NetKill(p) \/ NetEnd(p)

Serves(s) ==
    \/ \E p \in Process :
          \/ Accepts(s, p) \/ TakesPub(s, p) \/ TakesSubscribe(s, p) \/ TakesKill(s, p)
          \/ Unsubscribes(s, p)
    \/ RoundEnds(s) \/ Closes(s)

Next ==
    \/ \E p \in Process :
          Starts(p) \/ Runs(p) \/ NetRuns(p) \/ Serves(p) \/ Signal(p) \/ SignalTaken(p)
    \/ TimePasses

Spec == Init /\ [][Next]_vars

(* Processes and threads that have something to do are scheduled; commands *)
(* need not be given, nor signals.                                         *)
FairSpec == Spec /\ \A p \in Process : WF_vars(Runs(p)) /\ WF_vars(NetRuns(p)) /\ WF_vars(Serves(p))

-----------------------------------------------------------------------------
Is(p, cmd) == run[p].cmd = cmd
Served(p)  == at[p] # NoBroker /\ phase[at[p]] = "serving"

(* README, check: "The server also does this, so two servers don't run" -  *)
(* and when two are started at once and neither finds the other.           *)
OneServer == Cardinality({s \in Process : Listening(s)}) <= 1

(* What listen prints was published in that order, each of it printed once;*)
(* show prints one topic; and an empty line only when the broker has gone. *)
PrintedInOrder ==
    \A p \in Process :
        LET place(v) == CHOOSE i \in 1 .. Len(history) : history[i] = v
        IN  /\ Is(p, "listen") =>
                  \A i \in 1 .. Len(out[p]) :
                     /\ out[p][i] \in ToSet(history)
                     /\ i > 1 => place(out[p][i - 1]) < place(out[p][i])
            /\ Is(p, "show") => out[p] = <<>> \/ out[p] \in {<<v>> : v \in ToSet(history) \cup {NoData}}
            /\ NoData \in ToSet(out[p]) => ~running[p] /\ ~Served(p)

(* What is owed to a process by the three properties that follow is owed   *)
(* for good until it gets it: "again and again, to none" says that it does.*)

(* A pub that exits with 0 has been told nothing by the broker; still,     *)
(* what it has written before its exit is stored, unless the broker ends.  *)
PubStored ==
    []<>(\A p \in Process :
            Is(p, "pub") /\ code[p] = "0" => p \in ToSet(history) \/ ~Served(p))

(* A listen prints what is stored last: in the end it is never one behind, *)
(* whatever notices came while it was printing.                            *)
ListenPrintsLast ==
    []<>(\A p \in subs :
            Is(p, "listen") /\ Alive(p) /\ ~quit[p] /\ Served(p) /\ stored.topic # NoData
               => stored.topic \in ToSet(out[p]))

(* diamond kill: when it has exited with 0, the broker ends.               *)
KillEnds ==
    []<>(\A p \in Process :
            Is(p, "kill") /\ code[p] = "0" => at[p] # NoBroker /\ phase[at[p]] = "ended")

(* README, show: it waits "until the topic contains data": when there is   *)
(* some, it ends, also if the broker ends at the same time.                *)
DataFor(p) == \E i \in 1 .. Len(inbox[p]) : inbox[p][i] # SC_KILLCLIENT

ShowEnds ==
    []<>(\A p \in Process :
            Is(p, "listen") \/ ~Alive(p)
            \/ /\ ~(Served(p) /\ p \in subs /\ stored[Name(p)] # NoData)
               /\ ~DataFor(p) /\ topic[p].state = "TOPIC_NODATA")

(* README, listen: "It can be killed with the usual signals": not before   *)
(* the next data, but then for certain (for one listen: with more signals  *)
(* than one, this says that one of them ends).                             *)
SignalEndsListen ==
    (\E p \in Process : quit[p] /\ DataFor(p)) ~> (\E p \in Process : quit[p] /\ ~Alive(p))
=============================================================================

--------------------------- MODULE CommandsProofs ----------------------------
(* Theorems about the command line programs, for every number of processes *)
(* and every choice of the commands that they run.                         *)
EXTENDS Commands, SequenceTheorems, FiniteSetTheorems, TLAPS

-----------------------------------------------------------------------------
(* The inductive invariant, and its parts.                                 *)

TypeOK ==
    /\ run \in Scenarios
    /\ pc \in [Process -> {"start", "bind", "serve", "subscribe", "request", "loop", "get",
                           "locked", "wait", "finish", "exited"}]
    /\ code \in [Process -> {"none", "0", "1", "SIGPIPE"}]
    /\ out \in [Process -> Seq(Int)]
    /\ phase \in [Process -> {"none", "serving", "killed", "sleep", "dying", "ended"}]
    /\ history \in Seq(Process)
    /\ stored \in [Topics -> Int]
    /\ subs \subseteq Process
    /\ at \in [Process -> Process \cup {NoBroker}]
    /\ conn \in [Process -> {"none", "backlog", "open", "left", "closed"}]
    /\ running \in [Process -> BOOLEAN]
    /\ topic \in [Process -> [state : {"TOPIC_NODATA", "TOPIC_UNCHANGED", "TOPIC_CHANGED"},
                              data : Int]]
    /\ requests \in [Process -> Seq(Commands \cup {"subscribe"})]
    /\ inbox \in [Process -> Seq(Int)]

(* One broker at a time; a process that is not yet one has no clients.     *)
Alone == \A s, r \in Process : Listening(s) /\ Listening(r) => s = r

Outside == {"start", "bind", "serve"}

Begun ==
    \A p \in Process :
        /\ pc[p] \in {"start", "bind"} => phase[p] = "none"
        /\ pc[p] \in Outside => at[p] = NoBroker /\ inbox[p] = <<>>
        /\ at[p] # NoBroker => phase[at[p]] # "none"

(* As long as its broker serves, a client has its connection.              *)
Attached ==
    \A p \in Process :
        Served(p) /\ Alive(p) =>
            /\ running[p] /\ conn[p] \in {"backlog", "open"}
            /\ \A k \in 1 .. Len(inbox[p]) : inbox[p][k] # SC_KILLCLIENT

(* A process asks for one thing, once.                                     *)
Before == Outside \cup {"subscribe", "request"}

AskedOnce ==
    \A p \in Process :
        /\ Len(requests[p]) <= 1
        /\ pc[p] \in Before => requests[p] = <<>> /\ out[p] = <<>>
        /\ p \in subs \cup ToSet(history) => requests[p] = <<>> /\ pc[p] \notin Before

(* What is stored, and what is on its way, was published.                  *)
StoredOK ==
    /\ \A i, j \in 1 .. Len(history) : history[i] = history[j] => i = j
    /\ stored["topic"] \in ToSet(history) \cup {NoData}
    /\ stored["version"] \in {NoData, Version}

Valid(p) == IF Name(p) = "topic" THEN ToSet(history) ELSE {Version}

Carried ==
    \A p \in Process :
        /\ \A k \in 1 .. Len(inbox[p]) : inbox[p][k] \in Valid(p) \cup {SC_KILLCLIENT}
        /\ topic[p].state # "TOPIC_NODATA" => topic[p].data \in Valid(p)
        /\ pc[p] \in Before \/ requests[p] # <<>> =>
              /\ topic[p].state = "TOPIC_NODATA"
              /\ \A k \in 1 .. Len(inbox[p]) : inbox[p][k] = SC_KILLCLIENT

(* A listen has printed, holds and will get the data in the order in which *)
(* it was published.                                                       *)
Earlier(h, u, v) == \E i, j \in 1 .. Len(h) : i < j /\ h[i] = u /\ h[j] = v

Printed(p, v) == \A i \in 1 .. Len(out[p]) : Earlier(history, out[p][i], v)

Ordered ==
    \A p \in Process : Is(p, "listen") =>
        /\ requests[p] # <<>> => out[p] = <<>>
        /\ \A i \in 1 .. Len(out[p]) :
              /\ out[p][i] \in ToSet(history)
              /\ i > 1 => Earlier(history, out[p][i - 1], out[p][i])
        /\ topic[p].state = "TOPIC_CHANGED" => Printed(p, topic[p].data)
        /\ \A k \in 1 .. Len(inbox[p]) : inbox[p][k] # SC_KILLCLIENT =>
              /\ Printed(p, inbox[p][k])
              /\ topic[p].state # "TOPIC_NODATA" =>
                    Earlier(history, topic[p].data, inbox[p][k])
              /\ \A j \in 1 .. k - 1 : inbox[p][j] # SC_KILLCLIENT =>
                    Earlier(history, inbox[p][j], inbox[p][k])

(* A show prints once, and an empty line only when its broker has gone.    *)
Shown ==
    \A p \in Process :
        /\ Is(p, "show") =>
              /\ out[p] = <<>> \/ out[p] \in {<<v>> : v \in ToSet(history) \cup {NoData}}
              /\ pc[p] \notin {"finish", "exited"} => out[p] = <<>>
        /\ NoData \in ToSet(out[p]) => ~running[p] /\ ~Served(p)

IInv ==
    /\ TypeOK /\ Alone /\ Begun /\ Attached /\ AskedOnce
    /\ StoredOK /\ Carried /\ Ordered /\ Shown

-----------------------------------------------------------------------------
(* Types.                                                                  *)

LEMMA RunTypes ==
    ASSUME TypeOK
    PROVE  \A p \in Process :
              /\ run[p].cmd \in Commands /\ run[p].lang \in {"C", "C++"}
              /\ p \in Int /\ p > 0
  <1>1. \A p \in Process : run[p] \in [cmd : Commands, lang : {"C++"}] \cup
                                      [cmd : Commands \ {"version", "check"}, lang : {"C"}]
    BY CommandsAssumption DEF TypeOK
  <1> QED BY <1>1, CommandsAssumption

(* A message sent to some of the processes.                                *)
LEMMA NotifyEffect ==
    ASSUME TypeOK, NEW ps, NEW d \in Int, Notify(ps, d)
    PROVE  /\ inbox' \in [Process -> Seq(Int)]
           /\ \A p \in Process : p \notin ps => inbox'[p] = inbox[p]
           /\ \A p \in Process : p \in ps =>
                 /\ Len(inbox'[p]) = Len(inbox[p]) + 1 /\ Len(inbox[p]) \in Nat
                 /\ inbox'[p][Len(inbox[p]) + 1] = d
                 /\ \A k \in 1 .. Len(inbox[p]) : inbox'[p][k] = inbox[p][k]
  <1>1. \A p \in Process : inbox[p] \in Seq(Int)
    BY DEF TypeOK
  <1>2. \A p \in Process : /\ Append(inbox[p], d) \in Seq(Int)
                           /\ Len(Append(inbox[p], d)) = Len(inbox[p]) + 1
                           /\ Append(inbox[p], d)[Len(inbox[p]) + 1] = d
                           /\ \A k \in 1 .. Len(inbox[p]) : Append(inbox[p], d)[k] = inbox[p][k]
    BY <1>1, AppendProperties
  <1>3. \A p \in Process : Len(inbox[p]) \in Nat
    BY <1>1, LenProperties
  <1>4. inbox' = [p \in Process |-> IF p \in ps THEN Append(inbox[p], d) ELSE inbox[p]]
    BY DEF Notify
  <1>5. \A p \in Process : inbox'[p] = IF p \in ps THEN Append(inbox[p], d) ELSE inbox[p]
    BY <1>4
  <1> QED BY <1>1, <1>2, <1>3, <1>4, <1>5

(* A sequence without its head.                                            *)
LEMMA TailOf ==
    ASSUME NEW S, NEW s \in Seq(S), s # <<>>
    PROVE  /\ Head(s) = s[1] /\ Head(s) \in S /\ 1 \in 1 .. Len(s)
           /\ Tail(s) \in Seq(S) /\ Len(Tail(s)) = Len(s) - 1 /\ Len(s) \in Nat
           /\ \A k \in 1 .. Len(Tail(s)) : k + 1 \in 1 .. Len(s) /\ Tail(s)[k] = s[k + 1]
  <1>1. Len(s) \in Nat /\ Len(s) # 0
    BY EmptySeq, LenProperties
  <1>2. Head(s) = s[1]
    OBVIOUS
  <1> QED BY <1>1, <1>2, HeadTailProperties

LEMMA ToSetAppend ==
    ASSUME NEW S, NEW s \in Seq(S), NEW e \in S
    PROVE  ToSet(Append(s, e)) = ToSet(s) \cup {e}
  <1> DEFINE n == Len(s)
             t == Append(s, e)
  <1>1. /\ n \in Nat /\ DOMAIN s = 1 .. n /\ DOMAIN t = 1 .. n + 1
        /\ t[n + 1] = e /\ \A i \in 1 .. n : t[i] = s[i]
    BY AppendProperties, LenProperties
  <1> HIDE DEF n, t
  <1>2. DOMAIN t = DOMAIN s \cup {n + 1} /\ \A i \in DOMAIN s : t[i] = s[i]
    BY <1>1
  <1>3. ToSet(t) = ToSet(s) \cup {e}
    BY <1>1, <1>2 DEF ToSet
  <1> QED BY <1>3 DEF t

LEMMA StartsTyped ==
    ASSUME TypeOK, NEW p \in Process, Starts(p)
    PROVE  TypeOK'
  <1> USE DEF procVars, brokerVars, clientVars
  <1>1. CASE InitConnects(p)
    BY <1>1, RunTypes DEF InitConnects, Connects, Second, Commands, TypeOK
  <1>2. CASE InitThrows(p)
    BY <1>2 DEF InitThrows, Exits, Leaves, TypeOK
  <1>3. CASE AlreadyRunning(p)
    BY <1>3 DEF AlreadyRunning, Connects, Exits, Leaves, TypeOK
  <1>4. CASE NoneRunning(p)
    BY <1>4 DEF NoneRunning, TypeOK
  <1> QED BY <1>1, <1>2, <1>3, <1>4 DEF Starts

LEMMA RunsTyped ==
    ASSUME TypeOK, NEW p \in Process, Runs(p)
    PROVE  TypeOK'
  <1> USE DEF procVars, brokerVars, clientVars
  <1>1. ASSUME NEW request \in Commands \cup {"subscribe"}, NEW from, NEW to,
               Asks(p, from, to, request)
        PROVE  requests' \in [Process -> Seq(Commands \cup {"subscribe"})]
    <2>1. Append(requests[p], request) \in Seq(Commands \cup {"subscribe"})
      BY AppendProperties DEF TypeOK
    <2> HIDE DEF Commands
    <2> QED BY <1>1, <2>1 DEF Asks, TypeOK
  <1>2. CASE Subscribes(p)
    <2>1. requests' \in [Process -> Seq(Commands \cup {"subscribe"})]
      BY <1>1, <1>2 DEF Subscribes
    <2>2. topic' \in [Process -> [state : {"TOPIC_NODATA", "TOPIC_UNCHANGED", "TOPIC_CHANGED"},
                                  data : Int]]
      BY <1>2 DEF Subscribes, TypeOK, NoData
    <2> QED BY <1>2, <2>1, <2>2 DEF Subscribes, Asks, Goes, TypeOK
  <1>3. CASE Requests(p)
    <2>1. requests' \in [Process -> Seq(Commands \cup {"subscribe"})]
      BY <1>1, <1>3, RunTypes DEF Requests
    <2> QED BY <1>3, <2>1 DEF Requests, Asks, Goes, TypeOK
  <1>4. CASE RequestThrows(p)
    BY <1>4 DEF RequestThrows, Exits, Leaves, TypeOK
  <1>5. CASE LoopTest(p)
    BY <1>5 DEF LoopTest, Gets, Goes, TypeOK
  <1>6. CASE GetNotConnected(p)
    <2>1. out' \in [Process -> Seq(Int)]
      <3>1. Append(out[p], NoData) \in Seq(Int)
        BY AppendProperties DEF TypeOK, NoData
      <3> QED BY <1>6, <3>1 DEF GetNotConnected, PrintsInvalid, TypeOK
    <2> QED BY <1>6, <2>1 DEF GetNotConnected, Gets, Goes, After, TypeOK
  <1>7. CASE GetLocks(p)
    BY <1>7 DEF GetLocks, Gets, Goes, TypeOK
  <1>8. CASE GetReturns(p)
    <2>1. out' \in [Process -> Seq(Int)]
      <3>1. Append(out[p], topic[p].data) \in Seq(Int)
        BY AppendProperties DEF TypeOK
      <3> QED BY <1>8, <3>1 DEF GetReturns, Prints, TypeOK
    <2>2. topic' \in [Process -> [state : {"TOPIC_NODATA", "TOPIC_UNCHANGED", "TOPIC_CHANGED"},
                                  data : Int]]
      BY <1>8 DEF GetReturns, Prints, TypeOK
    <2> QED BY <1>8, <2>1, <2>2 DEF GetReturns, Gets, Goes, After, TypeOK
  <1>9. CASE GetWaits(p)
    BY <1>9 DEF GetWaits, Gets, Goes, TypeOK
  <1>10. CASE Finishes(p)
    BY <1>10 DEF Finishes, Exits, Leaves, TypeOK
  <1>11. CASE Binds(p)
    <2>1. stored' \in [Topics -> Int]
      BY <1>11 DEF Binds, Started, Topics, NoData, Version
    <2> QED BY <1>11, <2>1 DEF Binds, Started, Goes, TypeOK
  <1>12. CASE BindFails(p)
    BY <1>12 DEF BindFails, Exits, Leaves, TypeOK
  <1> QED BY <1>2, <1>3, <1>4, <1>5, <1>6, <1>7, <1>8, <1>9, <1>10, <1>11, <1>12 DEF Runs

LEMMA NetTyped ==
    ASSUME TypeOK, NEW p \in Process, NetRuns(p)
    PROVE  TypeOK'
  <1> USE DEF procVars, brokerVars, clientVars
  <1>1. ASSUME NetTakes(p)
        PROVE  inbox' \in [Process -> Seq(Int)] /\ Head(inbox[p]) \in Int
    <2>1. Tail(inbox[p]) \in Seq(Int) /\ Head(inbox[p]) \in Int
      BY <1>1, TailOf DEF NetTakes, TypeOK
    <2> QED BY <1>1, <2>1 DEF NetTakes, TypeOK
  <1>2. CASE NetNotice(p)
    <2>1. topic' \in [Process -> [state : {"TOPIC_NODATA", "TOPIC_UNCHANGED", "TOPIC_CHANGED"},
                                  data : Int]]
      BY <1>1, <1>2 DEF NetNotice, TypeOK
    <2> QED BY <1>1, <1>2, <2>1 DEF NetNotice, NetTakes, TypeOK
  <1>3. CASE NetKill(p)
    BY <1>1, <1>3 DEF NetKill, NetTakes, Leaves, TypeOK
  <1>4. CASE NetEnd(p)
    BY <1>4 DEF NetEnd, TypeOK
  <1> QED BY <1>2, <1>3, <1>4 DEF NetRuns

LEMMA ServesTyped ==
    ASSUME TypeOK, NEW s \in Process, Serves(s) \/ SignalTaken(s)
    PROVE  TypeOK'
  <1> USE DEF procVars, brokerVars, clientVars
  <1>1. ASSUME NEW p \in Process, NEW request, Takes(s, p, request)
        PROVE  requests' \in [Process -> Seq(Commands \cup {"subscribe"})]
    <2>1. Tail(requests[p]) \in Seq(Commands \cup {"subscribe"})
      BY <1>1, TailOf DEF Takes, TypeOK
    <2> QED BY <1>1, <2>1 DEF Takes, TypeOK
  <1>2. ASSUME NEW p \in Process, Accepts(s, p) PROVE TypeOK'
    BY <1>2 DEF Accepts, TypeOK
  <1>3. ASSUME NEW p \in Process, TakesPub(s, p) PROVE TypeOK'
    <2>1. requests' \in [Process -> Seq(Commands \cup {"subscribe"})]
      BY <1>1, <1>3 DEF TakesPub
    <2>2. inbox' \in [Process -> Seq(Int)]
      BY <1>3, NotifyEffect, RunTypes DEF TakesPub
    <2>3. history' \in Seq(Process)
      BY <1>3, AppendProperties DEF TakesPub, TypeOK
    <2>4. stored' \in [Topics -> Int]
      BY <1>3, RunTypes DEF TakesPub, TypeOK, Topics
    <2> QED BY <1>3, <2>1, <2>2, <2>3, <2>4 DEF TakesPub, Takes, TypeOK
  <1>4. ASSUME NEW p \in Process, TakesSubscribe(s, p) PROVE TypeOK'
    <2>1. requests' \in [Process -> Seq(Commands \cup {"subscribe"})]
      BY <1>1, <1>4 DEF TakesSubscribe
    <2>2. stored[Name(p)] \in Int
      BY DEF Name, TypeOK, Topics
    <2>3. inbox' \in [Process -> Seq(Int)]
      BY <1>4, <2>2, NotifyEffect DEF TakesSubscribe
    <2> QED BY <1>4, <2>1, <2>3 DEF TakesSubscribe, Takes, TypeOK
  <1>5. ASSUME NEW p \in Process, TakesKill(s, p) PROVE TypeOK'
    <2>1. requests' \in [Process -> Seq(Commands \cup {"subscribe"})]
      BY <1>1, <1>5 DEF TakesKill
    <2> QED BY <1>5, <2>1 DEF TakesKill, Takes, TypeOK
  <1>6. ASSUME NEW p \in Process, Unsubscribes(s, p) PROVE TypeOK'
    BY <1>6 DEF Unsubscribes, TypeOK
  <1>7. ASSUME NEW how \in {"sleep", "dying"}, Shuts(s, how) PROVE TypeOK'
    <2>1. inbox' \in [Process -> Seq(Int)]
      BY <1>7, NotifyEffect DEF Shuts, SC_KILLCLIENT
    <2> QED BY <1>7, <2>1 DEF Shuts, TypeOK
  <1>8. CASE Closes(s)
    <2>1. inbox' \in [Process -> Seq(Int)]
      <3>1. <<>> \in Seq(Int)
        BY EmptySeq
      <3> QED BY <1>8, <3>1 DEF Closes, TypeOK
    <2>2. code' \in [Process -> {"none", "0", "1", "SIGPIPE"}]
      BY <1>8 DEF Closes, TypeOK
    <2> QED BY <1>8, <2>1, <2>2 DEF Closes, TypeOK
  <1> QED BY <1>2, <1>3, <1>4, <1>5, <1>6, <1>7, <1>8 DEF Serves, SignalTaken, RoundEnds

LEMMA TypeKept ==
    ASSUME TypeOK, [Next]_vars
    PROVE  TypeOK'
  <1> USE DEF procVars, brokerVars, clientVars
  <1>1. ASSUME NEW p \in Process, Signal(p) PROVE TypeOK'
    <2>1. CASE UNCHANGED <<pc, code, conn>>
      BY <1>1, <2>1 DEF Signal, TypeOK
    <2>2. CASE Exits(p, "1")
      BY <1>1, <2>2 DEF Signal, Exits, Leaves, TypeOK
    <2> QED BY <1>1, <2>1, <2>2 DEF Signal
  <1>2. CASE TimePasses \/ UNCHANGED vars
    BY <1>2 DEF TimePasses, vars, TypeOK
  <1> QED BY <1>1, <1>2, StartsTyped, RunsTyped, NetTyped, ServesTyped DEF Next

-----------------------------------------------------------------------------
(* The brokers, and the connections to them.                               *)

(* A broker begins by bind(), and goes through its phases.                 *)
LEMMA PhaseSteps ==
    ASSUME TypeOK, [Next]_vars
    PROVE  \/ phase' = phase
           \/ \E s \in Process : Binds(s)
           \/ \E s \in Process :
                 /\ Listening(s)
                 /\ \A r \in Process : r # s => phase'[r] = phase[r]
                 /\ phase'[s] \in {"killed", "sleep", "dying", "ended"}
  <1> USE DEF procVars, brokerVars, clientVars
  <1>1. ASSUME NEW s \in Process, RoundEnds(s) \/ SignalTaken(s) \/ Closes(s)
        PROVE  /\ Listening(s)
               /\ \A r \in Process : r # s => phase'[r] = phase[r]
               /\ phase'[s] \in {"killed", "sleep", "dying", "ended"}
    BY <1>1 DEF RoundEnds, SignalTaken, Closes, Shuts, Listening, TypeOK
  <1>2. ASSUME NEW s \in Process, NEW p \in Process, TakesKill(s, p)
        PROVE  /\ Listening(s)
               /\ \A r \in Process : r # s => phase'[r] = phase[r]
               /\ phase'[s] \in {"killed", "sleep", "dying", "ended"}
    BY <1>2 DEF TakesKill, Takes, Listening, TypeOK
  <1>3. ASSUME NEW s \in Process, NEW p \in Process,
               Accepts(s, p) \/ TakesPub(s, p) \/ TakesSubscribe(s, p) \/ Unsubscribes(s, p)
        PROVE  phase' = phase
    BY <1>3 DEF Accepts, TakesPub, TakesSubscribe, Unsubscribes
  <1>4. ASSUME NEW p \in Process, Starts(p) \/ NetRuns(p) \/ Signal(p) PROVE phase' = phase
    BY <1>4 DEF Starts, InitConnects, InitThrows, AlreadyRunning, NoneRunning,
       NetRuns, NetNotice, NetKill, NetTakes, NetEnd, Signal
  <1>5. ASSUME NEW p \in Process, Runs(p), ~Binds(p) PROVE phase' = phase
    BY <1>5 DEF Runs, Subscribes, Requests, Asks, RequestThrows, LoopTest, GetNotConnected,
       GetLocks, GetReturns, GetWaits, Gets, Finishes, BindFails
  <1>6. CASE TimePasses \/ UNCHANGED vars
    BY <1>6 DEF TimePasses, vars
  <1> QED BY <1>1, <1>2, <1>3, <1>4, <1>5, <1>6 DEF Next, Serves

(* bind() fails while another broker listens.                              *)
LEMMA AloneKept ==
    ASSUME TypeOK, Alone, [Next]_vars
    PROVE  Alone'
  <1>1. CASE phase' = phase
    BY <1>1 DEF Alone, Listening
  <1>2. ASSUME NEW s \in Process, Binds(s) PROVE Alone'
    <2>1. \A r \in Process : ~Listening(r)
      BY <1>2 DEF Binds, InUse
    <2>2. \A r \in Process : r # s => phase'[r] = phase[r]
      BY <1>2 DEF Binds, Started, TypeOK
    <2> QED BY <2>1, <2>2 DEF Alone, Listening
  <1>3. ASSUME NEW s \in Process, Listening(s),
               \A r \in Process : r # s => phase'[r] = phase[r]
        PROVE  Alone'
    BY <1>3 DEF Alone, Listening
  <1> QED BY <1>1, <1>2, <1>3, PhaseSteps

(* What a process does that changes no phase, connection or inbox, but may *)
(* end itself.                                                             *)
Clients == Begun /\ Attached

LEMMA ClientsQuiet ==
    ASSUME TypeOK, Clients, UNCHANGED <<phase, at, inbox, running>>,
           \A q \in Process :
              \/ pc'[q] = pc[q] /\ code'[q] = code[q] /\ conn'[q] = conn[q]
              \/ pc'[q] \notin Outside /\ code'[q] = code[q] /\ conn'[q] = conn[q]
              \/ pc'[q] \notin Outside /\ code'[q] # "none"
    PROVE  Clients'
  <1>1. Begun'
    BY DEF Clients, Begun, Outside
  <1>2. Attached'
    BY DEF Clients, Attached, Served, Alive
  <1> QED BY <1>1, <1>2 DEF Clients

LEMMA ExitsQuiet ==
    ASSUME TypeOK, Clients, UNCHANGED <<phase, at, inbox, running>>,
           NEW p \in Process, NEW c \in {"0", "1", "SIGPIPE"}, Exits(p, c)
    PROVE  Clients'
  <1>1. \A q \in Process :
            \/ pc'[q] = pc[q] /\ code'[q] = code[q] /\ conn'[q] = conn[q]
            \/ pc'[q] \notin Outside /\ code'[q] # "none"
    BY DEF Exits, Leaves, TypeOK, Outside
  <1> QED BY <1>1, ClientsQuiet

(* init() connects to a broker that listens.                               *)
LEMMA StartsKeepsClients ==
    ASSUME TypeOK, Clients, NEW p \in Process, Starts(p)
    PROVE  Clients'
  <1> USE DEF procVars, brokerVars, clientVars
  <1>1. CASE InitConnects(p)
    <2>1. PICK s \in Process : Listening(s) /\ at' = [at EXCEPT ![p] = s]
      BY <1>1 DEF InitConnects, Connects
    <2>2. /\ pc[p] = "start" /\ inbox[p] = <<>> /\ s # NoBroker
          /\ phase[s] # "none"
      BY <1>1, <2>1, RunTypes DEF InitConnects, Connects, InitCalled, Clients, Begun, Outside,
         NoBroker, Listening
    <2>3. pc'[p] \notin Outside /\ \A q \in Process : q # p => pc'[q] = pc[q]
      BY <1>1, RunTypes DEF InitConnects, Second, Outside, TypeOK, Commands
    <2>4. at'[p] = s /\ \A q \in Process : q # p => at'[q] = at[q]
      BY <2>1 DEF TypeOK
    <2>5. UNCHANGED <<phase, inbox, code>>
      BY <1>1 DEF InitConnects
    <2>6. Begun'
      BY <2>2, <2>3, <2>4, <2>5 DEF Clients, Begun, Outside
    <2>7. /\ running'[p] = TRUE /\ conn'[p] = "backlog"
          /\ \A q \in Process : q # p => running'[q] = running[q] /\ conn'[q] = conn[q]
      BY <1>1 DEF InitConnects, TypeOK
    <2>8. \A k \in 1 .. Len(inbox[p]) : inbox[p][k] # SC_KILLCLIENT
      BY <2>2, EmptySeq
    <2>9. Attached'
      BY <2>4, <2>5, <2>7, <2>8 DEF Clients, Attached, Served, Alive
    <2> QED BY <2>6, <2>9 DEF Clients
  <1>2. CASE InitThrows(p)
    BY <1>2, ExitsQuiet DEF InitThrows
  <1>3. CASE AlreadyRunning(p)
    <2>1. PICK s \in Process : Listening(s) /\ at' = [at EXCEPT ![p] = s]
      BY <1>3 DEF AlreadyRunning, Connects
    <2>2. UNCHANGED <<phase, inbox, running>> /\ phase[s] # "none"
      BY <1>3, <2>1 DEF AlreadyRunning, Listening
    <2>3. /\ pc'[p] = "exited" /\ code'[p] = "1" /\ at'[p] = s
          /\ \A q \in Process : q # p => pc'[q] = pc[q] /\ code'[q] = code[q]
                                         /\ conn'[q] = conn[q] /\ at'[q] = at[q]
      BY <1>3, <2>1 DEF AlreadyRunning, Exits, Leaves, TypeOK
    <2>4. Begun'
      BY <2>2, <2>3 DEF Clients, Begun, Outside
    <2>5. Attached'
      BY <2>2, <2>3 DEF Clients, Attached, Served, Alive
    <2> QED BY <2>4, <2>5 DEF Clients
  <1>4. CASE NoneRunning(p)
    <2>1. /\ UNCHANGED <<phase, at, inbox, running, code, conn>>
          /\ pc[p] = "start" /\ pc'[p] = "bind"
          /\ \A q \in Process : q # p => pc'[q] = pc[q]
      BY <1>4 DEF NoneRunning, TypeOK
    <2>2. Begun'
      BY <2>1 DEF Clients, Begun, Outside
    <2>3. Attached'
      BY <2>1 DEF Clients, Attached, Served, Alive
    <2> QED BY <2>2, <2>3 DEF Clients
  <1> QED BY <1>1, <1>2, <1>3, <1>4 DEF Starts

LEMMA RunsKeepsClients ==
    ASSUME TypeOK, Clients, NEW p \in Process, Runs(p) \/ Signal(p)
    PROVE  Clients'
  <1> USE DEF procVars, brokerVars, clientVars
  <1>1. ASSUME NEW from, NEW to, Goes(p, from, to), to \notin Outside,
               UNCHANGED <<phase, at, inbox, running, code, conn>>
        PROVE  Clients'
    <2>1. \A q \in Process : pc'[q] = pc[q] \/ pc'[q] \notin Outside
      BY <1>1 DEF Goes, TypeOK
    <2> QED BY <1>1, <2>1, ClientsQuiet
  <1>2. CASE Subscribes(p) \/ Requests(p)
    BY <1>1, <1>2 DEF Subscribes, Requests, Asks, Outside
  <1>3. CASE LoopTest(p) \/ GetNotConnected(p) \/ GetLocks(p) \/ GetReturns(p) \/ GetWaits(p)
    BY <1>1, <1>3 DEF LoopTest, GetNotConnected, GetLocks, GetReturns, GetWaits, Gets, After,
       Outside
  <1>4. CASE RequestThrows(p) \/ Finishes(p) \/ BindFails(p)
    BY <1>4, ExitsQuiet DEF RequestThrows, Finishes, BindFails
  <1>5. CASE Binds(p)
    <2>1. /\ pc[p] = "bind" /\ pc'[p] = "serve"
          /\ \A q \in Process : q # p => pc'[q] = pc[q] /\ phase'[q] = phase[q]
          /\ phase'[p] = "serving"
          /\ UNCHANGED <<at, inbox, running, code, conn>>
      BY <1>5 DEF Binds, Started, Goes, TypeOK
    <2>2. \A q \in Process : at[q] # p
      <3> SUFFICES ASSUME NEW q \in Process, at[q] = p PROVE FALSE
        OBVIOUS
      <3>1. at[q] # NoBroker
        BY RunTypes DEF NoBroker
      <3> QED BY <2>1, <3>1 DEF Clients, Begun
    <2>3. Begun'
      BY <2>1, <2>2 DEF Clients, Begun, Outside, TypeOK
    <2>4. Attached'
      BY <2>1, <2>2 DEF Clients, Attached, Served, Alive, TypeOK
    <2> QED BY <2>3, <2>4 DEF Clients
  <1>6. CASE Signal(p)
    <2>1. CASE Exits(p, "1")
      BY <1>6, <2>1, ExitsQuiet DEF Signal
    <2>2. CASE UNCHANGED <<pc, code, conn>>
      BY <1>6, <2>2, ClientsQuiet DEF Signal
    <2> QED BY <1>6, <2>1, <2>2 DEF Signal
  <1> QED BY <1>2, <1>3, <1>4, <1>5, <1>6 DEF Runs

(* As long as the broker serves, a client's thread gets no SC_KILLCLIENT,  *)
(* and does not see the end of its connection.                             *)
LEMMA NetKeepsClients ==
    ASSUME TypeOK, Clients, NEW p \in Process, NetRuns(p)
    PROVE  Clients'
  <1> USE DEF procVars, brokerVars, clientVars
  <1>1. UNCHANGED <<pc, code, phase, at>> /\ Alive(p)
    BY DEF NetRuns, NetNotice, NetKill, NetTakes, NetEnd
  <1>2. \A q \in Process : q # p => /\ inbox'[q] = inbox[q] /\ running'[q] = running[q]
                                    /\ conn'[q] = conn[q]
    BY DEF NetRuns, NetNotice, NetKill, NetTakes, NetEnd, Leaves, TypeOK
  <1>3. inbox[p] = <<>> => inbox'[p] = <<>>
    BY DEF NetRuns, NetNotice, NetKill, NetTakes, NetEnd
  <1>4. Begun'
    BY <1>1, <1>2, <1>3 DEF Clients, Begun
  <1>5. ASSUME Served(p)
        PROVE  /\ running'[p] /\ conn'[p] \in {"backlog", "open"}
               /\ \A k \in 1 .. Len(inbox'[p]) : inbox'[p][k] # SC_KILLCLIENT
    <2>1. /\ running[p] /\ conn[p] \in {"backlog", "open"}
          /\ \A k \in 1 .. Len(inbox[p]) : inbox[p][k] # SC_KILLCLIENT
      BY <1>1, <1>5 DEF Clients, Attached
    <2>2. ASSUME NetTakes(p)
          PROVE  /\ Head(inbox[p]) # SC_KILLCLIENT
                 /\ \A k \in 1 .. Len(inbox'[p]) : inbox'[p][k] # SC_KILLCLIENT
      <3>1. inbox'[p] = Tail(inbox[p]) /\ inbox[p] # <<>> /\ inbox[p] \in Seq(Int)
        BY <2>2 DEF NetTakes, TypeOK
      <3> QED BY <2>1, <3>1, TailOf
    <2>3. NetNotice(p)
      BY <2>1, <2>2 DEF NetRuns, NetKill, NetEnd
    <2> QED BY <2>1, <2>2, <2>3 DEF NetNotice
  <1>6. Attached'
    BY <1>1, <1>2, <1>5 DEF Clients, Attached, Served, Alive
  <1> QED BY <1>4, <1>6 DEF Clients

(* The broker writes to processes that are connected or have subscribed,   *)
(* and SC_KILLCLIENT only when it no longer serves.                        *)
LEMMA NotifyKeepsClients ==
    ASSUME TypeOK, Clients, NEW ps, NEW d \in Int, Notify(ps, d),
           UNCHANGED <<pc, code, at, conn, running>>,
           \A q \in Process : q \in ps => pc[q] \notin Outside,
           NEW s \in Process, phase[s] # "none",
           \A r \in Process : r # s => phase'[r] = phase[r],
           phase'[s] \notin {"none"},
           phase'[s] = "serving" => phase[s] = "serving",
           \/ d # SC_KILLCLIENT
           \/ phase'[s] # "serving" /\ \A q \in Process : q \in ps => at[q] = s
    PROVE  Clients'
  <1>1. /\ \A p \in Process : p \notin ps => inbox'[p] = inbox[p]
        /\ \A p \in Process : p \in ps =>
              /\ Len(inbox'[p]) = Len(inbox[p]) + 1 /\ Len(inbox[p]) \in Nat
              /\ inbox'[p][Len(inbox[p]) + 1] = d
              /\ \A k \in 1 .. Len(inbox[p]) : inbox'[p][k] = inbox[p][k]
    BY NotifyEffect
  <1>2. Begun'
    <2>1. \A r \in Process : phase'[r] = "none" <=> phase[r] = "none"
      BY DEF Clients
    <2> QED BY <1>1, <2>1 DEF Clients, Begun, TypeOK
  <1>3. Attached'
    <2> SUFFICES ASSUME NEW p \in Process, Served(p)', Alive(p)
                 PROVE  /\ running[p] /\ conn[p] \in {"backlog", "open"}
                        /\ \A k \in 1 .. Len(inbox'[p]) : inbox'[p][k] # SC_KILLCLIENT
      BY DEF Attached, Alive
    <2>1. Served(p) /\ (phase'[s] # "serving" => at[p] # s)
      BY DEF Served, TypeOK
    <2>2. /\ running[p] /\ conn[p] \in {"backlog", "open"}
          /\ \A k \in 1 .. Len(inbox[p]) : inbox[p][k] # SC_KILLCLIENT
      BY <2>1 DEF Clients, Attached
    <2>3. CASE p \notin ps
      BY <1>1, <2>2, <2>3
    <2>4. CASE p \in ps
      <3>1. d # SC_KILLCLIENT
        BY <2>1, <2>4
      <3> QED BY <1>1, <2>2, <2>4, <3>1
    <2> QED BY <2>2, <2>3, <2>4
  <1> QED BY <1>2, <1>3 DEF Clients

(* What is stored, and what is told to a subscriber, is data.              *)
LEMMA StoredIsData ==
    ASSUME TypeOK, StoredOK
    PROVE  /\ \A v \in ToSet(history) : v \in Process /\ v # SC_KILLCLIENT /\ v # NoData
           /\ \A p \in Process :
                 /\ stored[Name(p)] \in Int /\ stored[Name(p)] # SC_KILLCLIENT
                 /\ stored[Name(p)] # NoData => stored[Name(p)] \in Valid(p)
  <1>1. \A v \in ToSet(history) : v \in Process
    BY ElementOfSeq, LenProperties DEF TypeOK, ToSet
  <1>2. \A v \in ToSet(history) : v # SC_KILLCLIENT /\ v # NoData
    BY <1>1, RunTypes DEF SC_KILLCLIENT, NoData
  <1>3. ASSUME NEW p \in Process
        PROVE  /\ stored[Name(p)] \in Int /\ stored[Name(p)] # SC_KILLCLIENT
               /\ stored[Name(p)] # NoData => stored[Name(p)] \in Valid(p)
    <2>1. Name(p) \in {"topic", "version"}
      BY DEF Name
    <2>2. stored[Name(p)] \in Int
      BY <2>1 DEF TypeOK, Topics
    <2>3. CASE Name(p) = "topic"
      BY <1>2, <2>2, <2>3 DEF StoredOK, Valid, SC_KILLCLIENT, NoData
    <2>4. CASE Name(p) = "version"
      BY <2>2, <2>4 DEF StoredOK, Valid, Version, SC_KILLCLIENT, NoData
    <2> QED BY <2>1, <2>3, <2>4
  <1> QED BY <1>1, <1>2, <1>3

LEMMA ServesKeepsClients ==
    ASSUME TypeOK, Clients, AskedOnce, StoredOK,
           NEW s \in Process, Serves(s) \/ SignalTaken(s)
    PROVE  Clients'
  <1> USE DEF procVars, brokerVars, clientVars
  <1>1. ASSUME NEW p \in Process, Accepts(s, p) \/ Unsubscribes(s, p) PROVE Clients'
    <2>1. /\ UNCHANGED <<pc, code, phase, at, inbox, running>>
          /\ conn[p] \in {"backlog", "left"}
          /\ conn'[p] = IF conn[p] = "left" THEN "closed" ELSE "open"
          /\ \A q \in Process : q # p => conn'[q] = conn[q]
      BY <1>1 DEF Accepts, Unsubscribes, TypeOK
    <2>2. Begun'
      BY <2>1 DEF Clients, Begun
    <2>3. Attached'
      BY <2>1 DEF Clients, Attached, Served, Alive
    <2> QED BY <2>2, <2>3 DEF Clients
  <1>2. ASSUME NEW p \in Process, TakesPub(s, p) PROVE Clients'
    <2>1. /\ Notify({q \in subs : Name(q) = "topic"}, p)
          /\ UNCHANGED <<pc, code, at, conn, running, phase>>
          /\ phase[s] # "none"
      BY <1>2 DEF TakesPub, Takes
    <2>2. \A q \in Process : q \in subs => pc[q] \notin Outside
      BY DEF AskedOnce, Before
    <2>3. p \in Int /\ p # SC_KILLCLIENT
      BY RunTypes DEF SC_KILLCLIENT
    <2>4. \A q \in Process : q \in {r \in subs : Name(r) = "topic"} => pc[q] \notin Outside
      BY <2>2
    <2> HIDE DEF Outside
    <2> QED BY <2>1, <2>3, <2>4, NotifyKeepsClients
  <1>3. ASSUME NEW p \in Process, TakesSubscribe(s, p) PROVE Clients'
    <2>1. /\ Notify({q \in {p} : stored[Name(q)] # NoData}, stored[Name(p)])
          /\ UNCHANGED <<pc, code, at, conn, running, phase>>
          /\ phase[s] # "none" /\ requests[p] # <<>>
      BY <1>3 DEF TakesSubscribe, Takes
    <2>2. pc[p] \notin Outside
      BY <2>1 DEF AskedOnce, Before
    <2>3. \A q \in Process : q \in {r \in {p} : stored[Name(r)] # NoData} => pc[q] \notin Outside
      BY <2>2
    <2>4. stored[Name(p)] \in Int /\ stored[Name(p)] # SC_KILLCLIENT
      BY StoredIsData
    <2> HIDE DEF Outside
    <2> QED BY <2>1, <2>3, <2>4, NotifyKeepsClients
  <1>4. ASSUME NEW p \in Process, TakesKill(s, p) PROVE Clients'
    <2>1. /\ UNCHANGED <<pc, code, at, inbox, conn, running>>
          /\ phase[s] # "none" /\ phase'[s] = "killed"
          /\ \A r \in Process : r # s => phase'[r] = phase[r]
      BY <1>4 DEF TakesKill, Takes, TypeOK
    <2>2. Begun'
      BY <2>1 DEF Clients, Begun, TypeOK, Outside
    <2>3. \A q \in Process : Served(q)' => Served(q)
      BY <2>1 DEF Served, TypeOK
    <2>4. Attached'
      BY <2>1, <2>3 DEF Clients, Attached, Alive
    <2> QED BY <2>2, <2>4 DEF Clients
  <1>5. ASSUME NEW how \in {"sleep", "dying"}, Shuts(s, how), phase[s] \in {"serving", "killed"}
        PROVE  Clients'
    <2>1. /\ Notify({p \in Process : at[p] = s /\ conn[p] = "open"}, SC_KILLCLIENT)
          /\ UNCHANGED <<pc, code, at, conn, running>>
          /\ \A r \in Process : r # s => phase'[r] = phase[r]
          /\ phase'[s] = how
      BY <1>5 DEF Shuts, TypeOK
    <2>2. \A q \in Process : at[q] = s => pc[q] \notin Outside
      BY RunTypes DEF Clients, Begun, NoBroker
    <2>3. SC_KILLCLIENT \in Int
      BY DEF SC_KILLCLIENT
    <2> DEFINE ps == {p \in Process : at[p] = s /\ conn[p] = "open"}
    <2>4. \A q \in Process : q \in ps => pc[q] \notin Outside /\ at[q] = s
      BY <2>2
    <2> HIDE DEF ps, Outside
    <2>5. Notify(ps, SC_KILLCLIENT)
      BY <2>1 DEF ps
    <2> QED BY <1>5, <2>1, <2>3, <2>4, <2>5, NotifyKeepsClients
  <1>6. CASE Closes(s)
    <2>1. /\ UNCHANGED <<at, running>>
          /\ phase[s] # "none" /\ phase'[s] = "ended"
          /\ \A r \in Process : r # s => phase'[r] = phase[r]
          /\ pc'[s] = "exited" /\ code'[s] # "none"
          /\ \A r \in Process : r # s => pc'[r] = pc[r] /\ code'[r] = code[r]
      BY <1>6 DEF Closes, TypeOK
    <2>2. \A p \in Process :
              /\ at[p] # s => conn'[p] = conn[p] /\ inbox'[p] = inbox[p]
              /\ inbox'[p] = inbox[p] \/ inbox'[p] = <<>>
      BY <1>6 DEF Closes
    <2>3. Begun'
      BY <2>1, <2>2 DEF Clients, Begun, TypeOK, Outside
    <2>4. \A q \in Process : Served(q)' => Served(q) /\ at[q] # s
      BY <2>1 DEF Served, TypeOK
    <2>5. \A q \in Process : Alive(q)' => Alive(q)
      BY <2>1 DEF Alive
    <2>6. Attached'
      BY <2>1, <2>2, <2>4, <2>5 DEF Clients, Attached
    <2> QED BY <2>3, <2>6 DEF Clients
  <1> QED BY <1>1, <1>2, <1>3, <1>4, <1>5, <1>6 DEF Serves, RoundEnds, SignalTaken

LEMMA ClientsKept ==
    ASSUME TypeOK, Clients, AskedOnce, StoredOK, [Next]_vars
    PROVE  Clients'
  <1>1. CASE TimePasses \/ UNCHANGED vars
    <2>1. UNCHANGED <<phase, at, inbox, running, pc, code, conn>>
      BY <1>1 DEF TimePasses, vars, procVars, brokerVars, clientVars
    <2> QED BY <2>1, ClientsQuiet
  <1> QED BY <1>1, StartsKeepsClients, RunsKeepsClients, NetKeepsClients, ServesKeepsClients
          DEF Next

-----------------------------------------------------------------------------
(* What is asked, and what is stored.                                      *)

(* A process that only goes on asks for nothing.                           *)
LEMMA AskedQuiet ==
    ASSUME TypeOK, AskedOnce, UNCHANGED requests,
           subs' \subseteq subs, history' = history,
           \A q \in Process :
              \/ pc'[q] = pc[q] /\ out'[q] = out[q]
              \/ pc'[q] \notin Before
              \/ pc[q] \in Before /\ out'[q] = out[q]
    PROVE  AskedOnce'
  BY DEF AskedOnce

(* A process has asked once: what is taken was all.                        *)
LEMMA TakesTheOnly ==
    ASSUME TypeOK, AskedOnce, NEW s, NEW p \in Process, NEW request, Takes(s, p, request)
    PROVE  /\ requests[p] # <<>> /\ requests'[p] = <<>> /\ pc[p] \notin Before
           /\ \A q \in Process : q # p => requests'[q] = requests[q]
           /\ UNCHANGED <<run, topic, pc, out>>
  <1> USE DEF procVars, brokerVars, clientVars
  <1>1. /\ requests[p] # <<>> /\ requests'[p] = Tail(requests[p])
        /\ \A q \in Process : q # p => requests'[q] = requests[q]
        /\ UNCHANGED <<run, topic, pc, out>>
    BY DEF Takes, TypeOK
  <1>2. pc[p] \notin Before /\ Len(requests[p]) <= 1
    BY <1>1 DEF AskedOnce
  <1>3. requests'[p] = <<>>
    <2>1. /\ requests'[p] \in Seq(Commands \cup {"subscribe"})
          /\ Len(requests'[p]) = Len(requests[p]) - 1 /\ Len(requests[p]) \in Nat
      BY <1>1, TailOf DEF TypeOK
    <2> DEFINE m == Len(requests[p])
               n == Len(requests'[p])
    <2>2. n \in Nat /\ m \in Nat /\ n = m - 1 /\ m <= 1
      BY <1>2, <2>1, LenProperties
    <2> HIDE DEF m, n
    <2>3. n = 0
      BY <2>2
    <2> HIDE DEF Commands
    <2> QED BY <2>1, <2>3, EmptySeq DEF n
  <1> QED BY <1>1, <1>2, <1>3

LEMMA AskedKept ==
    ASSUME TypeOK, AskedOnce, [Next]_vars
    PROVE  AskedOnce'
  <1> USE DEF procVars, brokerVars, clientVars
  <1>1. ASSUME NEW p \in Process, NEW c \in {"0", "1", "SIGPIPE"}, Exits(p, c),
               UNCHANGED <<requests, subs, history, out>>
        PROVE  AskedOnce'
    <2>1. \A q \in Process : pc'[q] = pc[q] \/ pc'[q] \notin Before
      BY <1>1 DEF Exits, TypeOK, Before, Outside
    <2> QED BY <1>1, <2>1, AskedQuiet
  <1>2. ASSUME NEW p \in Process, Starts(p) PROVE AskedOnce'
    <2>1. CASE InitConnects(p) \/ NoneRunning(p)
      <3>1. /\ UNCHANGED <<requests, subs, history, out>>
            /\ pc[p] \in Before /\ \A q \in Process : q # p => pc'[q] = pc[q]
        BY <2>1 DEF InitConnects, Connects, InitCalled, NoneRunning, TypeOK, Before, Outside
      <3> QED BY <3>1, AskedQuiet
    <2>2. CASE InitThrows(p) \/ AlreadyRunning(p)
      BY <1>1, <2>2 DEF InitThrows, AlreadyRunning
    <2> QED BY <1>2, <2>1, <2>2 DEF Starts
  <1>3. ASSUME NEW p \in Process, NEW from \in {"subscribe", "request"}, NEW to,
               NEW request \in Commands \cup {"subscribe"}, Asks(p, from, to, request),
               to \notin Before
        PROVE  AskedOnce'
    <2>1. /\ pc[p] \in Before /\ pc'[p] \notin Before
          /\ requests'[p] = Append(requests[p], request)
          /\ \A q \in Process : q # p => pc'[q] = pc[q] /\ requests'[q] = requests[q]
          /\ UNCHANGED <<subs, history, out>>
      BY <1>3 DEF Asks, Goes, TypeOK, Before
    <2>2. requests[p] = <<>> /\ p \notin subs \cup ToSet(history)
      BY <2>1 DEF AskedOnce
    <2>3. Len(requests'[p]) <= 1
      <3>1. <<>> \in Seq(Commands \cup {"subscribe"}) /\ Len(<<>>) = 0
        BY EmptySeq
      <3> HIDE DEF Commands
      <3>2. Len(Append(<<>>, request)) = 1
        BY <3>1, AppendProperties
      <3> QED BY <2>1, <2>2, <3>2
    <2> QED BY <2>1, <2>2, <2>3 DEF AskedOnce
  <1>4. ASSUME NEW p \in Process, Subscribes(p) \/ Requests(p) PROVE AskedOnce'
    <2>1. run[p].cmd \in Commands \cup {"subscribe"}
      BY RunTypes
    <2>2. \A to \in {"loop", "get", "finish"} : to \notin Before
      BY DEF Before, Outside
    <2>3. (IF run[p].cmd = "listen" THEN "loop" ELSE "get") \in {"loop", "get", "finish"}
      OBVIOUS
    <2> HIDE DEF Commands
    <2>4. CASE Subscribes(p)
      BY <1>3, <2>2, <2>3, <2>4 DEF Subscribes
    <2>5. CASE Requests(p)
      BY <1>3, <2>1, <2>2, <2>5 DEF Requests
    <2> QED BY <1>4, <2>4, <2>5
  <1>5. ASSUME NEW p \in Process,
               LoopTest(p) \/ GetNotConnected(p) \/ GetLocks(p) \/ GetReturns(p) \/ GetWaits(p)
        PROVE  AskedOnce'
    <2>1. /\ UNCHANGED <<requests, subs, history>>
          /\ pc'[p] \notin Before
          /\ \A q \in Process : q # p => pc'[q] = pc[q] /\ out'[q] = out[q]
      BY <1>5 DEF LoopTest, GetNotConnected, GetLocks, GetReturns, GetWaits, Gets, Goes, After,
         PrintsInvalid, Prints, TypeOK, Before, Outside
    <2> QED BY <2>1, AskedQuiet
  <1>6. ASSUME NEW p \in Process, RequestThrows(p) \/ Finishes(p) \/ BindFails(p)
        PROVE  AskedOnce'
    BY <1>1, <1>6 DEF RequestThrows, Finishes, BindFails
  <1>7. ASSUME NEW p \in Process, Binds(p) PROVE AskedOnce'
    <2>1. /\ UNCHANGED <<requests, history, out>> /\ subs' = {} /\ pc[p] \in Before
          /\ \A q \in Process : q # p => pc'[q] = pc[q]
      BY <1>7 DEF Binds, Started, Goes, TypeOK, Before, Outside
    <2> QED BY <2>1, AskedQuiet
  <1>8. ASSUME NEW p \in Process, Signal(p) PROVE AskedOnce'
    <2>1. UNCHANGED <<requests, subs, history, out>>
      BY <1>8 DEF Signal
    <2>2. CASE UNCHANGED pc
      BY <2>1, <2>2, AskedQuiet
    <2> QED BY <1>1, <1>8, <2>1, <2>2 DEF Signal
  <1>9. ASSUME NEW p \in Process, NetRuns(p) PROVE AskedOnce'
    <2>1. UNCHANGED <<requests, subs, history, out, pc>>
      BY <1>9 DEF NetRuns, NetNotice, NetKill, NetTakes, NetEnd
    <2> QED BY <2>1, AskedQuiet
  <1>10. ASSUME NEW s \in Process, NEW p \in Process,
                TakesPub(s, p) \/ TakesSubscribe(s, p) \/ TakesKill(s, p)
         PROVE  AskedOnce'
    <2>1. /\ requests'[p] = <<>> /\ pc[p] \notin Before
          /\ \A q \in Process : q # p => requests'[q] = requests[q]
          /\ UNCHANGED <<pc, out>>
      BY <1>10, TakesTheOnly DEF TakesPub, TakesSubscribe, TakesKill
    <2>2. Len(requests'[p]) <= 1
      BY <2>1, EmptySeq
    <2>3. subs' \cup ToSet(history') \subseteq subs \cup ToSet(history) \cup {p}
      <3>1. CASE history' = history
        BY <1>10, <3>1 DEF TakesPub, TakesSubscribe, TakesKill
      <3>2. CASE TakesPub(s, p)
        <4>1. history' = Append(history, p) /\ subs' = subs
          BY <3>2 DEF TakesPub
        <4>2. ToSet(history') \subseteq ToSet(history) \cup {p}
          BY <4>1, ToSetAppend DEF TypeOK
        <4> QED BY <4>1, <4>2
      <3> QED BY <1>10, <3>1, <3>2 DEF TakesSubscribe, TakesKill
    <2> QED BY <2>1, <2>2, <2>3 DEF AskedOnce
  <1>11. ASSUME NEW s \in Process, NEW p \in Process, Accepts(s, p) \/ Unsubscribes(s, p)
         PROVE  AskedOnce'
    <2>1. UNCHANGED <<requests, history, out, pc>> /\ subs' \subseteq subs
      BY <1>11 DEF Accepts, Unsubscribes
    <2> QED BY <2>1, AskedQuiet
  <1>12. ASSUME NEW s \in Process, RoundEnds(s) \/ Closes(s) \/ SignalTaken(s)
         PROVE  AskedOnce'
    <2>1. /\ UNCHANGED <<requests, history, out, subs>>
          /\ \A q \in Process : pc'[q] = pc[q] \/ pc'[q] \notin Before
      BY <1>12 DEF RoundEnds, Closes, SignalTaken, Shuts, TypeOK, Before, Outside
    <2> QED BY <2>1, AskedQuiet
  <1>13. CASE TimePasses \/ UNCHANGED vars
    <2>1. UNCHANGED <<requests, history, out, subs, pc>>
      BY <1>13 DEF TimePasses, vars
    <2> QED BY <2>1, AskedQuiet
  <1> QED BY <1>2, <1>4, <1>5, <1>6, <1>7, <1>8, <1>9, <1>10, <1>11, <1>12, <1>13
          DEF Next, Runs, Serves

LEMMA StoredKept ==
    ASSUME TypeOK, AskedOnce, StoredOK, [Next]_vars
    PROVE  StoredOK'
  <1> USE DEF procVars, brokerVars, clientVars
  <1>1. ASSUME UNCHANGED <<history, stored>> PROVE StoredOK'
    BY <1>1 DEF StoredOK
  <1>2. ASSUME NEW p \in Process, Binds(p) PROVE StoredOK'
    BY <1>2 DEF Binds, Started, StoredOK
  <1>3. ASSUME NEW s \in Process, NEW p \in Process, TakesPub(s, p) PROVE StoredOK'
    <2>1. /\ requests[p] # <<>> /\ history' = Append(history, p)
          /\ stored'["topic"] = p /\ stored'["version"] = stored["version"]
      BY <1>3 DEF TakesPub, Takes, TypeOK, Topics
    <2>2. p \notin ToSet(history)
      BY <2>1 DEF AskedOnce
    <2>3. history \in Seq(Process)
      BY DEF TypeOK
    <2>4. /\ Len(history) \in Nat /\ Len(history') = Len(history) + 1
          /\ history'[Len(history) + 1] = p
          /\ \A i \in 1 .. Len(history) : history'[i] = history[i]
      BY <2>1, <2>3, AppendProperties, LenProperties
    <2>5. \A i \in 1 .. Len(history) : history[i] # p
      BY <2>2, <2>3, LenProperties DEF ToSet
    <2>6. \A i, j \in 1 .. Len(history') : history'[i] = history'[j] => i = j
      BY <2>4, <2>5 DEF StoredOK
    <2>7. p \in ToSet(history')
      BY <2>1, <2>3, ToSetAppend
    <2> QED BY <2>1, <2>6, <2>7 DEF StoredOK
  <1>4. ASSUME NEW p \in Process, Starts(p) \/ NetRuns(p) \/ Signal(p)
        PROVE  UNCHANGED <<history, stored>>
    BY <1>4 DEF Starts, InitConnects, InitThrows, AlreadyRunning, NoneRunning,
       NetRuns, NetNotice, NetKill, NetTakes, NetEnd, Signal
  <1>5. ASSUME NEW p \in Process, Runs(p), ~Binds(p)
        PROVE  UNCHANGED <<history, stored>>
    BY <1>5 DEF Runs, Subscribes, Requests, Asks, RequestThrows, LoopTest, GetNotConnected,
       GetLocks, GetReturns, GetWaits, Gets, Finishes, BindFails
  <1>6. ASSUME NEW s \in Process,
               \/ RoundEnds(s) \/ Closes(s) \/ SignalTaken(s)
               \/ \E p \in Process :
                     Accepts(s, p) \/ TakesSubscribe(s, p) \/ TakesKill(s, p) \/ Unsubscribes(s, p)
        PROVE  UNCHANGED <<history, stored>>
    BY <1>6 DEF RoundEnds, Closes, SignalTaken, Shuts, Accepts, TakesSubscribe, TakesKill,
       Unsubscribes
  <1>7. CASE TimePasses \/ UNCHANGED vars
    BY <1>1, <1>7 DEF TimePasses, vars
  <1> QED BY <1>1, <1>2, <1>3, <1>4, <1>5, <1>6, <1>7 DEF Next, Serves

-----------------------------------------------------------------------------
(* The data on its way.                                                    *)

(* The history grows at its end only.                                      *)
Longer == history' = history \/ \E p \in Process : history' = Append(history, p)

LEMMA LongerKeeps ==
    ASSUME TypeOK, Longer
    PROVE  /\ ToSet(history) \subseteq ToSet(history')
           /\ \A u, v : Earlier(history, u, v) => Earlier(history', u, v)
  <1>1. CASE history' = history
    BY <1>1
  <1>2. ASSUME NEW p \in Process, history' = Append(history, p)
        PROVE  /\ ToSet(history) \subseteq ToSet(history')
               /\ \A u, v : Earlier(history, u, v) => Earlier(history', u, v)
    <2>1. /\ Len(history) \in Nat /\ Len(history') = Len(history) + 1
          /\ \A i \in 1 .. Len(history) : history'[i] = history[i]
      BY <1>2, AppendProperties, LenProperties DEF TypeOK
    <2>2. \A i \in 1 .. Len(history) : i \in 1 .. Len(history')
      BY <2>1
    <2> QED BY <1>2, <2>1, <2>2, ToSetAppend DEF TypeOK, Earlier
  <1> QED BY <1>1, <1>2 DEF Longer

LEMMA NewestIsLater ==
    ASSUME TypeOK, NEW p \in Process, history' = Append(history, p), NEW v \in ToSet(history)
    PROVE  Earlier(history', v, p)
  <1>1. /\ Len(history) \in Nat /\ Len(history') = Len(history) + 1
        /\ history'[Len(history) + 1] = p
        /\ \A i \in 1 .. Len(history) : history'[i] = history[i]
    BY AppendProperties, LenProperties DEF TypeOK
  <1>2. PICK i \in 1 .. Len(history) : v = history[i]
    BY LenProperties DEF ToSet, TypeOK
  <1>3. /\ i \in 1 .. Len(history') /\ Len(history) + 1 \in 1 .. Len(history')
        /\ i < Len(history) + 1
    BY <1>1, <1>2
  <1> QED BY <1>1, <1>2, <1>3 DEF Earlier

Data == Carried /\ Ordered

(* Nothing comes and nothing is printed.                                   *)
LEMMA DataQuiet ==
    ASSUME TypeOK, Data, UNCHANGED <<run, history>>,
           \A q \in Process :
              /\ inbox'[q] = inbox[q] \/ inbox'[q] = <<>>
              /\ topic'[q] = topic[q] \/ topic'[q].state = "TOPIC_NODATA"
              /\ Is(q, "listen") => out'[q] = out[q]
              /\ pc'[q] \in Before \/ requests'[q] # <<>> =>
                    pc[q] \in Before \/ requests[q] # <<>>
              /\ requests[q] = <<>> /\ requests'[q] # <<>> => out[q] = <<>>
    PROVE  Data'
  <1>1. \A q \in Process : \A k \in 1 .. Len(inbox'[q]) :
            k \in 1 .. Len(inbox[q]) /\ inbox'[q] = inbox[q]
    BY EmptySeq
  <1>2. Carried'
    BY <1>1 DEF Data, Carried, Valid, Name
  <1>3. Ordered'
    <2> SUFFICES ASSUME NEW p \in Process, Is(p, "listen")
                 PROVE  /\ requests'[p] # <<>> => out[p] = <<>>
                        /\ \A i \in 1 .. Len(out[p]) :
                              /\ out[p][i] \in ToSet(history)
                              /\ i > 1 => Earlier(history, out[p][i - 1], out[p][i])
                        /\ topic'[p].state = "TOPIC_CHANGED" => Printed(p, topic'[p].data)
                        /\ \A k \in 1 .. Len(inbox'[p]) : inbox'[p][k] # SC_KILLCLIENT =>
                              /\ Printed(p, inbox'[p][k])
                              /\ topic'[p].state # "TOPIC_NODATA" =>
                                    Earlier(history, topic'[p].data, inbox'[p][k])
                              /\ \A j \in 1 .. k - 1 : inbox'[p][j] # SC_KILLCLIENT =>
                                    Earlier(history, inbox'[p][j], inbox'[p][k])
      BY DEF Ordered, Printed, Is
    <2>1. requests'[p] # <<>> => out[p] = <<>>
      BY DEF Data, Ordered
    <2>2. topic'[p].state # "TOPIC_NODATA" => topic'[p] = topic[p]
      OBVIOUS
    <2> QED BY <1>1, <2>1, <2>2 DEF Data, Ordered
  <1> QED BY <1>2, <1>3 DEF Data

(* The thread of the client takes the head of its inbox: what is left is   *)
(* later than that, and all that is printed is earlier.                    *)
LEMMA NetKeepsData ==
    ASSUME TypeOK, Data, NEW p \in Process, NetNotice(p) \/ NetKill(p)
    PROVE  Data'
  <1> USE DEF procVars, brokerVars, clientVars
  <1> DEFINE d == Head(inbox[p])
  <1>1. /\ UNCHANGED <<run, history, pc, out, requests>>
        /\ \A q \in Process : q # p => inbox'[q] = inbox[q] /\ topic'[q] = topic[q]
        /\ inbox[p] # <<>> /\ inbox'[p] = Tail(inbox[p])
        /\ \/ d # SC_KILLCLIENT /\ topic'[p] = [state |-> "TOPIC_CHANGED", data |-> d]
           \/ topic'[p] = topic[p]
    BY DEF NetNotice, NetKill, NetTakes, TypeOK
  <1>2. /\ d = inbox[p][1] /\ 1 \in 1 .. Len(inbox[p])
        /\ \A k \in 1 .. Len(inbox'[p]) :
              k + 1 \in 1 .. Len(inbox[p]) /\ inbox'[p][k] = inbox[p][k + 1]
        /\ Len(inbox'[p]) \in Nat /\ Len(inbox[p]) \in Nat
    <2>1. inbox[p] \in Seq(Int) /\ Tail(inbox[p]) \in Seq(Int)
      BY <1>1, TailOf DEF TypeOK
    <2> QED BY <1>1, <2>1, TailOf, LenProperties
  <1> HIDE DEF d
  <1>3. Carried'
    <2> SUFFICES ASSUME NEW q \in Process
                 PROVE  /\ \A k \in 1 .. Len(inbox'[q]) :
                              inbox'[q][k] \in Valid(q) \cup {SC_KILLCLIENT}
                        /\ topic'[q].state # "TOPIC_NODATA" => topic'[q].data \in Valid(q)
                        /\ pc[q] \in Before \/ requests[q] # <<>> =>
                              /\ topic'[q].state = "TOPIC_NODATA"
                              /\ \A k \in 1 .. Len(inbox'[q]) : inbox'[q][k] = SC_KILLCLIENT
      BY <1>1 DEF Carried, Valid, Name
    <2>1. CASE q # p
      BY <1>1, <2>1 DEF Data, Carried
    <2>2. CASE q = p
      <3>1. CASE topic'[p] = topic[p]
        BY <1>2, <2>2, <3>1 DEF Data, Carried
      <3>2. CASE d # SC_KILLCLIENT /\ topic'[p] = [state |-> "TOPIC_CHANGED", data |-> d]
        BY <1>2, <2>2, <3>2 DEF Data, Carried
      <3> QED BY <1>1, <3>1, <3>2
    <2> QED BY <2>1, <2>2
  <1>4. Ordered'
    <2> SUFFICES ASSUME NEW q \in Process, Is(q, "listen")
                 PROVE  /\ requests[q] # <<>> => out[q] = <<>>
                        /\ \A i \in 1 .. Len(out[q]) :
                              /\ out[q][i] \in ToSet(history)
                              /\ i > 1 => Earlier(history, out[q][i - 1], out[q][i])
                        /\ topic'[q].state = "TOPIC_CHANGED" => Printed(q, topic'[q].data)
                        /\ \A k \in 1 .. Len(inbox'[q]) : inbox'[q][k] # SC_KILLCLIENT =>
                              /\ Printed(q, inbox'[q][k])
                              /\ topic'[q].state # "TOPIC_NODATA" =>
                                    Earlier(history, topic'[q].data, inbox'[q][k])
                              /\ \A j \in 1 .. k - 1 : inbox'[q][j] # SC_KILLCLIENT =>
                                    Earlier(history, inbox'[q][j], inbox'[q][k])
      BY <1>1 DEF Ordered, Printed, Is
    <2>1. CASE q # p
      BY <1>1, <2>1 DEF Data, Ordered
    <2>2. CASE q = p
      <3>1. \A k \in 1 .. Len(inbox'[p]) : inbox'[p][k] # SC_KILLCLIENT =>
                /\ Printed(p, inbox'[p][k])
                /\ topic[p].state # "TOPIC_NODATA" =>
                      Earlier(history, topic[p].data, inbox'[p][k])
        BY <1>2, <2>2 DEF Data, Ordered
      <3>2. \A k \in 1 .. Len(inbox'[p]) : inbox'[p][k] # SC_KILLCLIENT =>
                \A j \in 1 .. (k + 1) - 1 : inbox[p][j] # SC_KILLCLIENT =>
                      Earlier(history, inbox[p][j], inbox'[p][k])
        BY <1>2, <2>2 DEF Data, Ordered
      <3>3. \A k \in 1 .. Len(inbox'[p]) : inbox'[p][k] # SC_KILLCLIENT =>
                /\ d # SC_KILLCLIENT => Earlier(history, d, inbox'[p][k])
                /\ \A j \in 1 .. k - 1 : inbox'[p][j] # SC_KILLCLIENT =>
                      Earlier(history, inbox'[p][j], inbox'[p][k])
        <4>1. ASSUME NEW k \in 1 .. Len(inbox'[p]), NEW j \in 1 .. k - 1
              PROVE  /\ j + 1 \in 1 .. (k + 1) - 1 /\ inbox'[p][j] = inbox[p][j + 1]
          BY <1>2
        <4>2. \A k \in 1 .. Len(inbox'[p]) : 1 \in 1 .. (k + 1) - 1
          BY <1>2
        <4> QED BY <1>2, <3>2, <4>1, <4>2
      <3>4. d # SC_KILLCLIENT => Printed(p, d)
        BY <1>2, <2>2 DEF Data, Ordered
      <3>5. CASE topic'[p] = topic[p]
        BY <2>2, <3>1, <3>3, <3>5 DEF Data, Ordered
      <3>6. CASE d # SC_KILLCLIENT /\ topic'[p] = [state |-> "TOPIC_CHANGED", data |-> d]
        BY <2>2, <3>1, <3>3, <3>4, <3>6 DEF Data, Ordered
      <3> QED BY <1>1, <3>5, <3>6
    <2> QED BY <2>1, <2>2
  <1> QED BY <1>3, <1>4 DEF Data

(* A listen prints a topic that has changed: it is later than all that has *)
(* been printed, and earlier than what is in the inbox.                    *)
LEMMA PrintsKeepsData ==
    ASSUME TypeOK, Data, NEW p \in Process, GetReturns(p)
    PROVE  Data'
  <1> USE DEF procVars, brokerVars, clientVars
  <1> DEFINE d == topic[p].data
             n == Len(out[p])
  <1>1. /\ UNCHANGED <<run, history, inbox, requests>>
        /\ topic[p].state = "TOPIC_CHANGED"
        /\ topic'[p].state = "TOPIC_UNCHANGED" /\ topic'[p].data = d
        /\ out'[p] = Append(out[p], d) /\ pc'[p] \notin Before
        /\ \A q \in Process : q # p => /\ out'[q] = out[q] /\ topic'[q] = topic[q]
                                       /\ pc'[q] = pc[q]
    BY DEF GetReturns, Gets, Goes, Prints, After, TypeOK, Before, Outside
  <1>2. requests[p] = <<>> /\ d \in Valid(p)
    BY <1>1 DEF Data, Carried
  <1>3. /\ n \in Nat /\ Len(out'[p]) = n + 1 /\ out'[p][n + 1] = d
        /\ \A i \in 1 .. n : out'[p][i] = out[p][i]
    <2>1. out[p] \in Seq(Int) /\ d \in Int
      BY DEF TypeOK
    <2> HIDE DEF d
    <2> QED BY <1>1, <2>1, AppendProperties, LenProperties
  <1> HIDE DEF d, n
  <1>4. Carried'
    BY <1>1, <1>2 DEF Data, Carried, Valid, Name
  <1>5. Ordered'
    <2> SUFFICES ASSUME NEW q \in Process, Is(q, "listen")
                 PROVE  /\ requests[q] # <<>> => out'[q] = <<>>
                        /\ \A i \in 1 .. Len(out'[q]) :
                              /\ out'[q][i] \in ToSet(history)
                              /\ i > 1 => Earlier(history, out'[q][i - 1], out'[q][i])
                        /\ topic'[q].state = "TOPIC_CHANGED" =>
                              \A i \in 1 .. Len(out'[q]) :
                                  Earlier(history, out'[q][i], topic'[q].data)
                        /\ \A k \in 1 .. Len(inbox[q]) : inbox[q][k] # SC_KILLCLIENT =>
                              /\ \A i \in 1 .. Len(out'[q]) :
                                    Earlier(history, out'[q][i], inbox[q][k])
                              /\ topic'[q].state # "TOPIC_NODATA" =>
                                    Earlier(history, topic'[q].data, inbox[q][k])
                              /\ \A j \in 1 .. k - 1 : inbox[q][j] # SC_KILLCLIENT =>
                                    Earlier(history, inbox[q][j], inbox[q][k])
      BY <1>1 DEF Ordered, Printed, Is
    <2>1. CASE q # p
      BY <1>1, <2>1 DEF Data, Ordered, Printed
    <2>2. CASE q = p
      <3>1. d \in ToSet(history)
        BY <1>2, <2>2 DEF Valid, Name, Is
      <3>2. \A i \in 1 .. n : /\ out[p][i] \in ToSet(history)
                              /\ i > 1 => Earlier(history, out[p][i - 1], out[p][i])
                              /\ Earlier(history, out[p][i], d)
        BY <1>1, <2>2 DEF Data, Ordered, Printed, n, d
      <3>3. \A i \in 1 .. n + 1 :
                /\ out'[p][i] \in ToSet(history)
                /\ i > 1 => Earlier(history, out'[p][i - 1], out'[p][i])
        <4>1. ASSUME NEW i \in 1 .. n + 1
              PROVE  /\ out'[p][i] \in ToSet(history)
                     /\ i > 1 => Earlier(history, out'[p][i - 1], out'[p][i])
          <5>1. CASE i \in 1 .. n
            <6>1. i > 1 => i - 1 \in 1 .. n
              BY <1>3, <5>1
            <6> QED BY <1>3, <3>2, <5>1, <6>1
          <5>2. CASE i = n + 1
            <6>1. i > 1 => i - 1 \in 1 .. n /\ i - 1 = n
              BY <1>3, <5>2
            <6> QED BY <1>3, <3>1, <3>2, <5>2, <6>1
          <5> QED BY <1>3, <5>1, <5>2
        <4> QED BY <4>1
      <3>4. \A k \in 1 .. Len(inbox[p]) : inbox[p][k] # SC_KILLCLIENT =>
                /\ \A i \in 1 .. n : Earlier(history, out[p][i], inbox[p][k])
                /\ Earlier(history, d, inbox[p][k])
                /\ \A j \in 1 .. k - 1 : inbox[p][j] # SC_KILLCLIENT =>
                      Earlier(history, inbox[p][j], inbox[p][k])
        BY <1>1, <2>2 DEF Data, Ordered, Printed, n, d
      <3>5. \A i \in 1 .. n + 1 : i \in 1 .. n \/ i = n + 1
        BY <1>3
      <3>6. \A k \in 1 .. Len(inbox[p]) : inbox[p][k] # SC_KILLCLIENT =>
                \A i \in 1 .. n + 1 : Earlier(history, out'[p][i], inbox[p][k])
        BY <1>3, <3>4, <3>5
      <3>7. requests[q] = <<>> /\ topic'[q].state = "TOPIC_UNCHANGED" /\ topic'[q].data = d
        BY <1>1, <1>2, <2>2
      <3>8. Len(out'[q]) = n + 1
        BY <1>3, <2>2
      <3> QED BY <2>2, <3>3, <3>4, <3>6, <3>7, <3>8
    <2> QED BY <2>1, <2>2
  <1> QED BY <1>4, <1>5 DEF Data

(* What the broker writes is SC_KILLCLIENT, or data that is later than all *)
(* that its reader has printed, holds, or has still to read.               *)
LEMMA NotifyKeepsData ==
    ASSUME TypeOK, Data, Longer, NEW ps, NEW d \in Int, Notify(ps, d),
           UNCHANGED <<run, topic, out, pc>>,
           \A q \in Process : requests'[q] # <<>> => requests[q] # <<>>,
           \A q \in Process : q \in ps /\ d # SC_KILLCLIENT =>
              /\ d \in Valid(q)' /\ pc[q] \notin Before /\ requests'[q] = <<>>
              /\ Is(q, "listen") =>
                    /\ \A i \in 1 .. Len(out[q]) : Earlier(history', out[q][i], d)
                    /\ topic[q].state # "TOPIC_NODATA" => Earlier(history', topic[q].data, d)
                    /\ \A k \in 1 .. Len(inbox[q]) : inbox[q][k] # SC_KILLCLIENT =>
                          Earlier(history', inbox[q][k], d)
    PROVE  Data'
  <1>1. /\ \A q \in Process : q \notin ps => inbox'[q] = inbox[q]
        /\ \A q \in Process : q \in ps =>
              /\ Len(inbox'[q]) = Len(inbox[q]) + 1 /\ Len(inbox[q]) \in Nat
              /\ inbox'[q][Len(inbox[q]) + 1] = d
              /\ \A k \in 1 .. Len(inbox[q]) : inbox'[q][k] = inbox[q][k]
    BY NotifyEffect
  <1>2. \A q \in Process : Valid(q) \subseteq Valid(q)'
    BY LongerKeeps DEF Valid, Name
  <1>3. \A u, v : Earlier(history, u, v) => Earlier(history', u, v)
    BY LongerKeeps
  (* What can be in an inbox: what was there, or the new message.          *)
  <1>4. ASSUME NEW q \in Process, NEW k \in 1 .. Len(inbox'[q])
        PROVE  \/ k \in 1 .. Len(inbox[q]) /\ inbox'[q][k] = inbox[q][k]
               \/ q \in ps /\ k = Len(inbox[q]) + 1 /\ inbox'[q][k] = d
    <2>1. CASE q \notin ps
      BY <1>1, <2>1
    <2>2. CASE q \in ps
      BY <1>1, <2>2
    <2> QED BY <2>1, <2>2
  <1>5. Carried'
    <2> SUFFICES ASSUME NEW q \in Process
                 PROVE  /\ \A k \in 1 .. Len(inbox'[q]) :
                              inbox'[q][k] \in Valid(q)' \cup {SC_KILLCLIENT}
                        /\ topic[q].state # "TOPIC_NODATA" => topic[q].data \in Valid(q)'
                        /\ pc[q] \in Before \/ requests'[q] # <<>> =>
                              /\ topic[q].state = "TOPIC_NODATA"
                              /\ \A k \in 1 .. Len(inbox'[q]) : inbox'[q][k] = SC_KILLCLIENT
      BY DEF Carried
    <2>1. topic[q].state # "TOPIC_NODATA" => topic[q].data \in Valid(q)'
      BY <1>2 DEF Data, Carried
    <2>2. ASSUME NEW k \in 1 .. Len(inbox'[q])
          PROVE  inbox'[q][k] \in Valid(q)' \cup {SC_KILLCLIENT}
      BY <1>2, <1>4 DEF Data, Carried
    <2>3. ASSUME pc[q] \in Before \/ requests'[q] # <<>>
          PROVE  /\ topic[q].state = "TOPIC_NODATA"
                 /\ \A k \in 1 .. Len(inbox'[q]) : inbox'[q][k] = SC_KILLCLIENT
      <3>1. topic[q].state = "TOPIC_NODATA"
        BY <2>3 DEF Data, Carried
      <3>2. ASSUME NEW k \in 1 .. Len(inbox'[q]) PROVE inbox'[q][k] = SC_KILLCLIENT
        BY <1>4, <2>3 DEF Data, Carried
      <3> QED BY <3>1, <3>2
    <2> QED BY <2>1, <2>2, <2>3
  <1>6. Ordered'
    <2> SUFFICES ASSUME NEW q \in Process, Is(q, "listen")
                 PROVE  /\ requests'[q] # <<>> => out[q] = <<>>
                        /\ \A i \in 1 .. Len(out[q]) :
                              /\ out[q][i] \in ToSet(history')
                              /\ i > 1 => Earlier(history', out[q][i - 1], out[q][i])
                        /\ topic[q].state = "TOPIC_CHANGED" =>
                              \A i \in 1 .. Len(out[q]) :
                                  Earlier(history', out[q][i], topic[q].data)
                        /\ \A k \in 1 .. Len(inbox'[q]) : inbox'[q][k] # SC_KILLCLIENT =>
                              /\ \A i \in 1 .. Len(out[q]) :
                                    Earlier(history', out[q][i], inbox'[q][k])
                              /\ topic[q].state # "TOPIC_NODATA" =>
                                    Earlier(history', topic[q].data, inbox'[q][k])
                              /\ \A j \in 1 .. k - 1 : inbox'[q][j] # SC_KILLCLIENT =>
                                    Earlier(history', inbox'[q][j], inbox'[q][k])
      BY DEF Ordered, Printed, Is
    <2>1. /\ requests'[q] # <<>> => out[q] = <<>>
          /\ \A i \in 1 .. Len(out[q]) : i > 1 => Earlier(history', out[q][i - 1], out[q][i])
          /\ topic[q].state = "TOPIC_CHANGED" =>
                \A i \in 1 .. Len(out[q]) : Earlier(history', out[q][i], topic[q].data)
      BY <1>3 DEF Data, Ordered, Printed
    <2>2. \A i \in 1 .. Len(out[q]) : out[q][i] \in ToSet(history')
      BY LongerKeeps DEF Data, Ordered
    <2>3. ASSUME NEW k \in 1 .. Len(inbox'[q]), inbox'[q][k] # SC_KILLCLIENT
          PROVE  /\ \A i \in 1 .. Len(out[q]) : Earlier(history', out[q][i], inbox'[q][k])
                 /\ topic[q].state # "TOPIC_NODATA" =>
                       Earlier(history', topic[q].data, inbox'[q][k])
                 /\ \A j \in 1 .. k - 1 : inbox'[q][j] # SC_KILLCLIENT =>
                       Earlier(history', inbox'[q][j], inbox'[q][k])
      <3>1. CASE k \in 1 .. Len(inbox[q]) /\ inbox'[q][k] = inbox[q][k]
        <4>1. \A j \in 1 .. k - 1 : inbox'[q][j] = inbox[q][j]
          BY <1>1, <3>1
        <4>2. /\ \A i \in 1 .. Len(out[q]) : Earlier(history, out[q][i], inbox[q][k])
              /\ topic[q].state # "TOPIC_NODATA" => Earlier(history, topic[q].data, inbox[q][k])
              /\ \A j \in 1 .. k - 1 : inbox[q][j] # SC_KILLCLIENT =>
                       Earlier(history, inbox[q][j], inbox[q][k])
          BY <2>3, <3>1 DEF Data, Ordered, Printed
        <4> QED BY <1>3, <3>1, <4>1, <4>2
      <3>2. CASE q \in ps /\ k = Len(inbox[q]) + 1 /\ inbox'[q][k] = d
        <4>1. \A j \in 1 .. k - 1 : j \in 1 .. Len(inbox[q]) /\ inbox'[q][j] = inbox[q][j]
          BY <1>1, <3>2
        <4> QED BY <2>3, <3>2, <4>1
      <3> QED BY <1>4, <3>1, <3>2
    <2> QED BY <2>1, <2>2, <2>3
  <1> QED BY <1>5, <1>6 DEF Data

(* The broker: the newest data goes to all that listen, what is stored to  *)
(* one that has just subscribed, and has nothing yet.                      *)
LEMMA ServesKeepsData ==
    ASSUME TypeOK, AskedOnce, StoredOK, Data,
           NEW s \in Process, Serves(s) \/ SignalTaken(s)
    PROVE  Data'
  <1> USE DEF procVars, brokerVars, clientVars
  <1>1. ASSUME NEW p \in Process, Accepts(s, p) \/ Unsubscribes(s, p) PROVE Data'
    <2>1. UNCHANGED <<run, history, inbox, topic, out, pc, requests>>
      BY <1>1 DEF Accepts, Unsubscribes
    <2> QED BY <2>1, DataQuiet
  <1>2. ASSUME NEW p \in Process, TakesKill(s, p) PROVE Data'
    <2>1. /\ UNCHANGED <<run, history, inbox, topic, out, pc>>
          /\ \A q \in Process : requests'[q] = <<>> \/ requests'[q] = requests[q]
      BY <1>2, TakesTheOnly DEF TakesKill
    <2> QED BY <2>1, DataQuiet
  <1>3. ASSUME NEW p \in Process, TakesPub(s, p) PROVE Data'
    <2> DEFINE ps == {q \in subs : Name(q) = "topic"}
    <2>1. /\ history' = Append(history, p) /\ Notify(ps, p)
          /\ UNCHANGED <<run, topic, out, pc>> /\ requests[p] # <<>>
          /\ \A q \in Process : requests'[q] = <<>> \/ requests'[q] = requests[q]
      BY <1>3, TakesTheOnly DEF TakesPub, Takes
    <2>2. p \in Int /\ Longer /\ p \in ToSet(history')
      BY <2>1, RunTypes, ToSetAppend DEF Longer, TypeOK
    <2>3. ASSUME NEW q \in Process, q \in ps
          PROVE  p \in Valid(q)' /\ pc[q] \notin Before /\ requests'[q] = <<>>
      BY <2>1, <2>2, <2>3 DEF AskedOnce, Valid, Name
    <2>4. ASSUME NEW q \in Process, q \in ps, Is(q, "listen")
          PROVE  /\ \A i \in 1 .. Len(out[q]) : Earlier(history', out[q][i], p)
                 /\ topic[q].state # "TOPIC_NODATA" => Earlier(history', topic[q].data, p)
                 /\ \A k \in 1 .. Len(inbox[q]) : inbox[q][k] # SC_KILLCLIENT =>
                       Earlier(history', inbox[q][k], p)
      <3>1. \A v \in ToSet(history) : Earlier(history', v, p)
        BY <2>1, NewestIsLater
      <3>2. Valid(q) = ToSet(history)
        BY <2>4 DEF Valid
      <3>3. \A i \in 1 .. Len(out[q]) : out[q][i] \in ToSet(history)
        BY <2>4 DEF Data, Ordered
      <3>4. /\ topic[q].state # "TOPIC_NODATA" => topic[q].data \in ToSet(history)
            /\ \A k \in 1 .. Len(inbox[q]) : inbox[q][k] # SC_KILLCLIENT =>
                  inbox[q][k] \in ToSet(history)
        BY <3>2 DEF Data, Carried
      <3> QED BY <3>1, <3>3, <3>4
    <2> HIDE DEF ps
    <2>5. \A q \in Process : requests'[q] # <<>> => requests[q] # <<>>
      BY <2>1
    <2> QED BY <2>1, <2>2, <2>3, <2>4, <2>5, NotifyKeepsData
  <1>4. ASSUME NEW p \in Process, TakesSubscribe(s, p) PROVE Data'
    <2> DEFINE ps == {q \in {p} : stored[Name(q)] # NoData}
               d  == stored[Name(p)]
    <2>1. /\ history' = history /\ Notify(ps, d)
          /\ UNCHANGED <<run, topic, out, pc>>
          /\ requests[p] # <<>> /\ requests'[p] = <<>> /\ pc[p] \notin Before
          /\ \A q \in Process : requests'[q] = <<>> \/ requests'[q] = requests[q]
      BY <1>4, TakesTheOnly DEF TakesSubscribe
    <2>2. d \in Int /\ Longer
      BY <2>1, StoredIsData DEF Longer
    <2>3. \A q \in ps : q = p /\ d \in Valid(p)
      BY StoredIsData
    <2>4. Valid(p)' = Valid(p)
      BY <2>1 DEF Valid, Name
    <2>5. /\ Is(p, "listen") => out[p] = <<>>
          /\ topic[p].state = "TOPIC_NODATA"
          /\ \A k \in 1 .. Len(inbox[p]) : inbox[p][k] = SC_KILLCLIENT
      BY <2>1 DEF Data, Carried, Ordered
    <2>6. Is(p, "listen") => \A i \in 1 .. Len(out[p]) : Earlier(history', out[p][i], d)
      BY <2>5, EmptySeq
    <2> HIDE DEF ps, d
    <2>7. \A q \in Process : requests'[q] # <<>> => requests[q] # <<>>
      BY <2>1
    <2> QED BY <2>1, <2>2, <2>3, <2>4, <2>5, <2>6, <2>7, NotifyKeepsData
  <1>5. ASSUME NEW how, Shuts(s, how) PROVE Data'
    <2> DEFINE ps == {p \in Process : at[p] = s /\ conn[p] = "open"}
    <2>1. /\ Notify(ps, SC_KILLCLIENT)
          /\ UNCHANGED <<run, history, topic, out, pc, requests>>
      BY <1>5 DEF Shuts
    <2>2. SC_KILLCLIENT \in Int /\ Longer
      BY <2>1 DEF SC_KILLCLIENT, Longer
    <2> HIDE DEF ps
    <2> QED BY <2>1, <2>2, NotifyKeepsData
  <1>6. CASE Closes(s)
    <2>1. /\ UNCHANGED <<run, history, topic, out, requests>>
          /\ \A q \in Process : inbox'[q] = inbox[q] \/ inbox'[q] = <<>>
          /\ \A q \in Process : pc'[q] = pc[q] \/ pc'[q] \notin Before
      BY <1>6 DEF Closes, TypeOK, Before, Outside
    <2> QED BY <2>1, DataQuiet
  <1> QED BY <1>1, <1>2, <1>3, <1>4, <1>5, <1>6 DEF Serves, RoundEnds, SignalTaken

LEMMA DataKept ==
    ASSUME TypeOK, AskedOnce, StoredOK, Data, [Next]_vars
    PROVE  Data'
  <1> USE DEF procVars, brokerVars, clientVars
  <1>1. ASSUME NEW p \in Process, Starts(p) PROVE Data'
    <2>1. UNCHANGED <<run, history, inbox, topic, out, requests>>
      BY <1>1 DEF Starts, InitConnects, InitThrows, AlreadyRunning, NoneRunning
    <2>2. /\ pc[p] \in Before
          /\ \A q \in Process : q # p => pc'[q] = pc[q]
      BY <1>1 DEF Starts, InitConnects, InitThrows, AlreadyRunning, NoneRunning, Connects,
         InitCalled, Exits, TypeOK, Before, Outside
    <2> QED BY <2>1, <2>2, DataQuiet
  <1>2. ASSUME NEW p \in Process, Subscribes(p) \/ Requests(p) PROVE Data'
    <2>1. /\ UNCHANGED <<run, history, inbox, out>>
          /\ pc[p] \in Before /\ pc'[p] \notin Before
          /\ \A q \in Process : q # p => /\ pc'[q] = pc[q] /\ requests'[q] = requests[q]
                                         /\ topic'[q] = topic[q]
          /\ topic'[p] = topic[p] \/ topic'[p].state = "TOPIC_NODATA"
      BY <1>2 DEF Subscribes, Requests, Asks, Goes, TypeOK, Before, Outside
    <2>2. out[p] = <<>>
      BY <2>1 DEF AskedOnce
    <2> QED BY <2>1, <2>2, DataQuiet
  <1>3. ASSUME NEW p \in Process,
               \/ RequestThrows(p) \/ LoopTest(p) \/ GetNotConnected(p) \/ GetLocks(p)
               \/ GetWaits(p) \/ Finishes(p) \/ BindFails(p) \/ Signal(p)
        PROVE  Data'
    <2>1. UNCHANGED <<run, history, inbox, topic, requests>>
      BY <1>3 DEF RequestThrows, LoopTest, GetNotConnected, GetLocks, GetWaits, Gets, Finishes,
         BindFails, Signal
    <2>2. \A q \in Process : pc'[q] = pc[q] \/ pc'[q] \notin Before
      BY <1>3 DEF RequestThrows, LoopTest, GetNotConnected, GetLocks, GetWaits, Gets, Goes, After,
         Finishes, BindFails, Signal, Exits, TypeOK, Before, Outside
    <2>3. \A q \in Process : Is(q, "listen") => out'[q] = out[q]
      BY <1>3 DEF RequestThrows, LoopTest, GetNotConnected, PrintsInvalid, GetLocks, GetWaits,
         Finishes, BindFails, Signal, TypeOK, Is
    <2> QED BY <2>1, <2>2, <2>3, DataQuiet
  <1>4. ASSUME NEW p \in Process, Binds(p) PROVE Data'
    <2>1. /\ UNCHANGED <<run, history, inbox, topic, requests, out>> /\ pc[p] \in Before
          /\ \A q \in Process : q # p => pc'[q] = pc[q]
      BY <1>4 DEF Binds, Started, Goes, TypeOK, Before, Outside
    <2> QED BY <2>1, DataQuiet
  <1>5. ASSUME NEW p \in Process, NetEnd(p) PROVE Data'
    <2>1. UNCHANGED <<run, history, inbox, topic, requests, out, pc>>
      BY <1>5 DEF NetEnd
    <2> QED BY <2>1, DataQuiet
  <1>6. CASE TimePasses \/ UNCHANGED vars
    <2>1. UNCHANGED <<run, history, inbox, topic, requests, out, pc>>
      BY <1>6 DEF TimePasses, vars
    <2> QED BY <2>1, DataQuiet
  <1> QED BY <1>1, <1>2, <1>3, <1>4, <1>5, <1>6, NetKeepsData, PrintsKeepsData, ServesKeepsData
          DEF Next, Runs, NetRuns

-----------------------------------------------------------------------------
(* What has been printed.                                                  *)

(* A process connects once: when it has no broker any more, it never has   *)
(* one again.                                                              *)
LEMMA ServedOnce ==
    ASSUME TypeOK, Begun, [Next]_vars, NEW q \in Process
    PROVE  /\ Served(q)' => Served(q) \/ pc[q] = "start"
           /\ running'[q] => running[q] \/ pc[q] = "start"
  <1> USE DEF procVars, brokerVars, clientVars
  <1>1. ASSUME NEW p \in Process, Starts(p)
        PROVE  /\ at'[q] = at[q] \/ pc[q] = "start"
               /\ running'[q] => running[q] \/ pc[q] = "start"
    BY <1>1 DEF Starts, InitConnects, InitThrows, AlreadyRunning, NoneRunning, Connects,
       InitCalled, TypeOK
  <1>2. ASSUME NEW p \in Process,
               Runs(p) \/ NetRuns(p) \/ Serves(p) \/ Signal(p) \/ SignalTaken(p)
        PROVE  at' = at /\ (running'[q] => running[q])
    <2>1. CASE Runs(p)
      BY <2>1 DEF Runs, Subscribes, Requests, Asks, RequestThrows, LoopTest, GetNotConnected,
         GetLocks, GetReturns, GetWaits, Gets, Finishes, Binds, Started, BindFails
    <2>2. CASE NetRuns(p)
      BY <2>2 DEF NetRuns, NetNotice, NetKill, NetTakes, NetEnd, TypeOK
    <2>3. CASE Serves(p) \/ Signal(p) \/ SignalTaken(p)
      BY <2>3 DEF Serves, Accepts, TakesPub, TakesSubscribe, TakesKill, Takes, Unsubscribes,
         RoundEnds, Closes, Signal, SignalTaken, Shuts
    <2> QED BY <1>2, <2>1, <2>2, <2>3
  <1>3. ASSUME TimePasses \/ UNCHANGED vars
        PROVE  UNCHANGED <<at, running>>
    BY <1>3 DEF TimePasses, vars
  <1>4. /\ at'[q] = at[q] \/ pc[q] = "start"
        /\ running'[q] => running[q] \/ pc[q] = "start"
    BY <1>1, <1>2, <1>3 DEF Next
  <1>5. ASSUME at'[q] = at[q], at[q] # NoBroker, phase'[at[q]] = "serving"
        PROVE  phase[at[q]] = "serving"
    <2>1. at[q] \in Process /\ phase[at[q]] # "none"
      BY <1>5 DEF Begun, TypeOK
    <2>2. ASSUME NEW s \in Process, Binds(s) PROVE at[q] # s /\ phase'[at[q]] = phase[at[q]]
      <3>1. phase[s] = "none" /\ phase' = [phase EXCEPT ![s] = "serving"]
        BY <2>2 DEF Binds, Started, Goes, Begun
      <3> QED BY <2>1, <3>1 DEF TypeOK
    <2> QED BY <1>5, <2>1, <2>2, PhaseSteps
  <1> QED BY <1>4, <1>5 DEF Served

(* Nothing is printed.                                                     *)
LEMMA ShownQuiet ==
    ASSUME TypeOK, Begun, AskedOnce, Shown, Longer, [Next]_vars, UNCHANGED <<run, out>>,
           \A q \in Process :
              \/ pc'[q] = pc[q]
              \/ pc'[q] \in {"finish", "exited"}
              \/ pc[q] \notin {"finish", "exited"}
    PROVE  Shown'
  <1> SUFFICES ASSUME NEW p \in Process
               PROVE  /\ Is(p, "show") =>
                            /\ \/ out[p] = <<>>
                               \/ out[p] \in {<<v>> : v \in ToSet(history') \cup {NoData}}
                            /\ pc'[p] \notin {"finish", "exited"} => out[p] = <<>>
                      /\ NoData \in ToSet(out[p]) => ~running'[p] /\ ~Served(p)'
    BY DEF Shown, Is
  <1>1. ToSet(history) \subseteq ToSet(history')
    BY LongerKeeps
  <1>2. ASSUME NoData \in ToSet(out[p])
        PROVE  ~running'[p] /\ ~Served(p)'
    <2>1. out[p] # <<>>
      BY <1>2, EmptySeq DEF ToSet
    <2>2. pc[p] # "start"
      BY <2>1 DEF AskedOnce, Before, Outside
    <2>3. ~running[p] /\ ~Served(p)
      BY <1>2 DEF Shown
    <2> QED BY <2>2, <2>3, ServedOnce
  <1>3. Is(p, "show") => \/ out[p] = <<>>
                         \/ out[p] \in {<<v>> : v \in ToSet(history') \cup {NoData}}
    BY <1>1 DEF Shown
  <1>4. Is(p, "show") /\ pc'[p] \notin {"finish", "exited"} => out[p] = <<>>
    BY DEF Shown
  <1> QED BY <1>2, <1>3, <1>4

(* Something is printed: by a show, as its last step before the exit.      *)
LEMMA PrintsShown ==
    ASSUME TypeOK, Shown, NEW p \in Process, NEW d \in Int,
           out' = [out EXCEPT ![p] = Append(@, d)],
           UNCHANGED <<run, history, running, phase, at>>,
           pc[p] \notin {"finish", "exited"}, Is(p, "show") => pc'[p] = "finish",
           \A q \in Process : q # p => pc'[q] = pc[q],
           Is(p, "show") => d \in ToSet(history) \cup {NoData},
           d = NoData => ~running[p] /\ ~Served(p)
    PROVE  Shown'
  <1>1. /\ out'[p] = Append(out[p], d)
        /\ \A q \in Process : q # p => out'[q] = out[q]
    BY DEF TypeOK
  <1>2. ToSet(out'[p]) = ToSet(out[p]) \cup {d}
    BY <1>1, ToSetAppend DEF TypeOK
  <1>3. Is(p, "show") => out'[p] = <<d>>
    <2>1. Is(p, "show") => out[p] = <<>>
      BY DEF Shown
    <2>2. Append(<<>>, d) = <<d>>
      OBVIOUS
    <2> QED BY <1>1, <2>1, <2>2
  <1> SUFFICES ASSUME NEW q \in Process
               PROVE  /\ Is(q, "show") =>
                            /\ \/ out'[q] = <<>>
                               \/ out'[q] \in {<<v>> : v \in ToSet(history) \cup {NoData}}
                            /\ pc'[q] \notin {"finish", "exited"} => out'[q] = <<>>
                      /\ NoData \in ToSet(out'[q]) => ~running[q] /\ ~Served(q)
    BY DEF Shown, Is, Served
  <1>4. CASE q # p
    BY <1>1, <1>4 DEF Shown
  <1>5. CASE q = p
    <2>1. NoData \in ToSet(out'[p]) => ~running[p] /\ ~Served(p)
      BY <1>2 DEF Shown
    <2> QED BY <1>3, <1>5, <2>1
  <1> QED BY <1>4, <1>5

LEMMA ShownKept ==
    ASSUME TypeOK, Clients, AskedOnce, StoredOK, Data, Shown, [Next]_vars
    PROVE  Shown'
  <1> USE DEF procVars, brokerVars, clientVars
  <1>1. Begun
    BY DEF Clients
  <1>2. ASSUME NEW p \in Process, Starts(p) \/ NetRuns(p) \/ Signal(p) PROVE Shown'
    <2>1. UNCHANGED <<run, out>> /\ Longer
      BY <1>2 DEF Starts, InitConnects, InitThrows, AlreadyRunning, NoneRunning,
         NetRuns, NetNotice, NetKill, NetTakes, NetEnd, Signal, Longer
    <2>2. \A q \in Process : \/ pc'[q] = pc[q] \/ pc'[q] \in {"finish", "exited"}
                             \/ pc[q] \notin {"finish", "exited"}
      BY <1>2 DEF Starts, InitConnects, InitThrows, AlreadyRunning, NoneRunning, Connects,
         InitCalled, NetRuns, NetNotice, NetKill, NetTakes, NetEnd, Signal, Exits, TypeOK
    <2> QED BY <1>1, <2>1, <2>2, ShownQuiet
  <1>3. ASSUME NEW p \in Process,
               \/ Subscribes(p) \/ Requests(p) \/ RequestThrows(p) \/ LoopTest(p) \/ GetLocks(p)
               \/ GetWaits(p) \/ Finishes(p) \/ Binds(p) \/ BindFails(p)
        PROVE  Shown'
    <2>1. UNCHANGED <<run, out>> /\ Longer
      BY <1>3 DEF Subscribes, Requests, Asks, RequestThrows, LoopTest, GetLocks, GetWaits, Gets,
         Finishes, Binds, Started, BindFails, Longer
    <2>2. \A q \in Process : \/ pc'[q] = pc[q] \/ pc'[q] \in {"finish", "exited"}
                             \/ pc[q] \notin {"finish", "exited"}
      BY <1>3 DEF Subscribes, Requests, Asks, RequestThrows, LoopTest, GetLocks, GetWaits, Gets,
         Goes, Finishes, Binds, Started, BindFails, Exits, TypeOK
    <2> QED BY <1>1, <2>1, <2>2, ShownQuiet
  <1>4. ASSUME NEW p \in Process, GetNotConnected(p) PROVE Shown'
    <2>1. /\ UNCHANGED <<run, history, running, phase, at, conn, inbox, requests>>
          /\ ~running[p] /\ Alive(p) /\ pc[p] \in {"get", "wait"}
          /\ pc'[p] = After(p) /\ \A q \in Process : q # p => pc'[q] = pc[q]
      BY <1>4 DEF GetNotConnected, Gets, Goes, TypeOK
    <2>2. ~Served(p)
      BY <2>1 DEF Clients, Attached
    <2>3. CASE out' = out
      <3>1. Longer
        BY <2>1 DEF Longer
      <3> QED BY <1>1, <2>1, <2>3, <3>1, ShownQuiet
    <2>4. CASE out' = [out EXCEPT ![p] = Append(@, NoData)]
      <3>1. Is(p, "show") => pc'[p] = "finish"
        BY <2>1 DEF After, Is
      <3>2. NoData \in Int
        BY DEF NoData
      <3> HIDE DEF NoData
      <3> QED BY <2>1, <2>2, <2>4, <3>1, <3>2, PrintsShown
    <2> QED BY <1>4, <2>3, <2>4 DEF GetNotConnected, PrintsInvalid
  <1>5. ASSUME NEW p \in Process, GetReturns(p) PROVE Shown'
    <2> DEFINE d == topic[p].data
    <2>1. /\ UNCHANGED <<run, history, running, phase, at>>
          /\ pc[p] \in {"locked", "wait"} /\ topic[p].state = "TOPIC_CHANGED"
          /\ pc'[p] = After(p) /\ \A q \in Process : q # p => pc'[q] = pc[q]
          /\ out' = [out EXCEPT ![p] = Append(@, d)]
      BY <1>5 DEF GetReturns, Gets, Goes, Prints, TypeOK
    <2>2. d \in Int /\ d \in Valid(p)
      BY <2>1 DEF Data, Carried, TypeOK
    <2>3. Is(p, "show") => pc'[p] = "finish" /\ d \in ToSet(history)
      BY <2>1, <2>2 DEF After, Is, Valid, Name
    <2>4. d # NoData
      BY <2>2, StoredIsData DEF Valid, Version, NoData
    <2> HIDE DEF d
    <2> QED BY <2>1, <2>2, <2>3, <2>4, PrintsShown
  <1>6. ASSUME NEW s \in Process, Serves(s) \/ SignalTaken(s) PROVE Shown'
    <2>1. UNCHANGED <<run, out>> /\ Longer
      BY <1>6 DEF Serves, Accepts, TakesPub, TakesSubscribe, TakesKill, Takes, Unsubscribes,
         RoundEnds, Closes, SignalTaken, Shuts, Longer
    <2>2. \A q \in Process : pc'[q] = pc[q] \/ pc'[q] \in {"finish", "exited"}
      BY <1>6 DEF Serves, Accepts, TakesPub, TakesSubscribe, TakesKill, Takes, Unsubscribes,
         RoundEnds, Closes, SignalTaken, Shuts, TypeOK
    <2> QED BY <1>1, <2>1, <2>2, ShownQuiet
  <1>7. CASE TimePasses \/ UNCHANGED vars
    <2>1. UNCHANGED <<run, out, pc>> /\ Longer
      BY <1>7 DEF TimePasses, vars, Longer
    <2> QED BY <1>1, <2>1, ShownQuiet
  <1> QED BY <1>2, <1>3, <1>4, <1>5, <1>6, <1>7 DEF Next, Runs

-----------------------------------------------------------------------------
(* The theorems.                                                           *)

LEMMA InitOK ==
    ASSUME Init
    PROVE  IInv
  <1>1. <<>> \in Seq(Int) /\ <<>> \in Seq(Process) /\ <<>> \in Seq(Commands \cup {"subscribe"})
    OBVIOUS
  <1>2. Len(<<>>) = 0 /\ ToSet(<<>>) = {} /\ \A k \in 1 .. Len(<<>>) : FALSE
    BY DEF ToSet
  <1>3. TypeOK
    <2> HIDE DEF Commands
    <2> QED BY <1>1 DEF Init, TypeOK, NoData, NoBroker, Topics
  <1>4. Alone /\ Begun /\ Attached
    BY <1>2 DEF Init, Alone, Listening, Begun, Outside, Attached, Served
  <1>5. AskedOnce /\ StoredOK
    BY <1>2 DEF Init, AskedOnce, Before, Outside, StoredOK, Topics
  <1>6. Carried /\ Ordered /\ Shown
    BY <1>2 DEF Init, Carried, Ordered, Shown
  <1> QED BY <1>3, <1>4, <1>5, <1>6 DEF IInv

(* The invariant holds whatever the commands are and whenever they are     *)
(* given: one broker at a time, clients that keep their connection as long *)
(* as their broker serves, and data that stays in its order from pub       *)
(* through the broker and the inbox of a listen to what it prints.         *)
THEOREM CommandsInvariance == Spec => []IInv
  <1>1. Init => IInv
    BY InitOK
  <1>2. IInv /\ [Next]_vars => IInv'
    <2> SUFFICES ASSUME IInv, [Next]_vars PROVE IInv'
      OBVIOUS
    <2>1. /\ TypeOK /\ Alone /\ Clients /\ AskedOnce /\ StoredOK /\ Data /\ Shown
      BY DEF IInv, Clients, Data
    <2>2. /\ TypeOK' /\ Alone' /\ Clients' /\ AskedOnce' /\ StoredOK' /\ Data' /\ Shown'
      BY <2>1, TypeKept, AloneKept, ClientsKept, AskedKept, StoredKept, DataKept, ShownKept
    <2> QED BY <2>2 DEF IInv, Clients, Data
  <1> QED BY <1>1, <1>2, PTL DEF Spec

(* Of any number of servers that are started, at once or not, in C or in   *)
(* C++, one at most listens: whoever passes the check that none runs still *)
(* has to get the port.                                                    *)
THEOREM OneBrokerAtATime == Spec => []OneServer
  <1>1. IInv => OneServer
    <2> SUFFICES ASSUME Alone PROVE OneServer
      BY DEF IInv
    <2> DEFINE S == {s \in Process : Listening(s)}
    <2>1. CASE S = {}
      BY <2>1, FS_EmptySet DEF OneServer
    <2>2. CASE S # {}
      <3>1. PICK s \in S : TRUE
        BY <2>2
      <3>2. S = {s}
        BY <3>1 DEF Alone
      <3>3. Cardinality(S) = 1
        BY <3>2, FS_Singleton
      <3> QED BY <3>3 DEF OneServer
    <2> QED BY <2>1, <2>2
  <1> QED BY <1>1, CommandsInvariance, PTL

(* Whatever a listen prints was published, in that order, and is printed   *)
(* once; a show prints one thing; an empty line is printed only by a       *)
(* command whose broker has gone.                                          *)
THEOREM AlwaysPrintedInOrder == Spec => []PrintedInOrder
  <1>1. IInv => PrintedInOrder
    <2> SUFFICES ASSUME IInv, NEW p \in Process
                 PROVE  /\ Is(p, "listen") =>
                              \A i \in 1 .. Len(out[p]) :
                                  /\ out[p][i] \in ToSet(history)
                                  /\ i > 1 =>
                                        (CHOOSE j \in 1 .. Len(history) :
                                             history[j] = out[p][i - 1])
                                          < (CHOOSE j \in 1 .. Len(history) :
                                                 history[j] = out[p][i])
                        /\ Is(p, "show") =>
                              \/ out[p] = <<>>
                              \/ out[p] \in {<<v>> : v \in ToSet(history) \cup {NoData}}
                        /\ NoData \in ToSet(out[p]) => ~running[p] /\ ~Served(p)
      BY DEF PrintedInOrder
    <2> DEFINE place(v) == CHOOSE j \in 1 .. Len(history) : history[j] = v
    <2>1. ASSUME NEW u, NEW v, Earlier(history, u, v)
          PROVE  place(u) < place(v)
      <3>1. PICK i, j \in 1 .. Len(history) : i < j /\ history[i] = u /\ history[j] = v
        BY <2>1 DEF Earlier
      <3>2. place(u) = i /\ place(v) = j
        BY <3>1 DEF IInv, StoredOK
      <3> QED BY <3>1, <3>2
    <2>2. ASSUME Is(p, "listen"), NEW i \in 1 .. Len(out[p])
          PROVE  /\ out[p][i] \in ToSet(history)
                 /\ i > 1 => place(out[p][i - 1]) < place(out[p][i])
      <3>1. /\ out[p][i] \in ToSet(history)
            /\ i > 1 => Earlier(history, out[p][i - 1], out[p][i])
        BY <2>2 DEF IInv, Ordered
      <3> HIDE DEF place
      <3> QED BY <2>1, <3>1
    <2>3. /\ Is(p, "show") => \/ out[p] = <<>>
                              \/ out[p] \in {<<v>> : v \in ToSet(history) \cup {NoData}}
          /\ NoData \in ToSet(out[p]) => ~running[p] /\ ~Served(p)
      BY DEF IInv, Shown
    <2> QED BY <2>2, <2>3
  <1> QED BY <1>1, CommandsInvariance, PTL
=============================================================================

------------------------------ MODULE Lifecycle -----------------------------
(***************************************************************************)
(* The sessions of a client process: init(), destroy() and threadfunc() of *)
(* client.cpp, with isRunning().  Module Client takes one session from the *)
(* moment that init() has returned; here is what comes before and after    *)
(* it, and a second session after the first.                               *)
(*                                                                         *)
(* A session is known by its number: session s has the s-th MyClient       *)
(* object, the s-th connection and the s-th thread.  The program has one   *)
(* variable "client" and one flag "running" for all of them, and nothing   *)
(* keeps it from starting a session while the thread of another is there:  *)
(* init(); destroy(); init() does.  What the threads then do to each other *)
(* is undefined in C++, and here whatever comes of it.                     *)
(***************************************************************************)
EXTENDS Naturals, Sequences

CONSTANTS MaxSessions,  \* bound: how often init() connects
          MaxNested,    \* bound: how often it is called without destroy()
          MaxMessages   \* bound: messages on the way to the client

ASSUME LifecycleAssumption ==
    MaxSessions \in Nat \ {0} /\ MaxNested \in Nat \ {0} /\ MaxMessages \in Nat

Session == 1 .. MaxSessions

VARIABLES
    initCount, running,
    client,     \* the session whose object it points to; 0 is NULL
    mutex,      \* the mutex and the condition: "live" or "destroyed"
    sessions,   \* how many sessions have been started
    deletions,  \* session -> how often its object has been deleted
    thread,     \* session -> where its thread is
    at,         \* session -> the object that its thread calls update() of
    main,       \* the program's thread: "idle" or "spin" (in init())
    up,         \* a broker accepts connections
    conn,       \* session -> the broker's end: "none", "open" or "closed"
    inbound,    \* session -> what the client has not read
    alive,      \* the process has not been ended by undefined behaviour
    alone       \* history: every earlier thread had ended when the current
                \* session was started

appVars  == <<initCount, client, mutex, sessions, main>>
netVars  == <<deletions, thread, at>>
wireVars == <<up, conn, inbound>>
vars == <<running, appVars, netVars, wireVars, alive, alone>>

Init ==
    /\ initCount = 0 /\ running = FALSE /\ client = 0 /\ mutex = "live"
    /\ sessions = 0 /\ main = "idle" /\ up = TRUE
    /\ deletions = [s \in Session |-> 0]
    /\ thread = [s \in Session |-> "none"]
    /\ at = [s \in Session |-> 0]
    /\ conn = [s \in Session |-> "none"]
    /\ inbound = [s \in Session |-> <<>>]
    /\ alive = TRUE /\ alone = TRUE

-----------------------------------------------------------------------------
(* The API.                                                                *)

Ended(s) == thread[s] \in {"none", "ended"}

NewSession ==
    /\ sessions < MaxSessions
    /\ sessions' = sessions + 1
    /\ client' = sessions'
    /\ conn' = [conn EXCEPT ![sessions'] = "open"]
    /\ thread' = [thread EXCEPT ![sessions'] = "created"]
    /\ main' = "spin"
    /\ alone' = \A s \in Session : Ended(s)
    /\ UNCHANGED <<initCount, running, mutex, deletions, at, up, inbound>>

(* Mutant: every init() connects.                                          *)
InitEveryTime == main = "idle" /\ up /\ NewSession

(* init(), the first: connect() and a new thread, whatever has become of   *)
(* the thread of an earlier session.                                       *)
InitConnects == main = "idle" /\ initCount = 0 /\ up /\ NewSession

(* Nobody listens: the constructor throws, and nothing has changed.        *)
InitThrows ==
    /\ main = "idle" /\ initCount = 0 /\ ~up
    /\ UNCHANGED vars

(* Mutant: nobody waits for the thread.                                    *)
InitReturnsAtOnce ==
    /\ main = "spin"
    /\ main' = "idle"
    /\ initCount' = initCount + 1
    /\ UNCHANGED <<running, client, mutex, sessions, alone, netVars, wireVars>>

(* "while(!running){} // wait for thread"                                  *)
InitReturns ==
    /\ main = "spin" /\ running
    /\ main' = "idle"
    /\ initCount' = initCount + 1
    /\ UNCHANGED <<running, client, mutex, sessions, alone, netVars, wireVars>>

(* init() again: it counts.                                                *)
InitCounts ==
    /\ main = "idle" /\ initCount \in 1 .. MaxNested - 1
    /\ initCount' = initCount + 1
    /\ UNCHANGED <<running, client, mutex, sessions, main, alone, netVars, wireVars>>

(* Mutant: destroy() deletes the client itself.                            *)
DestroyDeletes ==
    /\ main = "idle" /\ initCount > 0
    /\ initCount' = initCount - 1
    /\ IF initCount' # 0
         THEN /\ running' = FALSE /\ mutex' = "destroyed"
              /\ deletions' = [deletions EXCEPT ![client] = @ + 1]
         ELSE UNCHANGED <<running, mutex, deletions>>
    /\ UNCHANGED <<client, sessions, main, alone, thread, at, wireVars>>

(* destroy(): "if(initCount && --initCount)".                              *)
Destroy ==
    /\ main = "idle" /\ initCount > 0
    /\ initCount' = initCount - 1
    /\ IF initCount' # 0 THEN running' = FALSE /\ mutex' = "destroyed"
                         ELSE UNCHANGED <<running, mutex>>
    /\ UNCHANGED <<client, sessions, main, alone, netVars, wireVars>>

-----------------------------------------------------------------------------
(* threadfunc(), in the thread of session s.                               *)

Goes(s, from, to) == thread[s] = from /\ thread' = [thread EXCEPT ![s] = to]

(* Mutant: the flag is left to init().                                     *)
ThreadStartsQuietly(s) ==
    /\ Goes(s, "created", "test")
    /\ UNCHANGED <<running, appVars, deletions, at, wireVars>>

ThreadStarts(s) ==
    /\ Goes(s, "created", "test")
    /\ running' = TRUE
    /\ UNCHANGED <<appVars, deletions, at, wireVars>>

(* while(running), and the object on which it calls update().              *)
ThreadTests(s) ==
    /\ IF running THEN Goes(s, "test", "read") /\ at' = [at EXCEPT ![s] = client]
                  ELSE Goes(s, "test", "leave") /\ UNCHANGED at
    /\ UNCHANGED <<running, appVars, deletions, wireVars>>

(* An object that has been deleted, or that another thread reads as well.  *)
Deleted(o) == deletions[o] > 0

Unsound(s) ==
    \/ Deleted(at[s])
    \/ \E r \in Session : r # s /\ thread[r] = "read" /\ at[r] = at[s]

(* update(): a message is there, or the end; else it waits.  Of a message  *)
(* that two threads read a part each can be left, or its type lost; and a  *)
(* deleted object has a closed descriptor, or one that is another session's*)
(* by now.  process() goes on without a lock if the mutex is destroyed.    *)
ThreadReads(s) ==
    /\ thread[s] = "read"
    /\ \E c \in IF Deleted(at[s]) THEN Session ELSE {at[s]} :
          /\ inbound[c] # <<>>
          /\ inbound' = [inbound EXCEPT ![c] = Tail(@)]
          /\ IF Unsound(s)
               THEN /\ running' \in {running, FALSE}
                    /\ thread' \in {thread, [thread EXCEPT ![s] = "test"]}
               ELSE /\ running' = (running /\ Head(inbound[c]) # "SC_KILLCLIENT")
                    /\ thread' = [thread EXCEPT ![s] = "test"]
    /\ UNCHANGED <<appVars, deletions, at, up, conn>>

ThreadSeesEnd(s) ==
    /\ thread[s] = "read"
    /\ Deleted(at[s]) \/ (inbound[at[s]] = <<>> /\ conn[at[s]] = "closed")
    /\ Goes(s, "read", "leave")
    /\ UNCHANGED <<running, appVars, deletions, at, wireVars>>

(* "delete client", whatever it points to by now.                          *)
ThreadDeletes(s) ==
    /\ Goes(s, "leave", "stop")
    /\ deletions' = [deletions EXCEPT ![client] = @ + 1]
    /\ UNCHANGED <<running, appVars, at, wireVars>>

(* Mutant: nobody learns of it.                                            *)
ThreadEndsQuietly(s) ==
    /\ Goes(s, "stop", "ended")
    /\ UNCHANGED <<running, appVars, deletions, at, wireVars>>

ThreadEnds(s) ==
    /\ Goes(s, "stop", "ended")
    /\ running' = FALSE
    /\ UNCHANGED <<appVars, deletions, at, wireVars>>

-----------------------------------------------------------------------------
(* What is undefined may end the process: update() of such an object, a    *)
(* lock of a destroyed mutex, and deleting an object again.                *)
Undefined(s) ==
    \/ thread[s] = "read" /\ Unsound(s)
    \/ thread[s] = "read" /\ inbound[at[s]] # <<>> /\ mutex = "destroyed"
    \/ thread[s] = "leave" /\ Deleted(client)

Dies ==
    /\ \E s \in Session : Undefined(s)
    /\ alive' = FALSE
    /\ UNCHANGED <<running, appVars, netVars, wireVars>>

-----------------------------------------------------------------------------
(* The broker.                                                             *)

BrokerSends(s, m) ==
    /\ up /\ conn[s] = "open" /\ Len(inbound[s]) < MaxMessages
    /\ inbound' = [inbound EXCEPT ![s] = Append(@, m)]
    /\ UNCHANGED <<running, appVars, netVars, up, conn>>

(* It ends, with a word to everyone or without (a crash).                  *)
BrokerEnds ==
    /\ up /\ up' = FALSE
    /\ conn' = [s \in Session |-> IF conn[s] = "open" THEN "closed" ELSE conn[s]]
    /\ \E word \in {<<>>, <<"SC_KILLCLIENT">>} :
          inbound' = [s \in Session |-> IF conn[s] = "open" THEN inbound[s] \o word
                                                           ELSE inbound[s]]
    /\ UNCHANGED <<running, appVars, netVars>>

BrokerStarts ==
    /\ ~up /\ up' = TRUE
    /\ UNCHANGED <<running, appVars, netVars, conn, inbound>>

-----------------------------------------------------------------------------
Thread(s) ==
    /\ alive /\ UNCHANGED <<alive, alone>>
    /\ \/ ThreadStarts(s) \/ ThreadTests(s) \/ ThreadReads(s) \/ ThreadSeesEnd(s)
       \/ ThreadDeletes(s) \/ ThreadEnds(s)

Api ==
    /\ alive /\ UNCHANGED alive
    /\ InitConnects \/ InitThrows \/ InitReturns \/ InitCounts \/ Destroy

Broker ==
    /\ BrokerEnds \/ BrokerStarts \/ \E s \in Session : BrokerSends(s, "SC_NOTIFY")
    /\ UNCHANGED <<alive, alone>>

Next ==
    \/ Api \/ (\E s \in Session : Thread(s)) \/ Broker
    \/ alive /\ Dies /\ UNCHANGED alone

Spec == Init /\ [][Next]_vars

(* The threads are scheduled, and so is the loop in init(); nobody has to  *)
(* call the API, and the broker has to do nothing.                         *)
FairSpec ==
    /\ Spec /\ WF_vars(alive /\ InitReturns /\ UNCHANGED alive)
    /\ \A s \in Session : WF_vars(Thread(s))

-----------------------------------------------------------------------------
TypeOK ==
    /\ initCount \in 0 .. MaxNested /\ running \in BOOLEAN
    /\ client = sessions /\ sessions \in 0 .. MaxSessions
    /\ mutex \in {"live", "destroyed"} /\ main \in {"idle", "spin"}
    /\ deletions \in [Session -> Nat]
    /\ thread \in [Session -> {"none", "created", "test", "read", "leave", "stop",
                               "ended"}]
    /\ at \in [Session -> 0 .. MaxSessions]
    /\ \A s \in Session : thread[s] = "read" => at[s] \in Session
    /\ up \in BOOLEAN /\ conn \in [Session -> {"none", "open", "closed"}]
    /\ inbound \in [Session -> Seq({"SC_NOTIFY", "SC_KILLCLIENT"})]
    /\ alive \in BOOLEAN /\ alone \in BOOLEAN

(* "delete client" and "client->update()" go through one global pointer.   *)
(* In a session that no earlier thread has seen begin, the thread uses and *)
(* deletes its own object, and that once, however init() and destroy() are *)
(* nested and whatever the broker does; and the process is not harmed,     *)
(* unless a nested destroy() has destroyed the mutex that it still uses.   *)
SessionApart ==
    alone =>
        \A s \in Session :
            /\ ~Ended(s) => client = s
            /\ thread[s] = "read" => at[s] = s
            /\ s = client => deletions[s] = IF thread[s] \in {"stop", "ended"} THEN 1 ELSE 0
            /\ mutex = "live" => alive

(* init(), "wait for thread": it returns before the thread of its session  *)
(* has started only if an earlier one is still there and has left the flag *)
(* up, as in init(); destroy(); init().                                    *)
InitWaitsForThread ==
    [][main = "spin" /\ main' = "idle" /\ thread[client] = "created"
          => ~alone /\ \E s \in Session : s < client /\ ~Ended(s)]_vars

(* The inductive invariant under both: the flag is set only while a thread *)
(* is there to clear it, and nothing is known of a session before it is    *)
(* started.                                                                *)
IInv ==
    /\ TypeOK /\ SessionApart
    /\ \A s \in Session : s > sessions => thread[s] = "none" /\ deletions[s] = 0
    /\ running => \E s \in Session : thread[s] \in {"test", "read", "leave", "stop"}
    /\ main = "spin" => initCount = 0

(* init() returns, unless the broker has gone in the meantime: then the    *)
(* loop may miss that the flag was set.  (If an earlier thread is there it *)
(* may delete the new object, or clear the flag that the new thread has    *)
(* set: then it may not return either.)                                    *)
InitEnds ==
    (main = "spin" /\ alone) ~> (main = "idle" \/ conn[client] = "closed" \/ ~alive)

(* isRunning(), "returns false when the client loop has quit (i.e. the     *)
(* server has died)": the end of the connection ends every thread and is   *)
(* told, however init() and destroy() have been nested, and though threads *)
(* of other sessions have taken part, unless the process is harmed or the  *)
(* program connects again.                                                 *)
EndReported ==
    \A s \in Session :
        (client = s /\ conn[s] = "closed") ~>
            (client # s \/ ~alive \/ (~running /\ \A r \in Session : Ended(r)))

-----------------------------------------------------------------------------
(* Claims of the documentation that the code does not meet.                *)

(* README, destroy(): "if the counter goes down to zero, destroy() does    *)
(* its job", "by killing the thread and closing the socket".  (Nobody      *)
(* expects it of a process that has come to harm.)                         *)
DestroyDoesItsJob ==
    \A s \in Session :
        (main = "idle" /\ initCount = 0 /\ thread[s] = "read")
            ~> (thread[s] = "ended" \/ ~alive)
=============================================================================

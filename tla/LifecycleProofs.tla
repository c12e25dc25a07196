--------------------------- MODULE LifecycleProofs ----------------------------
(* Theorems about the sessions of a client process, for every number of    *)
(* sessions, nested calls of init() and messages, and for every order in   *)
(* which a program calls init() and destroy(): nothing is assumed of it.   *)
EXTENDS Lifecycle, SequenceTheorems, TLAPS

Words == {"SC_NOTIFY", "SC_KILLCLIENT"}

(* Nothing is known of a session before it is started.                     *)
LaterUntouched == \A s \in Session : s > sessions => thread[s] = "none" /\ deletions[s] = 0

(* A session with a thread has been started, and "client" is an object.    *)
LEMMA Started ==
    ASSUME IInv, NEW s \in Session, thread[s] # "none"
    PROVE  client = sessions /\ client \in Session /\ s <= client
  <1>1. TypeOK /\ ~(s > sessions)
    BY DEF IInv
  <1>2. sessions \in 0 .. MaxSessions /\ MaxSessions \in Nat /\ s \in 1 .. MaxSessions
    BY <1>1, LifecycleAssumption DEF TypeOK, Session
  <1> QED BY <1>1, <1>2 DEF TypeOK, Session

(* In a session that started alone, the one thread is its own.             *)
LEMMA OneThread ==
    ASSUME IInv, alone, NEW s \in Session, ~Ended(s)
    PROVE  client = s /\ \A r \in Session : r # s => Ended(r)
  BY DEF IInv, SessionApart

(* The first state.                                                        *)
LEMMA InitOK == Init => IInv
  <1> SUFFICES ASSUME Init PROVE IInv
    OBVIOUS
  <1>1. TypeOK
    <2>1. 0 \in 0 .. MaxNested /\ 0 \in 0 .. MaxSessions
      BY LifecycleAssumption
    <2>2. inbound \in [Session -> Seq({"SC_NOTIFY", "SC_KILLCLIENT"})]
      BY EmptySeq DEF Init
    <2> QED BY <2>1, <2>2 DEF Init, TypeOK
  <1>2. SessionApart
    BY DEF Init, SessionApart, Ended
  <1> QED BY <1>1, <1>2 DEF Init, IInv

(* init(), the first: the new thread is the only one, or the session is    *)
(* not "alone".                                                            *)
LEMMA InitConnectsKeeps ==
    ASSUME IInv, alive, InitConnects, UNCHANGED alive
    PROVE  IInv'
  <1> DEFINE n == sessions + 1
  <1> USE DEF InitConnects, NewSession
  <1>1. TypeOK
    BY DEF IInv
  <1>2. n \in Session /\ sessions' = n /\ client' = n /\ n > sessions
    <2>1. sessions \in Nat /\ MaxSessions \in Nat /\ sessions < MaxSessions
      BY <1>1, LifecycleAssumption DEF TypeOK
    <2> QED BY <2>1 DEF Session
  <1>3. \A s \in Session : thread'[s] = IF s = n THEN "created" ELSE thread[s]
    BY <1>1 DEF TypeOK
  <1>4. thread[n] = "none" /\ deletions[n] = 0
    BY <1>2 DEF IInv
  <1>5. TypeOK'
    <2>1. n \in 0 .. MaxSessions
      BY <1>2 DEF Session
    <2>2. conn' \in [Session -> {"none", "open", "closed"}]
      BY <1>1, <1>2 DEF TypeOK
    <2>3. thread' \in [Session -> {"none", "created", "test", "read", "leave", "stop", "ended"}]
      BY <1>1, <1>2 DEF TypeOK
    <2>4. \A s \in Session : thread'[s] = "read" => at'[s] \in Session
      BY <1>1, <1>3 DEF TypeOK
    <2> QED BY <1>1, <1>2, <2>1, <2>2, <2>3, <2>4 DEF TypeOK
  <1>6. SessionApart'
    <2> SUFFICES ASSUME alone', NEW s \in Session
                 PROVE  /\ ~Ended(s)' => client' = s
                        /\ thread'[s] = "read" => at'[s] = s
                        /\ s = client' =>
                             deletions'[s] = IF thread'[s] \in {"stop", "ended"} THEN 1 ELSE 0
                        /\ mutex' = "live" => alive'
      BY DEF SessionApart
    <2>1. \A r \in Session : Ended(r)
      OBVIOUS
    <2> QED BY <1>2, <1>3, <1>4, <2>1 DEF Ended
  <1>7. LaterUntouched'
    <2> SUFFICES ASSUME NEW s \in Session, s > n PROVE thread'[s] = "none" /\ deletions'[s] = 0
      BY <1>2 DEF LaterUntouched
    <2>1. s # n /\ s > sessions
      BY <1>1 DEF TypeOK, Session
    <2> QED BY <1>3, <2>1 DEF IInv
  <1>8. running' => \E s \in Session : thread'[s] \in {"test", "read", "leave", "stop"}
    BY <1>3, <1>4 DEF IInv
  <1> QED BY <1>5, <1>6, <1>7, <1>8 DEF IInv, LaterUntouched

(* The other calls of the API count, and touch no thread.                  *)
LEMMA CallKeeps ==
    ASSUME IInv, InitThrows \/ InitReturns \/ InitCounts \/ Destroy, UNCHANGED alive
    PROVE  IInv'
  <1>1. UNCHANGED <<client, sessions, alone, netVars, wireVars>> /\ running' \in {running, FALSE}
    BY DEF InitThrows, InitReturns, InitCounts, Destroy, vars, appVars, netVars, wireVars
  <1>2. /\ initCount' \in 0 .. MaxNested /\ main' \in {"idle", "spin"}
        /\ mutex' \in {mutex, "destroyed"} /\ (main' = "spin" => initCount' = 0)
    BY LifecycleAssumption DEF InitThrows, InitReturns, InitCounts, Destroy,
       vars, appVars, IInv, TypeOK
  <1>3. TypeOK'
    BY <1>1, <1>2 DEF IInv, TypeOK, netVars, wireVars
  <1>4. SessionApart'
    BY <1>1, <1>2 DEF IInv, SessionApart, Ended, netVars
  <1>5. running' => \E s \in Session : thread'[s] \in {"test", "read", "leave", "stop"}
    BY <1>1 DEF IInv, netVars
  <1>6. LaterUntouched'
    BY <1>1 DEF IInv, LaterUntouched, netVars
  <1> QED BY <1>2, <1>3, <1>4, <1>5, <1>6 DEF IInv, LaterUntouched

(* A step of a thread that deletes nothing and does not end.               *)
LEMMA ThreadMoves ==
    ASSUME IInv, NEW s \in Session, NEW to \in {"test", "read", "leave"},
           thread[s] \in {"created", "test", "read"},
           thread' = [thread EXCEPT ![s] = to],
           running' \in BOOLEAN, UNCHANGED <<appVars, deletions, up, conn, alive, alone>>,
           inbound' \in [Session -> Seq(Words)],
           at' \in {at, [at EXCEPT ![s] = client]},
           to = "read" => at' # at \/ at[s] = client \/ thread[s] = "read"
    PROVE  IInv'
  <1> USE DEF appVars
  <1>1. TypeOK
    BY DEF IInv
  <1>2. \A r \in Session : thread'[r] = IF r = s THEN to ELSE thread[r]
    BY <1>1 DEF TypeOK
  <1>3. client = sessions /\ client \in Session /\ s <= client
    BY Started
  <1>4. \A r \in Session : r # s => at'[r] = at[r]
    BY <1>1 DEF TypeOK
  <1>5. to = "read" => at'[s] \in {client} \/ (at'[s] = at[s] /\ thread[s] = "read")
    BY <1>1 DEF TypeOK
  <1>6. TypeOK'
    <2>1. at' \in [Session -> 0 .. MaxSessions]
      <3>1. client \in 0 .. MaxSessions /\ at \in [Session -> 0 .. MaxSessions]
        BY <1>1, <1>3 DEF TypeOK
      <3>2. [at EXCEPT ![s] = client] \in [Session -> 0 .. MaxSessions]
        BY <3>1
      <3> QED BY <3>1, <3>2
    <2>2. thread' \in [Session -> {"none", "created", "test", "read", "leave", "stop", "ended"}]
      BY <1>1 DEF TypeOK
    <2>3. \A r \in Session : thread'[r] = "read" => at'[r] \in Session
      BY <1>1, <1>2, <1>3, <1>4, <1>5 DEF TypeOK
    <2> QED BY <1>1, <2>1, <2>2, <2>3 DEF TypeOK, Words
  <1>7. SessionApart'
    <2> SUFFICES ASSUME alone PROVE SessionApart'
      BY DEF SessionApart
    <2>1. client = s /\ \A r \in Session : r # s => Ended(r)
      BY OneThread DEF Ended
    <2>2. deletions[s] = 0 /\ (mutex = "live" => alive)
      BY <2>1 DEF IInv, SessionApart
    <2>3. to = "read" => at'[s] = s
      BY <1>5, <2>1 DEF IInv, SessionApart
    <2> QED BY <1>2, <1>4, <2>1, <2>2, <2>3 DEF IInv, SessionApart, Ended
  <1>8. LaterUntouched'
    BY <1>1, <1>2, <1>3 DEF IInv, LaterUntouched, TypeOK, Session
  <1>9. \E r \in Session : thread'[r] \in {"test", "read", "leave", "stop"}
    BY <1>2
  <1> QED BY <1>6, <1>7, <1>8, <1>9 DEF IInv, LaterUntouched

(* update(): whatever two threads make of a message, or one of an object   *)
(* that has been deleted.                                                  *)
LEMMA ThreadReadsKeeps ==
    ASSUME IInv, NEW s \in Session, ThreadReads(s), UNCHANGED <<alive, alone>>
    PROVE  IInv'
  <1>1. TypeOK /\ running \in BOOLEAN /\ inbound \in [Session -> Seq(Words)]
    BY DEF IInv, TypeOK, Words
  <1>2. PICK c \in Session :
           /\ inbound[c] # <<>>
           /\ inbound' = [inbound EXCEPT ![c] = Tail(@)]
           /\ running' \in BOOLEAN
           /\ \E to \in {"test", "read"} : thread' = [thread EXCEPT ![s] = to]
    <2>1. thread[s] = "read" /\ at[s] \in Session
      BY <1>1 DEF ThreadReads, TypeOK
    <2>2. thread = [thread EXCEPT ![s] = "read"]
      BY <1>1, <2>1 DEF TypeOK
    <2> QED BY <1>1, <2>1, <2>2 DEF ThreadReads
  <1>3. Tail(inbound[c]) \in Seq(Words)
    BY <1>1, <1>2, HeadTailProperties
  <1>4. inbound' \in [Session -> Seq(Words)]
    BY <1>1, <1>2, <1>3
  <1>5. PICK to \in {"test", "read"} : thread' = [thread EXCEPT ![s] = to]
    BY <1>2
  <1>6. thread[s] = "read" /\ UNCHANGED <<appVars, deletions, at, up, conn>>
    BY DEF ThreadReads
  <1> QED BY <1>2, <1>4, <1>5, <1>6, ThreadMoves

(* "delete client": whosever object it is by now; in a session that has    *)
(* started alone, the thread's own and for the first time.                 *)
LEMMA ThreadDeletesKeeps ==
    ASSUME IInv, NEW s \in Session, ThreadDeletes(s), UNCHANGED <<alive, alone>>
    PROVE  IInv'
  <1> USE DEF ThreadDeletes, Goes, appVars, wireVars
  <1>1. TypeOK
    BY DEF IInv
  <1>2. \A r \in Session : thread'[r] = IF r = s THEN "stop" ELSE thread[r]
    BY <1>1 DEF TypeOK
  <1>3. client = sessions /\ client \in Session /\ s <= client
    BY Started
  <1>4. \A r \in Session : deletions'[r] = IF r = client THEN deletions[r] + 1 ELSE deletions[r]
    BY <1>1, <1>3 DEF TypeOK
  <1>5. TypeOK'
    <2>1. deletions' \in [Session -> Nat]
      BY <1>1, <1>3 DEF TypeOK
    <2>2. thread' \in [Session -> {"none", "created", "test", "read", "leave", "stop", "ended"}]
      BY <1>1 DEF TypeOK
    <2>3. \A r \in Session : thread'[r] = "read" => at'[r] \in Session
      BY <1>1, <1>2 DEF TypeOK
    <2> QED BY <1>1, <2>1, <2>2, <2>3 DEF TypeOK
  <1>6. SessionApart'
    <2> SUFFICES ASSUME alone PROVE SessionApart'
      BY DEF SessionApart
    <2>1. client = s /\ \A r \in Session : r # s => Ended(r)
      BY OneThread DEF Ended
    <2>2. deletions[s] = 0 /\ (mutex = "live" => alive)
      BY <2>1 DEF IInv, SessionApart
    <2> QED BY <1>2, <1>4, <2>1, <2>2 DEF IInv, SessionApart, Ended
  <1>7. LaterUntouched'
    BY <1>1, <1>2, <1>3, <1>4 DEF IInv, LaterUntouched, TypeOK, Session
  <1>8. \E r \in Session : thread'[r] \in {"test", "read", "leave", "stop"}
    BY <1>2
  <1> QED BY <1>5, <1>6, <1>7, <1>8 DEF IInv, LaterUntouched

(* "running=false" at the end of threadfunc(), whoever else is there.      *)
LEMMA ThreadEndsKeeps ==
    ASSUME IInv, NEW s \in Session, ThreadEnds(s), UNCHANGED <<alive, alone>>
    PROVE  IInv'
  <1> USE DEF ThreadEnds, Goes, appVars, wireVars
  <1>1. TypeOK
    BY DEF IInv
  <1>2. \A r \in Session : thread'[r] = IF r = s THEN "ended" ELSE thread[r]
    BY <1>1 DEF TypeOK
  <1>3. client = sessions /\ client \in Session /\ s <= client
    BY Started
  <1>4. TypeOK'
    <2>1. \A r \in Session : thread'[r] = "read" => at'[r] \in Session
      BY <1>1, <1>2 DEF TypeOK
    <2> QED BY <1>1, <2>1 DEF TypeOK
  <1>5. SessionApart'
    <2> SUFFICES ASSUME alone PROVE SessionApart'
      BY DEF SessionApart
    <2>1. client = s /\ \A r \in Session : r # s => Ended(r)
      BY OneThread DEF Ended
    <2>2. deletions[s] = 1 /\ (mutex = "live" => alive)
      BY <2>1 DEF IInv, SessionApart
    <2> QED BY <1>2, <2>1, <2>2 DEF IInv, SessionApart, Ended
  <1>6. LaterUntouched'
    BY <1>1, <1>2, <1>3 DEF IInv, LaterUntouched, TypeOK, Session
  <1> QED BY <1>4, <1>5, <1>6 DEF IInv, LaterUntouched

(* Every step of a thread.                                                 *)
LEMMA ThreadKeeps ==
    ASSUME IInv, NEW s \in Session, Thread(s)
    PROVE  IInv'
  <1> USE DEF wireVars, Goes
  <1>1. inbound \in [Session -> Seq(Words)] /\ running \in BOOLEAN /\ at \in [Session -> 0 .. MaxSessions]
    BY DEF IInv, TypeOK, Words
  <1>2. UNCHANGED <<alive, alone>>
    BY DEF Thread
  <1>3. CASE ThreadStarts(s)
    BY <1>1, <1>2, <1>3, ThreadMoves DEF ThreadStarts
  <1>4. CASE ThreadTests(s)
    <2>1. CASE running
      <3>1. at' = [at EXCEPT ![s] = client] /\ (at' # at \/ at[s] = client)
        BY <1>1, <1>4, <2>1 DEF ThreadTests
      <3> QED BY <1>1, <1>2, <1>4, <2>1, <3>1, ThreadMoves DEF ThreadTests
    <2>2. CASE ~running
      BY <1>1, <1>2, <1>4, <2>2, ThreadMoves DEF ThreadTests
    <2> QED BY <2>1, <2>2
  <1>5. CASE ThreadReads(s)
    BY <1>2, <1>5, ThreadReadsKeeps
  <1>6. CASE ThreadSeesEnd(s)
    BY <1>1, <1>2, <1>6, ThreadMoves DEF ThreadSeesEnd
  <1>7. CASE ThreadDeletes(s)
    BY <1>2, <1>7, ThreadDeletesKeeps
  <1>8. CASE ThreadEnds(s)
    BY <1>2, <1>8, ThreadEndsKeeps
  <1> QED BY <1>3, <1>4, <1>5, <1>6, <1>7, <1>8 DEF Thread

(* Nothing undefined is met in a session that has started alone, while its *)
(* mutex is there.                                                         *)
LEMMA DiesKeeps ==
    ASSUME IInv, Dies, UNCHANGED alone
    PROVE  IInv'
  <1>1. TypeOK /\ UNCHANGED <<running, appVars, netVars, wireVars, alone>> /\ alive' = FALSE
    BY DEF IInv, Dies
  <1>2. TypeOK'
    BY <1>1 DEF TypeOK, appVars, netVars, wireVars
  <1>3. SessionApart'
    <2> SUFFICES ASSUME alone, mutex = "live" PROVE FALSE
      BY <1>1 DEF IInv, SessionApart, Ended, appVars, netVars
    <2>1. PICK s \in Session : Undefined(s)
      BY DEF Dies
    <2>2. thread[s] \in {"read", "leave"}
      BY <2>1 DEF Undefined
    <2>3. client = s /\ \A r \in Session : r # s => Ended(r)
      BY <2>2, OneThread DEF Ended
    <2>4. deletions[s] = 0 /\ (thread[s] = "read" => at[s] = s)
      BY <2>2, <2>3 DEF IInv, SessionApart
    <2>5. thread[s] = "read" => ~Unsound(s)
      BY <2>3, <2>4 DEF Unsound, Deleted, Ended
    <2> QED BY <2>1, <2>3, <2>4, <2>5 DEF Undefined, Deleted
  <1> QED BY <1>1, <1>2, <1>3 DEF IInv, appVars, netVars

(* The broker touches only the wire.                                       *)
LEMMA BrokerKeeps ==
    ASSUME IInv, Broker
    PROVE  IInv'
  <1>1. inbound \in [Session -> Seq(Words)] /\ TypeOK
    BY DEF IInv, TypeOK, Words
  <1>2. UNCHANGED <<running, appVars, netVars, alive, alone>>
    BY DEF Broker, BrokerEnds, BrokerStarts, BrokerSends
  <1>3. inbound' \in [Session -> Seq(Words)]
    <2>1. CASE BrokerEnds
      <3>1. PICK word \in {<<>>, <<"SC_KILLCLIENT">>} :
               inbound' = [s \in Session |-> IF conn[s] = "open" THEN inbound[s] \o word
                                                                 ELSE inbound[s]]
        BY <2>1 DEF BrokerEnds
      <3>2. word \in Seq(Words)
        <4>1. <<"SC_KILLCLIENT">> \in Seq(Words) /\ <<>> \in Seq(Words)
          BY DEF Words
        <4> QED BY <4>1
      <3>3. \A s \in Session : inbound[s] \o word \in Seq(Words)
        BY <1>1, <3>2, ConcatProperties
      <3> QED BY <1>1, <3>1, <3>3
    <2>2. CASE BrokerStarts
      BY <1>1, <2>2 DEF BrokerStarts
    <2>3. CASE \E s \in Session : BrokerSends(s, "SC_NOTIFY")
      <3>1. PICK s \in Session : BrokerSends(s, "SC_NOTIFY")
        BY <2>3
      <3>2. Append(inbound[s], "SC_NOTIFY") \in Seq(Words)
        BY <1>1, AppendProperties DEF Words
      <3> QED BY <1>1, <3>1, <3>2 DEF BrokerSends
    <2> QED BY <2>1, <2>2, <2>3 DEF Broker
  <1>4. up' \in BOOLEAN /\ conn' \in [Session -> {"none", "open", "closed"}]
    BY <1>1 DEF Broker, BrokerEnds, BrokerStarts, BrokerSends, TypeOK
  <1>5. TypeOK'
    BY <1>1, <1>2, <1>3, <1>4 DEF TypeOK, Words, appVars, netVars
  <1>6. SessionApart'
    BY <1>2 DEF IInv, SessionApart, Ended, appVars, netVars
  <1> QED BY <1>2, <1>5, <1>6 DEF IInv, appVars, netVars

(* Every step keeps the invariant.                                         *)
LEMMA NextKeeps == IInv /\ [Next]_vars => IInv'
  <1> SUFFICES ASSUME IInv, [Next]_vars PROVE IInv'
    OBVIOUS
  <1>1. CASE UNCHANGED vars
    BY <1>1 DEF IInv, TypeOK, SessionApart, Ended, vars, appVars, netVars, wireVars
  <1>2. CASE Next
    BY <1>2, InitConnectsKeeps, CallKeeps, ThreadKeeps, DiesKeeps, BrokerKeeps DEF Next, Api
  <1> QED BY <1>1, <1>2

(* The inductive invariant, whatever the program calls and when: sessions  *)
(* may overlap, and threads share or delete each other's objects.          *)
THEOREM LifecycleInvariance == Spec => []IInv
  <1> QED BY InitOK, NextKeeps, PTL DEF Spec

(* A session that starts when no earlier thread is left stays apart from   *)
(* the others: its thread uses and deletes its own object, that once, and  *)
(* nothing undefined happens (threadfunc(), "client->update()" and "delete *)
(* client"), unless a nested destroy() has destroyed the mutex.            *)
THEOREM SessionStaysApart == Spec => []SessionApart
  <1>1. IInv => SessionApart
    BY DEF IInv
  <1> QED BY <1>1, LifecycleInvariance, PTL

(* "while(!running){}" waits for the thread of this session, but for one   *)
(* case: a thread of an earlier session, still there, has left the flag.   *)
THEOREM InitWaits == Spec => InitWaitsForThread
  <1>1. IInv /\ [Next]_vars =>
           [main = "spin" /\ main' = "idle" /\ thread[client] = "created"
              => ~alone /\ \E s \in Session : s < client /\ ~Ended(s)]_vars
    <2> SUFFICES ASSUME IInv, Next, main = "spin", main' = "idle", thread[client] = "created"
                 PROVE  ~alone /\ \E s \in Session : s < client /\ ~Ended(s)
      OBVIOUS
    <2>1. running
      BY DEF Next, Api, InitConnects, InitThrows, InitReturns, InitCounts, Destroy, NewSession,
             Thread, ThreadStarts, ThreadTests, ThreadReads, ThreadSeesEnd, ThreadDeletes,
             ThreadEnds, Broker, BrokerSends, BrokerEnds, BrokerStarts, Dies, vars, appVars
    <2>2. PICK s \in Session : thread[s] \in {"test", "read", "leave", "stop"}
      BY <2>1 DEF IInv
    <2>3. client \in Session /\ s <= client /\ s # client
      BY <2>2, Started
    <2>4. s < client /\ ~Ended(s)
      BY <2>2, <2>3 DEF Session, Ended
    <2>5. ~alone
      BY <2>3, <2>4, OneThread
    <2> QED BY <2>4, <2>5
  <1> QED BY <1>1, LifecycleInvariance, PTL DEF Spec, InitWaitsForThread
=============================================================================

------------------------------ MODULE Messages ------------------------------
(***************************************************************************)
(* What travels between a client and the broker: the message types of      *)
(* messages.h, the topic data of data.h that they carry, and the std::map  *)
(* operations with which both sides keep topics by name.                   *)
(*                                                                         *)
(* A payload is opaque here (a member of Values stands for a whole vector  *)
(* of Datum); what a topic holds is a record whose field tells how it was  *)
(* made: by a publisher, or by one of the broker's own topics.             *)
(***************************************************************************)
EXTENDS Naturals

CONSTANTS Names,      \* every topic name
          PubNames,   \* the names that clients publish
          SubNames,   \* the names that clients subscribe to
          Values      \* the payloads that clients publish

ASSUME NamesAssumption ==
    /\ {"topics", "stats", "version"} \subseteq Names
    /\ PubNames \subseteq Names
    /\ SubNames \subseteq Names

-----------------------------------------------------------------------------
(* std::map: insertion or overwriting, erase, and operator[] on a map of   *)
(* sets read as a value (a missing key is an empty set).                   *)

IsMap(f, S, T) == f \in [DOMAIN f -> T] /\ DOMAIN f \subseteq S

EmptyMap == [x \in {} |-> {}]

Put(f, k, v) == [x \in DOMAIN f \cup {k} |-> IF x = k THEN v ELSE f[x]]

Erase(f, k) == [x \in DOMAIN f \ {k} |-> f[x]]

At(f, k) == IF k \in DOMAIN f THEN f[k] ELSE {}

-----------------------------------------------------------------------------
(* The contents of a topic.                                                *)

UserData(v) == [val |-> v]

VersionData == [version |-> "1.1.2"]

TopicList(S) == [names |-> S]

Stats(subs, sent, recvd) == [subs |-> subs, sent |-> sent, recvd |-> recvd]

Payloads == {UserData(v) : v \in Values}

Data == Payloads \cup {VersionData} \cup [names : SUBSET Names]
            \cup [subs : Nat, sent : Nat, recvd : Nat]

-----------------------------------------------------------------------------
(* Client to server.                                                       *)

Publish(n, v) == [type |-> "CS_PUBLISH", name |-> n, data |-> UserData(v)]

Subscribe(n) == [type |-> "CS_SUBSCRIBE", name |-> n]

KillServer == [type |-> "CS_KILLSERVER"]

ClearServer == [type |-> "CS_CLEARSERVER"]

Requests == {Publish(n, v) : n \in PubNames, v \in Values}
                \cup {Subscribe(n) : n \in SubNames} \cup {KillServer, ClearServer}

(* Server to client.                                                       *)

(* Mutant: the packet is passed on with the type it came with.             *)
NotifyUnstamped(n, d) == [type |-> "CS_PUBLISH", name |-> n, data |-> d]

Notify(n, d) == [type |-> "SC_NOTIFY", name |-> n, data |-> d]

KillClient == [type |-> "SC_KILLCLIENT"]

Notices == [type : {"SC_NOTIFY"}, name : Names, data : Data] \cup {KillClient}
=============================================================================

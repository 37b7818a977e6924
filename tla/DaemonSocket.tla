---------------------------- MODULE DaemonSocket ----------------------------
(***************************************************************************)
(* asb daemon and asb proxy (src/main.rs): brokers that want the same Unix *)
(* socket path, and clients that connect to whatever the path names.       *)
(*                                                                         *)
(* A socket file is identified by the start that bound it.  Every call on  *)
(* the path is a step, so two brokers can interleave between the probe,    *)
(* the removal of a stale socket, bind, listen, and the removal at the end.*)
(***************************************************************************)
EXTENDS Integers, FiniteSets

CONSTANTS
    Brokers,     \* processes that run asb daemon, one start after the other
    Clients,     \* processes that run asb proxy
    NoSocket,    \* the path does not exist
    Settled,     \* starts and signals come only while no other broker is between states
    MaxStarts,   \* bound: starts of a broker
    MaxKills,    \* bound: brokers that end without a signal they handle
    MaxLinks     \* bound: connections that clients make

ASSUME DaemonSocketAssumption ==
    /\ Settled \in BOOLEAN
    /\ {MaxStarts, MaxKills, MaxLinks} \subseteq Nat
    /\ NoSocket \notin Nat \cup Brokers

VARIABLES
    path,        \* the socket file the path names: the number of a start, or NoSocket
    listening,   \* socket files whose listener is open
    broker,      \* broker[b]: where broker b is, and the number of its start
    link,        \* link[c]: the broker that client c talks to, NoSocket if none
    starts, kills, links

socketVars == <<path, listening, broker, link, starts, kills, links>>

SocketPoints == {"off", "exists", "connect", "remove_stale", "bind", "listen", "chmod",
           "serve", "drop", "remove_own"}

\* At these points a broker neither owns the path nor leaves it alone for good.
Between == SocketPoints \ {"off", "serve"}

Lives == [pc : SocketPoints, start : Nat]

\* The types, and a listener is open exactly while its broker holds it: from
\* listen(2) to drop(listener) (main.rs:223-247).
SocketTypeOK ==
    /\ path \in Nat \cup {NoSocket}
    /\ listening \subseteq 1..MaxStarts
    /\ broker \in [Brokers -> Lives]
    /\ link \in [Clients -> Brokers \cup {NoSocket}]
    /\ starts \in 0..MaxStarts /\ kills \in 0..MaxKills /\ links \in 0..MaxLinks
    /\ \A b \in Brokers :
          broker[b].start \in listening <=> broker[b].pc \in {"chmod", "serve", "drop"}

BrokerAt(b, point) == broker[b].pc = point
BrokerGoto(b, point) == broker' = [broker EXCEPT ![b].pc = point]

Quiet(b) == Settled => \A other \in Brokers \ {b} : broker[other].pc \notin Between

\* The process ends: its listener and its connections close with it.
End(b) ==
    /\ BrokerGoto(b, "off")
    /\ listening' = listening \ {broker[b].start}
    /\ link' = [c \in Clients |-> IF link[c] = b THEN NoSocket ELSE link[c]]

-----------------------------------------------------------------------------
SocketInit ==
    /\ path = NoSocket /\ listening = {}
    /\ broker = [b \in Brokers |-> [pc |-> "off", start |-> 0]]
    /\ link = [c \in Clients |-> NoSocket]
    /\ starts = 0 /\ kills = 0 /\ links = 0

BrokerStart(b) ==
    /\ BrokerAt(b, "off") /\ starts < MaxStarts /\ Quiet(b)
    /\ starts' = starts + 1
    /\ broker' = [broker EXCEPT ![b] = [pc |-> "exists", start |-> starts + 1]]
    /\ UNCHANGED <<path, listening, link, kills, links>>

ProbeSkipped(b) ==
    /\ BrokerAt(b, "exists")
    /\ BrokerGoto(b, IF path = NoSocket THEN "bind" ELSE "remove_stale")
    /\ UNCHANGED <<path, listening, link, starts, kills, links>>

\* socket.exists()
Exists(b) ==
    /\ BrokerAt(b, "exists")
    /\ BrokerGoto(b, IF path = NoSocket THEN "bind" ELSE "connect")
    /\ UNCHANGED <<path, listening, link, starts, kills, links>>

ConnectTrusting(b) ==
    /\ BrokerAt(b, "connect")
    /\ BrokerGoto(b, "remove_stale") /\ UNCHANGED <<listening, link>>
    /\ UNCHANGED <<path, starts, kills, links>>

\* UnixStream::connect: a broker that answers ends this start; a refusal, and a
\* path that is gone meanwhile, mean a stale socket.
Connect(b) ==
    /\ BrokerAt(b, "connect")
    /\ IF path \in listening THEN End(b)
       ELSE BrokerGoto(b, "remove_stale") /\ UNCHANGED <<listening, link>>
    /\ UNCHANGED <<path, starts, kills, links>>

KeepStale(b) ==
    /\ BrokerAt(b, "remove_stale")
    /\ BrokerGoto(b, "bind")
    /\ UNCHANGED <<path, listening, link, starts, kills, links>>

\* remove_file: whatever the path names now; nothing there is an error.
RemoveStale(b) ==
    /\ BrokerAt(b, "remove_stale")
    /\ IF path = NoSocket THEN End(b) /\ UNCHANGED path
       ELSE path' = NoSocket /\ BrokerGoto(b, "bind") /\ UNCHANGED <<listening, link>>
    /\ UNCHANGED <<starts, kills, links>>

\* build_server and the first half of UnixListener::bind, which needs a free path.
Bind(b) ==
    /\ BrokerAt(b, "bind")
    /\ IF path # NoSocket THEN End(b) /\ UNCHANGED path
       ELSE path' = broker[b].start /\ BrokerGoto(b, "listen") /\ UNCHANGED <<listening, link>>
    /\ UNCHANGED <<starts, kills, links>>

\* The second half of UnixListener::bind.
Listen(b) ==
    /\ BrokerAt(b, "listen")
    /\ listening' = listening \cup {broker[b].start}
    /\ BrokerGoto(b, "chmod")
    /\ UNCHANGED <<path, link, starts, kills, links>>

\* set_permissions works on the path; nothing there is an error.
Chmod(b) ==
    /\ BrokerAt(b, "chmod")
    /\ IF path = NoSocket THEN End(b) ELSE BrokerGoto(b, "serve") /\ UNCHANGED <<listening, link>>
    /\ UNCHANGED <<path, starts, kills, links>>

\* asb proxy connects to the path, and the accept loop spawns a task for it.
Accept(c, b) ==
    /\ BrokerAt(b, "serve") /\ path = broker[b].start /\ link[c] = NoSocket
    /\ links < MaxLinks /\ links' = links + 1
    /\ link' = [link EXCEPT ![c] = b]
    /\ UNCHANGED <<path, listening, broker, starts, kills>>

\* The client closes its end, and the task of the broker with it.
HangUp(c) ==
    /\ link[c] # NoSocket
    /\ link' = [link EXCEPT ![c] = NoSocket]
    /\ UNCHANGED <<path, listening, broker, starts, kills, links>>

\* ctrl_c or SIGTERM: the accept loop ends.
Signal(b) ==
    /\ BrokerAt(b, "serve") /\ Quiet(b)
    /\ BrokerGoto(b, "drop")
    /\ UNCHANGED <<path, listening, link, starts, kills, links>>

ListenerKept(b) ==
    /\ BrokerAt(b, "drop")
    /\ BrokerGoto(b, "remove_own")
    /\ UNCHANGED <<path, listening, link, starts, kills, links>>

DropListener(b) ==
    /\ BrokerAt(b, "drop")
    /\ listening' = listening \ {broker[b].start}
    /\ BrokerGoto(b, "remove_own")
    /\ UNCHANGED <<path, link, starts, kills, links>>

\* remove_file at the end: whatever the path names now.
RemoveOwn(b) ==
    /\ BrokerAt(b, "remove_own")
    /\ path' = NoSocket
    /\ End(b)
    /\ UNCHANGED <<starts, kills, links>>

\* SIGKILL, a signal before its handler is there, an accept that fails
\* (main.rs:234): the listener closes, the file stays.
BrokerCrash(b) ==
    /\ ~BrokerAt(b, "off") /\ kills < MaxKills
    /\ kills' = kills + 1
    /\ End(b)
    /\ UNCHANGED <<path, starts, links>>

BrokerStep(b) ==
    \/ Exists(b) \/ Connect(b) \/ RemoveStale(b) \/ Bind(b) \/ Listen(b) \/ Chmod(b)
    \/ DropListener(b) \/ RemoveOwn(b)

SocketNext ==
    \/ \E b \in Brokers : BrokerStart(b) \/ BrokerStep(b) \/ Signal(b) \/ BrokerCrash(b)
    \/ \E c \in Clients, b \in Brokers : Accept(c, b)
    \/ \E c \in Clients : HangUp(c)

SocketSpec == SocketInit /\ [][SocketNext]_socketVars

-----------------------------------------------------------------------------
\* A broker that serves is the one that the path leads to: starting a second
\* one does not take the socket away (main.rs:199-221, main.rs:248).
ServingIsReachable ==
    \A b \in Brokers : BrokerAt(b, "serve") => path = broker[b].start /\ path \in listening

\* All clients talk to one process, whose limiter sees every call.
OneBroker ==
    \A c, d \in Clients : {link[c], link[d]} \subseteq Brokers => link[c] = link[d]

\* The socket file that a dead broker left behind does not keep the next one
\* from serving: a start reaches the accept loop unless it is killed or another
\* broker is up meanwhile (main.rs:199-224).
Undisturbed(b, k) == kills = k /\ \A other \in Brokers \ {b} : BrokerAt(other, "off")
Recovers ==
    \A b \in Brokers, k \in 0..MaxKills :
        BrokerAt(b, "exists") /\ Undisturbed(b, k) ~> BrokerAt(b, "serve") \/ ~Undisturbed(b, k)
=============================================================================

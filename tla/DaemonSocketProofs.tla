-------------------------- MODULE DaemonSocketProofs --------------------------
(* Proofs about DaemonSocket, for any brokers and clients and any number of  *)
(* starts, kills and connections.  What clients rely on holds where starts   *)
(* and signals are settled: one at a time, as under a supervisor.            *)
EXTENDS DaemonSocket, TLAPS

\* The points that a broker passes before it has found the path its own.
Probing == {"exists", "connect"}

\* A socket file belongs to the start that bound it.
Numbered ==
    /\ listening \subseteq 1..starts
    /\ \A b \in Brokers :
          /\ broker[b].start <= starts
          /\ broker[b].pc # "off" => broker[b].start > 0
    /\ \A b, c \in Brokers :
          b # c /\ broker[b].start = broker[c].start => broker[b].start = 0

\* Of two brokers one is off, or one serves and the other has yet to find out.
Apart ==
    \A b, c \in Brokers : b # c =>
        \/ broker[b].pc = "off" \/ broker[c].pc = "off"
        \/ broker[b].pc = "serve" /\ broker[c].pc \in Probing
        \/ broker[b].pc \in Probing /\ broker[c].pc = "serve"

\* The path leads to the broker that has bound it, until it takes it away.
Reached ==
    \A b \in Brokers :
        broker[b].pc \in {"listen", "chmod", "serve"} => path = broker[b].start

\* Connections end with the broker that has accepted them.
Linked ==
    \A c \in Clients :
        link[c] # NoSocket => broker[link[c]].pc \in {"serve", "drop", "remove_own"}

SocketInv == Apart /\ Reached /\ Linked

-----------------------------------------------------------------------------
USE DaemonSocketAssumption

Others(b) == \A c \in Brokers \ {b} : broker'[c] = broker[c]

\* Broker b goes to a point of the same start.
Goes(b, point) ==
    /\ broker' \in [Brokers -> Lives] /\ Others(b)
    /\ broker'[b].pc = point /\ broker'[b].start = broker[b].start

LEMMA GotoEffect ==
    ASSUME broker \in [Brokers -> Lives], NEW b \in Brokers,
               NEW point \in SocketPoints, BrokerGoto(b, point)
    PROVE  Goes(b, point)
<1> DEFINE l == [broker[b] EXCEPT !.pc = point]
<1>1. l \in Lives /\ l.pc = point /\ l.start = broker[b].start
  BY DEF Lives
<1>2. broker' = [broker EXCEPT ![b] = l]
  BY DEF BrokerGoto
<1> HIDE DEF l
<1> QED
  BY <1>1, <1>2 DEF Goes, Others

LEMMA StartEffect ==
    ASSUME broker \in [Brokers -> Lives], starts \in Nat, NEW b \in Brokers, BrokerStart(b)
    PROVE  /\ broker' \in [Brokers -> Lives] /\ Others(b)
           /\ broker'[b].pc = "exists" /\ broker'[b].start = starts + 1
<1> DEFINE l == [pc |-> "exists", start |-> starts + 1]
<1>1. l \in Lives /\ l.pc = "exists" /\ l.start = starts + 1
  BY DEF Lives, SocketPoints
<1>2. broker' = [broker EXCEPT ![b] = l]
  BY DEF BrokerStart
<1> HIDE DEF l
<1> QED
  BY <1>1, <1>2 DEF Others

\* The end of a process takes its listener and its connections, never the path.
LEMMA EndEffect ==
    ASSUME SocketTypeOK, NEW b \in Brokers, End(b)
    PROVE  /\ Goes(b, "off") /\ listening' = listening \ {broker[b].start}
           /\ link' \in [Clients -> Brokers \cup {NoSocket}]
           /\ \A c \in Clients : link'[c] # NoSocket => link'[c] = link[c] /\ link[c] # b
BY GotoEffect DEF End, SocketTypeOK, SocketPoints


-----------------------------------------------------------------------------
Typed == SocketTypeOK /\ Numbered

LEMMA TypedInit == SocketInit => Typed
<1> SUFFICES ASSUME SocketInit PROVE Typed
  OBVIOUS
<1>1. [pc |-> "off", start |-> 0] \in Lives
  BY DEF Lives, SocketPoints
<1> QED
  BY <1>1 DEF SocketInit, Typed, SocketTypeOK, Numbered

LEMMA TypedStep == Typed /\ [SocketNext]_socketVars => Typed'
<1> SUFFICES ASSUME Typed, [SocketNext]_socketVars PROVE Typed'
  OBVIOUS
<1> USE DEF Typed
<1>0. broker \in [Brokers -> Lives] /\ starts \in Nat
  BY DEF SocketTypeOK
\* The lists of open listeners follow the points of their brokers.
<1>1. ASSUME NEW b \in Brokers, Others(b), broker' \in [Brokers -> Lives],
             broker'[b].start = broker[b].start, starts' = starts,
             broker'[b].pc # "off" => broker[b].pc # "off",
             link' \in [Clients -> Brokers \cup {NoSocket}],
             \/ /\ listening' = listening
                /\ broker[b].pc \in {"chmod", "serve", "drop"}
                      <=> broker'[b].pc \in {"chmod", "serve", "drop"}
             \/ /\ listening' = listening \cup {broker[b].start}
                /\ broker[b].pc # "off" /\ broker'[b].pc = "chmod"
             \/ /\ listening' = listening \ {broker[b].start}
                /\ broker'[b].pc \notin {"chmod", "serve", "drop"}
      PROVE  /\ Numbered' /\ listening' \subseteq 1..MaxStarts
             /\ \A c \in Brokers : broker'[c].start \in listening'
                                      <=> broker'[c].pc \in {"chmod", "serve", "drop"}
  <2>0. starts \in 0..MaxStarts /\ starts \in Nat /\ MaxStarts \in Nat /\ broker[b].start \in Nat
    BY <1>0, DaemonSocketAssumption DEF SocketTypeOK, Lives
  <2>1. broker[b].pc # "off" => broker[b].start \in 1..starts
    BY <2>0 DEF Numbered
  <2>2. listening' \subseteq 1..starts /\ 1..starts \subseteq 1..MaxStarts
    <3>1. listening \subseteq 1..starts /\ 1..starts \subseteq 1..MaxStarts
      BY <2>0 DEF Numbered
    <3>2. CASE listening' \subseteq listening
      BY <3>1, <3>2
    <3>3. CASE listening' = listening \cup {broker[b].start} /\ broker[b].pc # "off"
      BY <2>1, <3>1, <3>3
    <3> QED
      BY <1>1, <3>1, <3>2, <3>3
  <2>3. Numbered'
    <3>1. \A c \in Brokers : broker'[c].start = broker[c].start
      BY <1>1 DEF Others
    <3>2. \A c \in Brokers : broker'[c].pc # "off" => broker[c].pc # "off"
      BY <1>1 DEF Others
    <3> QED
      BY <1>1, <2>2, <3>1, <3>2 DEF Numbered
  <2>4. \A c \in Brokers : broker'[c].start \in listening'
                              <=> broker'[c].pc \in {"chmod", "serve", "drop"}
    BY <1>0, <1>1 DEF SocketTypeOK, Numbered, Lives, Others
  <2> QED
    BY <2>2, <2>3, <2>4
<1>2. ASSUME NEW b \in Brokers, BrokerStart(b) PROVE Typed'
  <2>1. /\ broker' \in [Brokers -> Lives] /\ Others(b)
        /\ broker'[b].pc = "exists" /\ broker'[b].start = starts + 1
    BY <1>0, <1>2, StartEffect
  <2>2. starts' = starts + 1 /\ UNCHANGED <<path, listening, link, kills, links>> /\ starts < MaxStarts
    BY <1>2 DEF BrokerStart
  <2>3. Numbered'
    <3>1. listening' \subseteq 1..starts'
      BY <1>0, <2>2 DEF SocketTypeOK, Numbered
    <3>2. ASSUME NEW c \in Brokers
          PROVE  /\ broker'[c].start <= starts'
                 /\ broker'[c].pc # "off" => broker'[c].start > 0
      <4>1. CASE c = b
        BY <1>0, <4>1, <2>1, <2>2 DEF SocketTypeOK
      <4>2. CASE c # b
        <5>1. broker'[c] = broker[c] /\ broker[c].start \in Nat
          BY <1>0, <4>2, <2>1 DEF SocketTypeOK, Others, Lives
        <5> QED
          BY <1>0, <5>1, <2>2 DEF SocketTypeOK, Numbered
      <4> QED
        BY <4>1, <4>2
    <3>3. ASSUME NEW c \in Brokers, NEW d \in Brokers, c # d,
                 broker'[c].start = broker'[d].start
          PROVE  broker'[c].start = 0
      <4>1. ASSUME NEW e \in Brokers \ {b}
            PROVE  broker'[e] = broker[e] /\ broker[e].start # starts + 1
        BY <1>0, <2>1, <4>1 DEF SocketTypeOK, Numbered, Others, Lives
      <4>2. c # b /\ d # b
        BY <3>3, <4>1, <2>1
      <4> QED
        BY <1>0, <3>3, <4>1, <4>2 DEF Numbered
    <3> QED
      BY <3>1, <3>2, <3>3 DEF Numbered
  <2>4. ASSUME NEW c \in Brokers
        PROVE  broker'[c].start \in listening'
                  <=> broker'[c].pc \in {"chmod", "serve", "drop"}
    <3>1. CASE c = b
      <4>1. starts + 1 \notin listening
        BY <1>0 DEF Numbered, SocketTypeOK
      <4> QED
        BY <3>1, <4>1, <2>1, <2>2
    <3>2. CASE c # b
      BY <1>0, <3>2, <2>1, <2>2 DEF SocketTypeOK, Others
    <3> QED
      BY <3>1, <3>2
  <2> QED
    BY <1>0, <2>1, <2>2, <2>3, <2>4 DEF SocketTypeOK
<1>3. ASSUME NEW b \in Brokers, BrokerStep(b) \/ Signal(b) \/ BrokerCrash(b)
      PROVE  Typed'
  <2>1. CASE End(b)
    <3>1. /\ Goes(b, "off") /\ listening' = listening \ {broker[b].start}
          /\ link' \in [Clients -> Brokers \cup {NoSocket}]
      BY <2>1, EndEffect
    <3>2. starts' = starts /\ path' \in Nat \cup {NoSocket} /\ kills' \in 0..MaxKills /\ links' = links
      BY <1>3 DEF SocketTypeOK, BrokerStep, Exists, Connect, RemoveStale,
              Bind, Listen, Chmod, DropListener,
         RemoveOwn, Signal, BrokerCrash, Lives
    <3> QED
      BY <1>1, <3>1, <3>2 DEF Goes, SocketTypeOK
  <2>2. CASE ~End(b)
    <3>1. /\ UNCHANGED <<link, starts, kills, links>>
          /\ path' = path \/ path' = NoSocket \/ path' = broker[b].start
          /\ broker[b].pc # "off"
          /\ \E point \in SocketPoints : BrokerGoto(b, point)
                /\ \/ /\ listening' = listening
                      /\ broker[b].pc \in {"chmod", "serve", "drop"}
                            <=> point \in {"chmod", "serve", "drop"}
                   \/ listening' = listening \cup {broker[b].start} /\ point = "chmod"
                   \/ listening' = listening \ {broker[b].start} /\ point = "remove_own"
      BY <1>3, <2>2 DEF BrokerStep, Exists, Connect, RemoveStale, Bind, Listen, Chmod, DropListener,
         RemoveOwn, Signal, BrokerCrash, BrokerAt, SocketPoints
    <3>2. path' \in Nat \cup {NoSocket} /\ link' \in [Clients -> Brokers \cup {NoSocket}]
      BY <1>0, <3>1 DEF SocketTypeOK, Lives
    <3> QED
      BY <1>0, <1>1, <3>1, <3>2, GotoEffect DEF Goes, SocketTypeOK
  <2> QED
    BY <2>1, <2>2
<1>4. ASSUME NEW c \in Clients, NEW b \in Brokers, Accept(c, b) PROVE Typed'
  BY <1>4 DEF Accept, SocketTypeOK, Numbered
<1>5. ASSUME NEW c \in Clients, HangUp(c) PROVE Typed'
  BY <1>5 DEF HangUp, SocketTypeOK, Numbered
<1>6. CASE UNCHANGED socketVars
  BY <1>6 DEF socketVars, SocketTypeOK, Numbered
<1> QED
  BY <1>2, <1>3, <1>4, <1>5, <1>6 DEF SocketNext

LEMMA TypedInvariant == SocketSpec => []Typed
BY TypedInit, TypedStep, PTL DEF SocketSpec

\* Types, and a listener is open exactly from listen(2) to its drop
\* (main.rs:223-247).
THEOREM TypesHold == SocketSpec => []SocketTypeOK
BY TypedInvariant, PTL DEF Typed

-----------------------------------------------------------------------------
LEMMA SocketInvInit == SocketInit => SocketInv
BY DEF SocketInit, SocketInv, Apart, Reached, Linked

\* A broker that starts or stops does so past the probing of every other one.
LEMMA QuietMeans ==
    ASSUME SocketTypeOK, Settled, NEW b \in Brokers, Quiet(b), NEW c \in Brokers, c # b
    PROVE  broker[c].pc \in {"off", "serve"}
BY DEF Quiet, Between, SocketTypeOK, Lives, SocketPoints

\* While a broker is past its probes, every other one is off or probes it in vain.
LEMMA Alone ==
    ASSUME Apart, NEW b \in Brokers, broker[b].pc \notin Probing \cup {"off", "serve"},
           NEW c \in Brokers, c # b
    PROVE  broker[c].pc = "off"
BY DEF Apart, Probing

LEMMA SocketStep ==
    ASSUME Settled, Typed, SocketInv, [SocketNext]_socketVars
    PROVE  SocketInv'
<1> USE DEF Typed, SocketInv
<1>0. broker \in [Brokers -> Lives] /\ starts \in Nat
      /\ link \in [Clients -> Brokers \cup {NoSocket}]
  BY DEF SocketTypeOK
<1>1. ASSUME NEW b \in Brokers, BrokerStart(b) PROVE SocketInv'
  <2>1. /\ broker' \in [Brokers -> Lives] /\ Others(b)
        /\ broker'[b].pc = "exists" /\ broker'[b].start = starts + 1
    BY <1>0, <1>1, StartEffect
  <2>2. UNCHANGED <<path, listening, link>> /\ broker[b].pc = "off" /\ Quiet(b)
    BY <1>1 DEF BrokerStart, BrokerAt
  <2>3. Apart'
    <3>1. ASSUME NEW x \in Brokers, NEW y \in Brokers, x # y,
            broker'[x].pc # "off", broker'[y].pc # "off"
          PROVE  \/ broker'[x].pc = "serve" /\ broker'[y].pc \in Probing
                 \/ broker'[x].pc \in Probing /\ broker'[y].pc = "serve"
      <4>1. CASE x = b
        BY <2>1, <2>2, <3>1, <4>1, QuietMeans DEF Others, Probing
      <4>2. CASE y = b
        BY <2>1, <2>2, <3>1, <4>2, QuietMeans DEF Others, Probing
      <4>3. CASE x # b /\ y # b
        BY <2>1, <3>1, <4>3 DEF Others, Apart
      <4> QED
        BY <4>1, <4>2, <4>3
    <3> QED
      BY <3>1 DEF Apart
  <2>4. Reached'
    BY <2>1, <2>2 DEF Reached, Others
  <2>5. Linked'
    BY <1>0, <2>1, <2>2 DEF Linked, Others
  <2> QED
    BY <2>3, <2>4, <2>5
\* A process that ends leaves the path alone, and nobody is linked to it.
<1>2. ASSUME NEW b \in Brokers, End(b),
             path' = path \/ broker[b].pc = "remove_own"
      PROVE  SocketInv'
  <2>1. /\ Goes(b, "off")
        /\ \A c \in Clients : link'[c] # NoSocket => link'[c] = link[c] /\ link[c] # b
    BY <1>2, EndEffect
  <2>2. Apart'
    BY <2>1 DEF Apart, Goes, Others
  <2>3. Reached'
    BY <1>2, <2>1, Alone DEF Reached, Goes, Others, Probing
  <2>4. Linked'
    BY <1>0, <2>1 DEF Linked, Goes, Others
  <2> QED
    BY <2>2, <2>3, <2>4
\* A broker that goes on where the others are off.
<1>3. ASSUME NEW b \in Brokers, NEW point \in SocketPoints, BrokerGoto(b, point),
             \A c \in Brokers : c # b => broker[c].pc = "off",
             point \in {"listen", "chmod", "serve"} => path' = broker[b].start,
             broker[b].pc \in {"serve", "drop", "remove_own"}
                => point \in {"serve", "drop", "remove_own"},
             UNCHANGED link
      PROVE  SocketInv'
  <2>1. Goes(b, point)
    BY <1>0, <1>3, GotoEffect
  <2>2. Apart'
    BY <1>3, <2>1 DEF Apart, Goes, Others
  <2>3. Reached'
    BY <1>3, <2>1 DEF Reached, Goes, Others
  <2>4. Linked'
    BY <1>0, <1>3, <2>1 DEF Linked, Goes, Others
  <2> QED
    BY <2>2, <2>3, <2>4
\* A probe finds a serving broker at the path; without one, all others are off.
<1>4. ASSUME NEW b \in Brokers, Exists(b) PROVE SocketInv'
  <2>1. CASE \E c \in Brokers : c # b /\ broker[c].pc = "serve"
    <3>1. path # NoSocket
      BY <1>0, <2>1 DEF Reached, Lives
    <3>2. BrokerGoto(b, "connect") /\ broker[b].pc = "exists" /\ UNCHANGED <<path, link>>
      BY <1>4, <3>1 DEF Exists, BrokerAt
    <3>3. Goes(b, "connect")
      BY <1>0, <3>2, GotoEffect DEF SocketPoints
    <3> QED
      BY <1>0, <3>2, <3>3 DEF Apart, Reached, Linked, Goes, Others, Probing
  <2>2. CASE \A c \in Brokers : c # b => broker[c].pc # "serve"
    <3>1. \A c \in Brokers : c # b => broker[c].pc = "off"
      BY <1>4, <2>2 DEF Apart, Exists, BrokerAt, Probing
    <3> QED
      BY <1>3, <1>4, <3>1 DEF Exists, BrokerAt, SocketPoints
  <2> QED
    BY <2>1, <2>2
<1>5. ASSUME NEW b \in Brokers, Connect(b) PROVE SocketInv'
  <2>1. CASE path \in listening
    BY <1>2, <1>5, <2>1 DEF Connect
  <2>2. CASE path \notin listening
    <3>1. \A c \in Brokers : c # b => broker[c].pc = "off"
      BY <1>5, <2>2 DEF Apart, Reached, SocketTypeOK, Connect, BrokerAt, Probing
    <3> QED
      BY <1>3, <1>5, <2>2, <3>1 DEF Connect, BrokerAt, SocketPoints
  <2> QED
    BY <2>1, <2>2
<1>6. ASSUME NEW b \in Brokers,
             RemoveStale(b) \/ Bind(b) \/ Listen(b) \/ Chmod(b) \/ DropListener(b)
      PROVE  SocketInv'
  <2>1. \A c \in Brokers : c # b => broker[c].pc = "off"
    BY <1>6, Alone DEF RemoveStale, Bind, Listen, Chmod, DropListener, BrokerAt, Probing
  <2>2. CASE End(b) /\ path' = path
    BY <1>2, <2>2
  <2>3. CASE ~(End(b) /\ path' = path)
    <3>1. RemoveStale(b) => SocketInv'
      BY <1>3, <2>1, <2>3 DEF RemoveStale, BrokerAt, SocketPoints
    <3>2. Bind(b) => SocketInv'
      BY <1>3, <2>1, <2>3 DEF Bind, BrokerAt, SocketPoints
    <3>3. Listen(b) => SocketInv'
      BY <1>3, <2>1 DEF Listen, BrokerAt, SocketPoints, Reached
    <3>4. Chmod(b) => SocketInv'
      BY <1>3, <2>1, <2>3 DEF Chmod, BrokerAt, SocketPoints, Reached
    <3>5. DropListener(b) => SocketInv'
      BY <1>3, <2>1 DEF DropListener, BrokerAt, SocketPoints
    <3> QED
      BY <1>6, <3>1, <3>2, <3>3, <3>4, <3>5
  <2> QED
    BY <2>2, <2>3
<1>7. ASSUME NEW b \in Brokers, RemoveOwn(b) PROVE SocketInv'
  BY <1>2, <1>7 DEF RemoveOwn, BrokerAt
<1>8. ASSUME NEW b \in Brokers, Signal(b) PROVE SocketInv'
  <2>1. \A c \in Brokers : c # b => broker[c].pc = "off"
    BY <1>8, QuietMeans DEF Signal, BrokerAt, Apart, Probing
  <2> QED
    BY <1>3, <1>8, <2>1 DEF Signal, BrokerAt, SocketPoints
<1>9. ASSUME NEW b \in Brokers, BrokerCrash(b) PROVE SocketInv'
  BY <1>2, <1>9 DEF BrokerCrash
<1>10. ASSUME NEW c \in Clients, NEW b \in Brokers, Accept(c, b) PROVE SocketInv'
  BY <1>0, <1>10 DEF Accept, BrokerAt, Apart, Reached, Linked
<1>11. ASSUME NEW c \in Clients, HangUp(c) PROVE SocketInv'
  BY <1>0, <1>11 DEF HangUp, Apart, Reached, Linked
<1>12. CASE UNCHANGED socketVars
  BY <1>12 DEF socketVars, Apart, Reached, Linked
<1> QED
  BY <1>1, <1>4, <1>5, <1>6, <1>7, <1>8, <1>9, <1>10, <1>11, <1>12 DEF SocketNext, BrokerStep

LEMMA SocketInvariant ==
    ASSUME Settled
    PROVE  SocketSpec => []SocketInv
<1>1. Typed /\ SocketInv /\ [SocketNext]_socketVars => SocketInv'
  BY SocketStep
<1> QED
  BY <1>1, SocketInvInit, TypedInvariant, PTL DEF SocketSpec

\* Starting a second broker does not take the socket away from the one that
\* serves, which stays the one that clients reach (main.rs:199-221, main.rs:248).
THEOREM ServingReached ==
    ASSUME Settled
    PROVE  SocketSpec => []ServingIsReachable
<1>1. Typed /\ SocketInv => ServingIsReachable
  BY DEF Typed, SocketInv, SocketTypeOK, Reached, ServingIsReachable, BrokerAt
<1> QED
  BY <1>1, TypedInvariant, SocketInvariant, PTL

\* All connections end at one process, so one limiter sees every call
\* (main.rs:233-244).
THEOREM OneBrokerServes ==
    ASSUME Settled
    PROVE  SocketSpec => []OneBroker
<1>1. Typed /\ SocketInv => OneBroker
  BY DEF Typed, SocketInv, SocketTypeOK, Apart, Linked, Probing, OneBroker
<1> QED
  BY <1>1, TypedInvariant, SocketInvariant, PTL
=============================================================================

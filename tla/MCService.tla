------------------------------ MODULE MCService ------------------------------
(* Two sides of asb daemon that share no state, checked in one run: the calls *)
(* that its connections make, and the socket that brokers and clients meet    *)
(* at.  The initial state chooses the side that acts.                         *)
EXTENDS MCBroker, DaemonSocket

VARIABLE side

serviceVars == <<vars, socketVars, side>>

InCalls == side = "calls" /\ UNCHANGED <<socketVars, side>>
InSocket == side = "socket" /\ UNCHANGED <<vars, side>>

ServiceInit == side \in {"calls", "socket"} /\ Init /\ SocketInit

Calls == InCalls /\ Next
Socket == InSocket /\ SocketNext

ServiceNext == Calls \/ Socket

\* FairSpec of Broker, and the system runs every process that serves a socket.
ServiceSpec ==
    /\ ServiceInit /\ [][ServiceNext]_serviceVars
    /\ \A t \in Conns : WF_serviceVars(InCalls /\ Step(t))
    /\ \A b \in Brokers : WF_serviceVars(InSocket /\ BrokerStep(b))
=============================================================================

------------------------------- MODULE Bridge -------------------------------
(***************************************************************************)
(* A client, asb proxy and the broker with the ssh client it runs: the     *)
(* modules Connection and SshChild on one clock.  A tools/call of the      *)
(* connection is a call of SshBroker::execute, and both end with the       *)
(* process of the broker (src/mcp.rs:75, src/ssh.rs:53-185).               *)
(***************************************************************************)
EXTENDS Connection, SshChild

vars == <<connVars, childVars>>

Init == ConnInit /\ ChildInit

BeginCall == Begin /\ Spawn
ReturnCall == Return /\ Leave

Next ==
    \/ ConnStep /\ UNCHANGED childVars
    \/ (CallStep \/ ChildStep) /\ UNCHANGED connVars
    \/ BeginCall \/ ReturnCall
    \/ BrokerDies /\ BrokerEnds

Spec ==
    /\ Init /\ [][Next]_vars
    /\ ConnFairness /\ ChildFairness
    /\ WF_vars(BeginCall) /\ WF_vars(ReturnCall)

-----------------------------------------------------------------------------
\* The types, and the bounds of both halves (Connection, SshChild).
TypeOK == ConnTypeOK /\ ChildTypeOK
=============================================================================

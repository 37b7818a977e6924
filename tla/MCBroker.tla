------------------------------ MODULE MCBroker ------------------------------
(* Constant values for model checking Broker: one HTTP capability that may   *)
(* be read and written under one path, one SSH capability with a read-only   *)
(* and a state-changing operation.                                           *)
EXTENDS Broker, TLC

CONSTANTS http, ssh, status, restart, inside, outside

MCLimit == (http :> 1) @@ (ssh :> 1)
MCMethods == {"GET", "POST"}
MCReadMethods == {"GET"}
MCPaths == {inside, outside}
MCAllowMethods == (http :> MCMethods)
MCAllowPaths == (http :> {inside})
MCOperations == (ssh :> {status, restart})
MCReadOnly == (ssh :> {status})
=============================================================================

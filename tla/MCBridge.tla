------------------------------ MODULE MCBridge ------------------------------
EXTENDS Bridge

\* One read can go past the limit of stdout; stderr fills behind its limit.
MCPipeSize == [s \in Streams |-> IF s = "stdout" THEN 2 ELSE 1]
=============================================================================
